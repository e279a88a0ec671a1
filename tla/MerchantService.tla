--------------------------- MODULE MerchantService ---------------------------
(***************************************************************************)
(* merchant-service (internal/merchant): the rows of one merchant, its API *)
(* keys of one mode, its webhook endpoints and its routing preferences,    *)
(* and the calls that change them, on PostgreSQL at READ COMMITTED.        *)
(*                                                                         *)
(* A call is one transaction.  Most calls begin with lockMerchant, which   *)
(* holds the merchant's row until the end; RevokeApiKey and                *)
(* DeleteWebhookEndpoint do not.  Every SELECT is a step.  The writes of a *)
(* call, its outbox row among them, come last; nobody sees them before the *)
(* commit, and they are one step with it.  Every writer of the merchant's  *)
(* row holds its lock, so the version of that row always matches and is    *)
(* left out.  A call that is refused before it has a lock or a copy        *)
(* changes nothing and is not a step.                                      *)
(*                                                                         *)
(* Names, URLs, scopes and the outbox are left out; secrets are numbered.  *)
(***************************************************************************)
EXTENDS Naturals, FiniteSets

CONSTANTS
    Calls,                  \* concurrent calls
    KeyIds, EndpointIds,    \* the ids that may be generated
    MaxAPIKeysPerMode,      \* 10 in production
    MaxWebhookEndpoints,    \* 16 in production
    Prefs,                  \* contents of UpdateRoutingPreferences requests
    MaxVersion              \* bound: how often an endpoint is changed

ASSUME MerchantAssumption ==
    /\ IsFiniteSet(KeyIds) /\ IsFiniteSet(EndpointIds)
    /\ MaxAPIKeysPerMode \in Nat \ {0} /\ MaxWebhookEndpoints \in Nat \ {0}
    /\ MaxVersion \in Nat \ {0}

None == "none"

\* None stands for NULL and is not a call.
ASSUME NoneAssumption == None \notin Calls

\* "pending" exists in the code and is never set.
Statuses == {"active", "suspended", "closed"}

\* Fields of an UpdateWebhookEndpoint request; one without a status changes the URL or the like.
Patches == [status : {None, "enabled", "disabled"}, rotate : BOOLEAN]

VARIABLES
    merchant,    \* the merchants row: status, and the routing part of its settings
    rules,       \* routing_preferences.rules
    keys,        \* per id: None, or the status of the api_keys row
    endpoints,   \* per id: the webhook_endpoints row
    lock,        \* the call that holds the merchant's row, or None
    call         \* per call: its next statement, its request, and the endpoint it has read

vars == <<merchant, rules, keys, endpoints, lock, call>>
rows == <<merchant, rules, keys, endpoints>>

NoEndpoint == [status |-> None, deleted |-> FALSE, current |-> 0, previous |-> 0, version |-> 0]
Idle == [next |-> None, arg |-> None, id |-> None, copy |-> NoEndpoint]

-----------------------------------------------------------------------------
(* The domain. *)

CanTransitionTo(from, to) ==
    \/ from = "active" /\ to \in {"suspended", "closed"}
    \/ from = "suspended" /\ to \in {"active", "closed"}

AssertWritable == merchant.status # "closed"

ActiveKeys == {k \in KeyIds : keys[k] = "active"}
LiveEndpoints == {e \in EndpointIds : endpoints[e].status # None /\ ~endpoints[e].deleted}

NewWebhookEndpoint == [NoEndpoint EXCEPT !.status = "enabled", !.current = 1]

\* Enable and Disable, or a patch without a status.
ApplyStatus(e, p) == IF p.status = None THEN e ELSE [e EXCEPT !.status = p.status]

RotateSecret(e) == [e EXCEPT !.previous = e.current, !.current = e.current + 1]

\* Every update that does not rotate forgets the previous secret once its 24 hours are over.
ExpirePreviousSecret(e) == {e, [e EXCEPT !.previous = 0]}

Patched(e, p) ==
    IF p.rotate THEN {RotateSecret(ApplyStatus(e, p))} ELSE ExpirePreviousSecret(ApplyStatus(e, p))

MarkDeleted(e) == [e EXCEPT !.status = "disabled", !.deleted = TRUE]

-----------------------------------------------------------------------------
(* Transactions. *)

\* The transaction of c is over, committed or rolled back.
Ends(c) ==
    /\ call' = [call EXCEPT ![c] = Idle]
    /\ lock' = IF lock = c THEN None ELSE lock

\* The process dies, the client cancels, a statement fails.
Abort(c) == call[c] # Idle /\ Ends(c) /\ UNCHANGED rows

\* Mutant of LockMerchant: a plain SELECT.
LockMerchantNot(c, next, id, arg) ==
    /\ call[c] = Idle
    /\ merchant.status # None
    /\ next # "UpdateMerchant" => AssertWritable
    /\ call' = [call EXCEPT ![c] = [Idle EXCEPT !.next = next, !.id = id, !.arg = arg]]
    /\ UNCHANGED <<rows, lock>>

\* SELECT ... FOR UPDATE, then AssertWritable for every caller but UpdateMerchant.
LockMerchant(c, next, id, arg) ==
    /\ call[c] = Idle
    /\ lock = None
    /\ merchant.status # None
    /\ next # "UpdateMerchant" => AssertWritable
    /\ lock' = c
    /\ call' = [call EXCEPT ![c] = [Idle EXCEPT !.next = next, !.id = id, !.arg = arg]]
    /\ UNCHANGED rows

-----------------------------------------------------------------------------
(* The merchant and its routing preferences. *)

CreateMerchant ==
    /\ merchant.status = None
    /\ merchant' = [merchant EXCEPT !.status = "active"]
    /\ UNCHANGED <<rules, keys, endpoints, lock, call>>

\* A patch without a status (arg None), and one with the status the merchant has, writes the
\* row back; a transition that the state machine does not know rolls back.
UpdateMerchant(c) ==
    /\ call[c].next = "UpdateMerchant"
    /\ LET to == call[c].arg IN
       merchant' = IF CanTransitionTo(merchant.status, to) THEN [merchant EXCEPT !.status = to] ELSE merchant
    /\ Ends(c)
    /\ UNCHANGED <<rules, keys, endpoints>>

\* Mutant of UpdateRoutingPreferences: the other half is forgotten.
UpdateRulesOnly(c) ==
    /\ call[c].next = "UpdateRoutingPreferences"
    /\ rules' = call[c].arg
    /\ Ends(c)
    /\ UNCHANGED <<merchant, keys, endpoints>>

\* The rules go to a table of their own, the rest of the preferences to merchants.settings.
UpdateRoutingPreferences(c) ==
    /\ call[c].next = "UpdateRoutingPreferences"
    /\ rules' = call[c].arg
    /\ merchant' = [merchant EXCEPT !.settings = call[c].arg]
    /\ Ends(c)
    /\ UNCHANGED <<keys, endpoints>>

-----------------------------------------------------------------------------
(* API keys. *)

\* CreateApiKey, under the merchant's lock: count ...
CountActive(c) ==
    /\ call[c].next = "CountActive"
    /\ IF Cardinality(ActiveKeys) >= MaxAPIKeysPerMode
         THEN Ends(c)
         ELSE call' = [call EXCEPT ![c].next = "CreateApiKey"] /\ UNCHANGED lock
    /\ UNCHANGED rows

\* ... and insert.
CreateApiKey(c, k) ==
    /\ call[c].next = "CreateApiKey"
    /\ keys[k] = None
    /\ keys' = [keys EXCEPT ![k] = "active"]
    /\ Ends(c)
    /\ UNCHANGED <<merchant, rules, endpoints>>

\* RevokeApiKey reads the key without a lock; one that is revoked already is left alone.
GetApiKey(c, k) ==
    /\ call[c] = Idle
    /\ keys[k] \in {"active", "expired"}
    /\ call' = [call EXCEPT ![c] = [Idle EXCEPT !.next = "RevokeApiKey", !.id = k]]
    /\ UNCHANGED <<rows, lock>>

\* The UPDATE of api_keys knows no version.
RevokeApiKey(c) ==
    /\ call[c].next = "RevokeApiKey"
    /\ keys' = [keys EXCEPT ![call[c].id] = "revoked"]
    /\ Ends(c)
    /\ UNCHANGED <<merchant, rules, endpoints>>

\* expires_at has come.
KeyExpires(k) ==
    /\ keys[k] = "active"
    /\ keys' = [keys EXCEPT ![k] = "expired"]
    /\ UNCHANGED <<merchant, rules, endpoints, lock, call>>

-----------------------------------------------------------------------------
(* Webhook endpoints. *)

CountLive(c) ==
    /\ call[c].next = "CountLive"
    /\ IF Cardinality(LiveEndpoints) >= MaxWebhookEndpoints
         THEN Ends(c)
         ELSE call' = [call EXCEPT ![c].next = "CreateWebhookEndpoint"] /\ UNCHANGED lock
    /\ UNCHANGED rows

CreateWebhookEndpoint(c, e) ==
    /\ call[c].next = "CreateWebhookEndpoint"
    /\ endpoints[e] = NoEndpoint
    /\ endpoints' = [endpoints EXCEPT ![e] = NewWebhookEndpoint]
    /\ Ends(c)
    /\ UNCHANGED <<merchant, rules, keys>>

\* UpdateWebhookEndpoint, under the merchant's lock, refuses an endpoint that is deleted.
GetWebhookEndpoint(c) ==
    /\ call[c].next = "GetWebhookEndpoint"
    /\ IF call[c].id \in LiveEndpoints
         THEN /\ call' = [call EXCEPT ![c].next = "UpdateWebhookEndpoint", ![c].copy = endpoints[call[c].id]]
              /\ UNCHANGED lock
         ELSE Ends(c)
    /\ UNCHANGED rows

\* DeleteWebhookEndpoint does not take the merchant's lock; what is deleted is left alone.
BeginDelete(c, e) ==
    /\ call[c] = Idle
    /\ e \in LiveEndpoints /\ endpoints[e].version < MaxVersion
    /\ call' = [call EXCEPT ![c] =
                  [Idle EXCEPT !.next = "DeleteWebhookEndpoint", !.id = e, !.copy = endpoints[e]]]
    /\ UNCHANGED <<rows, lock>>

\* Mutant of Update: the whole row is written whatever has happened to it since.
UpdateBlindly(c, new) ==
    /\ endpoints' = [endpoints EXCEPT ![call[c].id] = [new EXCEPT !.version = @ + 1]]
    /\ Ends(c)
    /\ UNCHANGED <<merchant, rules, keys>>

\* The repository's Update: all columns, WHERE version is the one of the copy; a call that
\* comes too late gets ErrConcurrentModify and rolls back.
Update(c, new) ==
    /\ endpoints' = IF endpoints[call[c].id].version = call[c].copy.version
                      THEN [endpoints EXCEPT ![call[c].id] = [new EXCEPT !.version = @ + 1]]
                      ELSE endpoints
    /\ Ends(c)
    /\ UNCHANGED <<merchant, rules, keys>>

UpdateWebhookEndpoint(c) ==
    /\ call[c].next = "UpdateWebhookEndpoint"
    /\ \E new \in Patched(call[c].copy, call[c].arg) : Update(c, new)

DeleteWebhookEndpoint(c) ==
    /\ call[c].next = "DeleteWebhookEndpoint"
    /\ Update(c, MarkDeleted(call[c].copy))

-----------------------------------------------------------------------------
Init ==
    /\ merchant = [status |-> None, settings |-> None]
    /\ rules = None
    /\ keys = [k \in KeyIds |-> None]
    /\ endpoints = [e \in EndpointIds |-> NoEndpoint]
    /\ lock = None
    /\ call = [c \in Calls |-> Idle]

\* A call that takes the merchant's lock begins.
Arrive(c) ==
    \/ \E to \in Statuses \cup {None} : LockMerchant(c, "UpdateMerchant", None, to)
    \/ \E p \in Prefs : LockMerchant(c, "UpdateRoutingPreferences", None, p)
    \/ LockMerchant(c, "CountActive", None, None)
    \/ LockMerchant(c, "CountLive", None, None)
    \/ \E e \in EndpointIds, p \in Patches :
         endpoints[e].version < MaxVersion /\ LockMerchant(c, "GetWebhookEndpoint", e, p)

Next ==
    \/ CreateMerchant
    \/ \E k \in KeyIds : KeyExpires(k)
    \/ \E c \in Calls :
         \/ Arrive(c) \/ Abort(c)
         \/ UpdateMerchant(c) \/ UpdateRoutingPreferences(c)
         \/ CountActive(c) \/ RevokeApiKey(c)
         \/ \E k \in KeyIds : CreateApiKey(c, k) \/ GetApiKey(c, k)
         \/ CountLive(c) \/ GetWebhookEndpoint(c) \/ UpdateWebhookEndpoint(c) \/ DeleteWebhookEndpoint(c)
         \/ \E e \in EndpointIds : CreateWebhookEndpoint(c, e) \/ BeginDelete(c, e)

Spec == Init /\ [][Next]_vars

-----------------------------------------------------------------------------
(* Properties. *)

EndpointRows ==
    [status : {None, "enabled", "disabled"}, deleted : BOOLEAN, current : 0..(MaxVersion + 1),
     previous : 0..MaxVersion, version : 0..MaxVersion]

\* Every row and every copy a call holds is one the schema knows.  A lock is held by a call
\* that is still running, and the two halves of the routing preferences are of one request.
TypeOK ==
    /\ merchant.status \in Statuses \cup {None}
    /\ merchant.settings = rules /\ rules \in Prefs \cup {None}
    /\ keys \in [KeyIds -> {None, "active", "expired", "revoked"}]
    /\ endpoints \in [EndpointIds -> EndpointRows]
    /\ lock = None \/ (lock \in Calls /\ call[lock] # Idle)
    /\ \A c \in Calls : call[c].copy \in EndpointRows

\* Calls that create keys or endpoints at the same time do not get past the limits together,
\* whatever is revoked, deleted or expires between the count and the insert.
LimitsHold ==
    /\ Cardinality(ActiveKeys) <= MaxAPIKeysPerMode
    /\ Cardinality(LiveEndpoints) <= MaxWebhookEndpoints

\* A closed merchant gets no key, no endpoint, no secret and no preferences.
ClosedForGood ==
    merchant.status = "closed" =>
      /\ UNCHANGED <<merchant, rules>>
      /\ \A k \in KeyIds : keys[k] = None => keys'[k] = None
      /\ \A e \in EndpointIds : endpoints'[e] = endpoints[e] \/ endpoints'[e].deleted

\* A deleted endpoint stays as it is; a change of an endpoint keeps the secret that its merchant
\* was last given, as the current one or, after a rotation, as the previous one.
SecretsKept ==
    \A e \in EndpointIds :
      /\ endpoints[e].deleted => endpoints'[e] = endpoints[e]
      /\ endpoints[e].current > 0 =>
           \/ endpoints'[e].current = endpoints[e].current
           \/ endpoints'[e].current > endpoints[e].current
              /\ endpoints'[e].previous = endpoints[e].current

\* No call undoes what another has finished, however old the copy it works on.
NothingUndone ==
    [][/\ ClosedForGood
       /\ \A k \in KeyIds : keys[k] = "revoked" => keys'[k] = "revoked"
       /\ SecretsKept]_vars

=============================================================================
