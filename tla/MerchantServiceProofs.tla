------------------------ MODULE MerchantServiceProofs ------------------------
(***************************************************************************)
(* Theorems about MerchantService, for every set of calls, keys and        *)
(* endpoints and every limit.                                              *)
(***************************************************************************)
EXTENDS MerchantService, FiniteSetTheorems, TLAPS

-----------------------------------------------------------------------------
(* The inductive invariant                                                 *)

\* The statements that run under the merchant's lock, and those of them that come after
\* AssertWritable.
Writes == {"UpdateRoutingPreferences", "CountActive", "CreateApiKey", "CountLive",
           "CreateWebhookEndpoint", "GetWebhookEndpoint", "UpdateWebhookEndpoint"}
Locked == Writes \cup {"UpdateMerchant"}
Holding == {"UpdateWebhookEndpoint", "DeleteWebhookEndpoint"}

CallType ==
    [next : Locked \cup {None, "RevokeApiKey", "DeleteWebhookEndpoint"},
     arg : Statuses \cup {None} \cup Prefs \cup Patches,
     id : KeyIds \cup EndpointIds \cup {None},
     copy : EndpointRows]

MerchantOK ==
    /\ merchant \in [status : Statuses \cup {None}, settings : Prefs \cup {None}]
    /\ merchant.settings = rules
    /\ keys \in [KeyIds -> {None, "active", "expired", "revoked"}]

\* A row has had at most one rotation per version.
SecretsOK(e) == e.current <= e.version + 1 /\ e.previous <= e.version

EndpointsOK ==
    /\ endpoints \in [EndpointIds -> EndpointRows]
    /\ \A e \in EndpointIds : SecretsOK(endpoints[e])

\* Who runs under the lock has it, and nobody else; meanwhile the merchant is not closed.
LockOK ==
    /\ lock \in Calls \cup {None}
    /\ \A c \in Calls :
         /\ lock = c <=> call[c].next \in Locked
         /\ call[c].next \in Writes => merchant.status # "closed"

\* What a call has been asked to do.
RequestOK(s) ==
    /\ s.next = "UpdateMerchant" => s.arg \in Statuses \cup {None}
    /\ s.next = "UpdateRoutingPreferences" => s.arg \in Prefs
    /\ s.next = "RevokeApiKey" => s.id \in KeyIds /\ keys[s.id] # None
    /\ s.next \in {"GetWebhookEndpoint", "UpdateWebhookEndpoint"} =>
         s.id \in EndpointIds /\ s.arg \in Patches

\* A copy is of an endpoint that was live, and it is the row unless the row is newer.
CopyOK(s) ==
    /\ s.next = "GetWebhookEndpoint" =>
         endpoints[s.id].version < MaxVersion \/ endpoints[s.id].deleted
    /\ s.next \in Holding =>
         /\ s.id \in EndpointIds
         /\ SecretsOK(s.copy) /\ s.copy.version < MaxVersion
         /\ s.copy.status # None /\ ~s.copy.deleted
         /\ s.copy.version <= endpoints[s.id].version
         /\ s.copy.version = endpoints[s.id].version => s.copy = endpoints[s.id]

\* Who has counted and is about to insert has counted less than the limit.
SlotFree ==
    \A c \in Calls :
      /\ call[c].next = "CreateApiKey" => Cardinality(ActiveKeys) < MaxAPIKeysPerMode
      /\ call[c].next = "CreateWebhookEndpoint" => Cardinality(LiveEndpoints) < MaxWebhookEndpoints

CallsOK ==
    /\ call \in [Calls -> CallType]
    /\ \A c \in Calls : RequestOK(call[c]) /\ CopyOK(call[c])

IInv == MerchantOK /\ EndpointsOK /\ LockOK /\ CallsOK

Inv == IInv /\ SlotFree /\ LimitsHold

-----------------------------------------------------------------------------
(* Facts about the constants and the constructors                          *)

\* Rows that do not exist and calls that do not run are well typed.
LEMMA Constructors ==
  /\ MaxVersion \in Nat
  /\ NoEndpoint \in EndpointRows /\ SecretsOK(NoEndpoint)
  /\ Idle \in CallType /\ Idle.next = None
  /\ RequestOK(Idle) /\ CopyOK(Idle)
<1>1. MaxVersion \in Nat
  BY MerchantAssumption
<1>2. NoEndpoint \in EndpointRows /\ SecretsOK(NoEndpoint)
  BY <1>1 DEF NoEndpoint, EndpointRows, SecretsOK, None
<1>3. Idle \in CallType /\ Idle.next = None
  BY <1>2 DEF Idle, CallType
<1>4. RequestOK(Idle) /\ CopyOK(Idle)
  BY <1>3 DEF RequestOK, CopyOK, Holding, None
<1> QED
  BY <1>1, <1>2, <1>3, <1>4

\* The row that the repository's Update writes.
NextVersion(e) == [e EXCEPT !.version = @ + 1]

\* What a call that has read e may hand to it.
IsChange(e, new) == new = MarkDeleted(e) \/ \E p \in Patches : new \in Patched(e, p)

\* What UpdateWebhookEndpoint and DeleteWebhookEndpoint write over a row that has a version left
\* is a row, one version on.  The secret the merchant had is kept, or rotated into the previous one.
LEMMA NewRow ==
  ASSUME NEW e \in EndpointRows, SecretsOK(e), e.version < MaxVersion,
         NEW new, IsChange(e, new)
  PROVE  /\ NextVersion(new) \in EndpointRows /\ SecretsOK(NextVersion(new))
         /\ NextVersion(new).version = e.version + 1
         /\ \/ NextVersion(new).current = e.current
            \/ NextVersion(new).current > e.current /\ NextVersion(new).previous = e.current
         /\ NextVersion(new).deleted = e.deleted \/ NextVersion(new).deleted = TRUE
         /\ new = MarkDeleted(e) => NextVersion(new).deleted = TRUE
<1> USE Constructors
<1>1. \A p \in Patches :
        /\ ApplyStatus(e, p) \in EndpointRows
        /\ ApplyStatus(e, p).current = e.current /\ ApplyStatus(e, p).version = e.version
        /\ ApplyStatus(e, p).previous = e.previous /\ ApplyStatus(e, p).deleted = e.deleted
  BY DEF ApplyStatus, EndpointRows, Patches, None
<1>2. CASE new = MarkDeleted(e)
  <2>1. new \in EndpointRows
    BY <1>2 DEF MarkDeleted, EndpointRows
  <2>2. /\ new.current = e.current /\ new.previous = e.previous /\ new.version = e.version
        /\ new.deleted = TRUE
    BY <1>2 DEF MarkDeleted, EndpointRows
  <2> QED
    BY <2>1, <2>2 DEF NextVersion, EndpointRows, SecretsOK
<1>3. CASE new # MarkDeleted(e)
  <2>1. PICK p \in Patches : new \in Patched(e, p)
    BY <1>3 DEF IsChange
  <2>2. CASE new = RotateSecret(ApplyStatus(e, p))
    <3>1. e.current \in 0..MaxVersion /\ e.current + 1 \in 0..(MaxVersion + 1)
      BY DEF EndpointRows, SecretsOK
    <3>2. new \in EndpointRows
      BY <1>1, <2>2, <3>1 DEF RotateSecret, EndpointRows
    <3>3. /\ new.current = e.current + 1 /\ new.previous = e.current /\ new.version = e.version
          /\ new.deleted = e.deleted
      BY <1>1, <2>2 DEF RotateSecret, EndpointRows
    <3> QED
      BY <1>3, <3>2, <3>3 DEF NextVersion, EndpointRows, SecretsOK
  <2>3. CASE new \in ExpirePreviousSecret(ApplyStatus(e, p))
    BY <1>1, <1>3, <2>3 DEF NextVersion, ExpirePreviousSecret, EndpointRows, SecretsOK
  <2> QED
    BY <2>1, <2>2, <2>3 DEF Patched
<1> QED
  BY <1>2, <1>3

-----------------------------------------------------------------------------
(* Steps that change no row                                                *)

\* A call that reads, takes the lock or gives it up keeps the invariant if its own new state is
\* in order.
LEMMA QuietStep ==
  ASSUME IInv, NEW c \in Calls, NEW s \in CallType,
         call' = [call EXCEPT ![c] = s], UNCHANGED rows,
         RequestOK(s), CopyOK(s),
         lock' \in Calls \cup {None},
         lock' = c <=> s.next \in Locked,
         \A d \in Calls \ {c} : lock' = d <=> lock = d,
         s.next \in Writes => merchant.status # "closed"
  PROVE  IInv'
<1>1. MerchantOK' /\ EndpointsOK'
  BY DEF IInv, MerchantOK, EndpointsOK, SecretsOK, rows
<1>2. LockOK'
  BY DEF IInv, LockOK, CallsOK, rows
<1>3. call' \in [Calls -> CallType]
  BY DEF IInv, CallsOK
<1>4. \A d \in Calls : RequestOK(call[d])' /\ CopyOK(call[d])'
  <2> TAKE d \in Calls
  <2>1. CASE d = c
    BY <2>1 DEF IInv, CallsOK, RequestOK, CopyOK, SecretsOK, rows
  <2>2. CASE d # c
    BY <2>2 DEF IInv, CallsOK, RequestOK, CopyOK, SecretsOK, rows
  <2> QED
    BY <2>1, <2>2
<1> QED
  BY <1>1, <1>2, <1>3, <1>4 DEF IInv, CallsOK

\* So does the end of a transaction that has changed nothing.
LEMMA EndStep ==
  ASSUME IInv, NEW c \in Calls, Ends(c), UNCHANGED rows
  PROVE  IInv'
<1>1. /\ lock' \in Calls \cup {None} /\ lock' # c
      /\ \A d \in Calls \ {c} : lock' = d <=> lock = d
  BY NoneAssumption DEF IInv, LockOK, Ends
<1>2. Idle.next \notin Locked /\ Idle.next \notin Writes
  BY Constructors DEF Locked, Writes, None
<1> QED
  BY <1>1, <1>2, Constructors, QuietStep DEF Ends

\* lockMerchant: the caller is alone with the row, which is writable for all but UpdateMerchant.
LEMMA LockStep ==
  ASSUME IInv, NEW c \in Calls, NEW next \in Locked,
         NEW id \in EndpointIds \cup {None}, NEW arg,
         next = "UpdateMerchant" => arg \in Statuses \cup {None},
         next = "UpdateRoutingPreferences" => arg \in Prefs,
         next \in {"CountActive", "CountLive"} => arg = None,
         next = "GetWebhookEndpoint" =>
           id \in EndpointIds /\ arg \in Patches /\ endpoints[id].version < MaxVersion,
         next \in {"UpdateMerchant", "UpdateRoutingPreferences", "CountActive", "CountLive",
                   "GetWebhookEndpoint"},
         LockMerchant(c, next, id, arg)
  PROVE  IInv'
<1> DEFINE s == [Idle EXCEPT !.next = next, !.id = id, !.arg = arg]
<1>1. /\ s \in CallType /\ s.next = next /\ s.id = id /\ s.arg = arg
  BY Constructors DEF CallType, Locked, Writes, Idle
<1>2. RequestOK(s) /\ CopyOK(s)
  BY <1>1 DEF RequestOK, CopyOK, Holding
<1>3. next \in Writes => merchant.status # "closed"
  BY DEF LockMerchant, AssertWritable, Writes
<1>4. \A d \in Calls \ {c} : lock' = d <=> lock = d
  BY NoneAssumption DEF LockMerchant
<1>5. /\ lock' = c /\ lock' \in Calls \cup {None}
      /\ call' = [call EXCEPT ![c] = s] /\ UNCHANGED rows
  BY DEF LockMerchant
<1> HIDE DEF s
<1> QED
  BY <1>1, <1>2, <1>3, <1>4, <1>5, QuietStep

-----------------------------------------------------------------------------
(* Steps that write                                                        *)

\* A transaction that commits keeps the invariant if the new rows are in order, if the calls
\* that still run stay in order, and if only the holder of the lock closes the merchant.
LEMMA CommitStep ==
  ASSUME IInv, NEW c \in Calls, Ends(c), MerchantOK', EndpointsOK',
         \A d \in Calls \ {c} : RequestOK(call[d])' /\ CopyOK(call[d])',
         merchant' # merchant => lock = c
  PROVE  IInv'
<1>1. call' \in [Calls -> CallType]
  BY Constructors DEF IInv, CallsOK, Ends
<1>2. RequestOK(call[c])' /\ CopyOK(call[c])'
  BY Constructors DEF IInv, CallsOK, Ends, RequestOK, CopyOK, Holding, None
<1>3. LockOK'
  <2>1. lock' \in Calls \cup {None}
    BY DEF IInv, LockOK, Ends
  <2>2. ASSUME NEW d \in Calls
        PROVE  /\ lock' = d <=> call'[d].next \in Locked
               /\ call'[d].next \in Writes => merchant'.status # "closed"
    <3>1. CASE d = c
      BY <3>1, Constructors, NoneAssumption DEF IInv, LockOK, CallsOK, Ends, Locked, Writes, None
    <3>2. CASE d # c
      BY <3>2, NoneAssumption DEF IInv, LockOK, CallsOK, Ends, Locked
    <3> QED
      BY <3>1, <3>2
  <2> QED
    BY <2>1, <2>2 DEF LockOK
<1> QED
  BY <1>1, <1>2, <1>3 DEF IInv, CallsOK

\* UpdateMerchant and UpdateRoutingPreferences run under the lock.
LEMMA MerchantStep ==
  ASSUME IInv, NEW c \in Calls, UpdateMerchant(c) \/ UpdateRoutingPreferences(c)
  PROVE  IInv'
<1>1. call[c] \in CallType /\ RequestOK(call[c]) /\ lock = c
  BY DEF IInv, CallsOK, LockOK, Locked, Writes, UpdateMerchant, UpdateRoutingPreferences
<1>2. MerchantOK'
  <2>1. CASE UpdateMerchant(c)
    BY <1>1, <2>1 DEF UpdateMerchant, CanTransitionTo, RequestOK, IInv, MerchantOK, Statuses
  <2>2. CASE UpdateRoutingPreferences(c)
    BY <1>1, <2>2 DEF UpdateRoutingPreferences, RequestOK, IInv, MerchantOK
  <2> QED
    BY <2>1, <2>2
<1>3. Ends(c) /\ UNCHANGED <<keys, endpoints>>
  BY DEF UpdateMerchant, UpdateRoutingPreferences
<1>4. EndpointsOK'
  BY <1>3 DEF IInv, EndpointsOK, SecretsOK
<1>5. \A d \in Calls \ {c} : RequestOK(call[d])' /\ CopyOK(call[d])'
  BY <1>3 DEF IInv, CallsOK, Ends, RequestOK, CopyOK, SecretsOK
<1> QED
  BY <1>1, <1>2, <1>3, <1>4, <1>5, CommitStep

\* A key never becomes one that does not exist, which is all that RevokeApiKey relies on.
LEMMA KeyStep ==
  ASSUME IInv, NEW c \in Calls, Ends(c), UNCHANGED <<merchant, rules, endpoints>>,
         NEW k \in KeyIds, NEW to \in {"active", "revoked"},
         keys' = [keys EXCEPT ![k] = to]
  PROVE  IInv'
<1>1. MerchantOK'
  BY DEF IInv, MerchantOK
<1>2. EndpointsOK'
  BY DEF IInv, EndpointsOK, SecretsOK
<1>3. \A d \in Calls \ {c} : RequestOK(call[d])' /\ CopyOK(call[d])'
  BY DEF IInv, CallsOK, Ends, RequestOK, CopyOK, SecretsOK, MerchantOK, None
<1> QED
  BY <1>1, <1>2, <1>3, CommitStep

\* An endpoint that gets its first row was held by nobody.
LEMMA CreateEndpointStep ==
  ASSUME IInv, NEW c \in Calls, NEW e \in EndpointIds, CreateWebhookEndpoint(c, e)
  PROVE  IInv'
<1> USE DEF CreateWebhookEndpoint
<1>1. MerchantOK'
  BY DEF IInv, MerchantOK
<1>2. NewWebhookEndpoint \in EndpointRows /\ SecretsOK(NewWebhookEndpoint)
  <2>1. NewWebhookEndpoint \in EndpointRows
    BY Constructors, 1 \in 0..(MaxVersion + 1) DEF NewWebhookEndpoint, EndpointRows
  <2>2. NewWebhookEndpoint.current = 1 /\ NewWebhookEndpoint.previous = 0
        /\ NewWebhookEndpoint.version = 0
    BY DEF NewWebhookEndpoint, NoEndpoint
  <2> QED
    BY <2>1, <2>2 DEF SecretsOK
<1>3. EndpointsOK'
  BY <1>2 DEF IInv, EndpointsOK, SecretsOK
<1>4. lock = c
  BY DEF IInv, LockOK, Locked, Writes
<1>5. \A d \in Calls \ {c} : RequestOK(call[d])'
  BY DEF IInv, CallsOK, Ends, RequestOK
<1>6. ASSUME NEW d \in Calls \ {c}
      PROVE  CopyOK(call[d])'
  <2>1. call'[d] = call[d] /\ CopyOK(call[d]) /\ call[d] \in CallType
    BY DEF IInv, CallsOK, Ends
  <2>2. call[d].next \notin Locked
    BY <1>4 DEF IInv, LockOK
  <2>3. ~(call[d].next \in Holding /\ call[d].id = e)
    \* Only a copy of the missing row itself is as old as the missing row.
    <3> SUFFICES ASSUME call[d].next \in Holding, call[d].id = e
                 PROVE  FALSE
      OBVIOUS
    <3>1. call[d].copy.version = endpoints[e].version
      BY <2>1, Constructors DEF CopyOK, NoEndpoint, CallType, EndpointRows
    <3> QED
      BY <2>1, <3>1 DEF CopyOK, NoEndpoint
  <2> QED
    BY <2>1, <2>2, <2>3 DEF CopyOK, Locked, Writes, SecretsOK, IInv, EndpointsOK
<1> QED
  BY <1>1, <1>3, <1>5, <1>6, CommitStep

\* What Update finds and leaves: a call that holds a current copy writes the next version of the
\* row it has read, and a call that holds an old one writes nothing.
LEMMA UpdateEffect ==
  ASSUME IInv, NEW c \in Calls, UpdateWebhookEndpoint(c) \/ DeleteWebhookEndpoint(c)
  PROVE  /\ call[c].id \in EndpointIds /\ Ends(c) /\ UNCHANGED <<merchant, rules, keys>>
         /\ \/ endpoints' = endpoints
            \/ \E row \in EndpointRows :
                 /\ endpoints' = [endpoints EXCEPT ![call[c].id] = row]
                 /\ SecretsOK(row) /\ row.version = endpoints[call[c].id].version + 1
                 /\ endpoints[call[c].id].status # None /\ ~endpoints[call[c].id].deleted
                 /\ \/ row.current = endpoints[call[c].id].current
                    \/ /\ row.current > endpoints[call[c].id].current
                       /\ row.previous = endpoints[call[c].id].current
                 /\ DeleteWebhookEndpoint(c) => row.deleted = TRUE
<1>1. /\ call[c] \in CallType /\ CopyOK(call[c]) /\ call[c].next \in Holding
      /\ UpdateWebhookEndpoint(c) => call[c].arg \in Patches
  BY DEF IInv, CallsOK, RequestOK, Holding, UpdateWebhookEndpoint, DeleteWebhookEndpoint
<1>2. /\ call[c].copy \in EndpointRows /\ SecretsOK(call[c].copy)
      /\ call[c].copy.version < MaxVersion /\ call[c].id \in EndpointIds
      /\ call[c].copy.status # None /\ ~call[c].copy.deleted
      /\ call[c].copy.version = endpoints[call[c].id].version =>
           call[c].copy = endpoints[call[c].id]
  BY <1>1 DEF CopyOK, CallType
<1>3. PICK new :
        /\ IsChange(call[c].copy, new)
        /\ Update(c, new)
        /\ DeleteWebhookEndpoint(c) => new = MarkDeleted(call[c].copy)
  <2>1. CASE UpdateWebhookEndpoint(c)
    BY <1>1, <2>1 DEF UpdateWebhookEndpoint, DeleteWebhookEndpoint, IsChange
  <2>2. CASE DeleteWebhookEndpoint(c)
    BY <2>2 DEF DeleteWebhookEndpoint, IsChange
  <2> QED
    BY <2>1, <2>2
<1>4. CASE endpoints[call[c].id].version # call[c].copy.version
  BY <1>2, <1>3, <1>4 DEF Update
<1>5. CASE endpoints[call[c].id].version = call[c].copy.version
  <2>1. endpoints' = [endpoints EXCEPT ![call[c].id] = NextVersion(new)]
    BY <1>3, <1>5 DEF Update, NextVersion
  <2>2. /\ NextVersion(new) \in EndpointRows /\ SecretsOK(NextVersion(new))
        /\ NextVersion(new).version = call[c].copy.version + 1
        /\ \/ NextVersion(new).current = call[c].copy.current
           \/ NextVersion(new).current > call[c].copy.current /\ NextVersion(new).previous = call[c].copy.current
        /\ new = MarkDeleted(call[c].copy) => NextVersion(new).deleted = TRUE
    BY <1>2, <1>3, NewRow
  <2>3. call[c].copy = endpoints[call[c].id]
    BY <1>2, <1>5
  <2> QED
    BY <1>2, <1>3, <2>1, <2>2, <2>3 DEF Update
<1> QED
  BY <1>4, <1>5

\* The two updates keep the invariant: every copy that was current is now older than the row.
LEMMA UpdateStep ==
  ASSUME IInv, NEW c \in Calls, UpdateWebhookEndpoint(c) \/ DeleteWebhookEndpoint(c)
  PROVE  IInv'
<1>1. call[c].id \in EndpointIds /\ Ends(c) /\ UNCHANGED <<merchant, rules, keys>>
  BY UpdateEffect
<1>2. MerchantOK'
  BY <1>1 DEF IInv, MerchantOK
<1>3. \A d \in Calls \ {c} : RequestOK(call[d])'
  BY <1>1 DEF IInv, CallsOK, Ends, RequestOK
<1>4. CASE endpoints' = endpoints
  BY <1>1, <1>2, <1>3, <1>4, CommitStep
     DEF IInv, EndpointsOK, SecretsOK, CallsOK, CopyOK, Ends
<1>5. CASE endpoints' # endpoints
  <2>1. PICK row \in EndpointRows :
          /\ endpoints' = [endpoints EXCEPT ![call[c].id] = row]
          /\ SecretsOK(row) /\ row.version = endpoints[call[c].id].version + 1
          /\ DeleteWebhookEndpoint(c) => row.deleted = TRUE
    BY <1>5, UpdateEffect
  <2>2. EndpointsOK'
    BY <1>1, <2>1 DEF IInv, EndpointsOK, SecretsOK
  <2>3. ASSUME NEW d \in Calls \ {c}
        PROVE  CopyOK(call[d])'
    <3>1. call'[d] = call[d] /\ CopyOK(call[d]) /\ call[d] \in CallType
      BY <1>1 DEF IInv, CallsOK, Ends
    <3>2. call[d].next = "GetWebhookEndpoint" => row.deleted = TRUE
      \* d has the lock, so c runs without it.
      BY <2>1 DEF IInv, LockOK, Locked, Writes, UpdateWebhookEndpoint
    <3>3. \A e \in EndpointIds : endpoints[e] \in EndpointRows /\ endpoints[e].version \in Nat
      BY DEF IInv, EndpointsOK, EndpointRows
    <3>4. call[d].copy.version \in Nat
      BY <3>1 DEF CallType, EndpointRows
    <3>5. \A e \in EndpointIds : endpoints'[e] = IF e = call[c].id THEN row ELSE endpoints[e]
      BY <2>1 DEF IInv, EndpointsOK
    <3>6. call[d].next = "GetWebhookEndpoint" => call[d].id \in EndpointIds
      BY DEF IInv, CallsOK, RequestOK
    <3>7. call[d].next = "GetWebhookEndpoint" =>
            endpoints'[call[d].id].version < MaxVersion \/ endpoints'[call[d].id].deleted
      BY <3>1, <3>2, <3>5, <3>6 DEF CopyOK
    <3>8. call[d].next \in Holding =>
            /\ call[d].copy.version <= endpoints'[call[d].id].version
            /\ call[d].copy.version = endpoints'[call[d].id].version =>
                 call[d].copy = endpoints'[call[d].id]
      BY <1>1, <2>1, <3>1, <3>3, <3>4, <3>5 DEF CopyOK
    <3> QED
      BY <3>1, <3>7, <3>8 DEF CopyOK, SecretsOK
  <2> QED
    BY <1>1, <1>2, <1>3, <2>2, <2>3, CommitStep
<1> QED
  BY <1>4, <1>5

-----------------------------------------------------------------------------
(* Type correctness                                                        *)

\* Before the merchant exists nothing is locked, held or counted.
LEMMA InitInv == Init => IInv
<1> SUFFICES ASSUME Init PROVE IInv
  OBVIOUS
<1>1. MerchantOK
  BY DEF Init, MerchantOK
<1>2. EndpointsOK
  BY Constructors DEF Init, EndpointsOK
<1>3. LockOK
  BY Constructors, NoneAssumption DEF Init, LockOK, Locked, Writes, None
<1>4. CallsOK
  BY Constructors DEF Init, CallsOK
<1> QED
  BY <1>1, <1>2, <1>3, <1>4 DEF IInv

\* The rows change with no call: the merchant is created, a key expires.
LEMMA RowStep ==
  ASSUME IInv, UNCHANGED <<rules, endpoints, lock, call>>,
         \/ CreateMerchant
         \/ \E k \in KeyIds : KeyExpires(k)
  PROVE  IInv'
<1>1. MerchantOK'
  BY DEF IInv, MerchantOK, CreateMerchant, KeyExpires, Statuses
<1>2. EndpointsOK'
  BY DEF IInv, EndpointsOK, SecretsOK
<1>3. LockOK'
  BY DEF IInv, LockOK, MerchantOK, CreateMerchant, KeyExpires
<1>4. CallsOK'
  BY DEF IInv, MerchantOK, CallsOK, RequestOK, CopyOK, SecretsOK, CreateMerchant, KeyExpires, None
<1> QED
  BY <1>1, <1>2, <1>3, <1>4 DEF IInv

\* lockMerchant by each of its callers.
LEMMA ArriveStep ==
  ASSUME IInv, NEW c \in Calls, Arrive(c)
  PROVE  IInv'
<1> USE DEF Locked, Writes
<1>1. CASE \E to \in Statuses \cup {None} : LockMerchant(c, "UpdateMerchant", None, to)
  BY <1>1, LockStep
<1>2. CASE \E p \in Prefs : LockMerchant(c, "UpdateRoutingPreferences", None, p)
  BY <1>2, LockStep
<1>3. CASE LockMerchant(c, "CountActive", None, None)
  BY <1>3, LockStep
<1>4. CASE LockMerchant(c, "CountLive", None, None)
  BY <1>4, LockStep
<1>5. CASE \E e \in EndpointIds, p \in Patches :
             endpoints[e].version < MaxVersion /\ LockMerchant(c, "GetWebhookEndpoint", e, p)
  BY <1>5, LockStep
<1> QED
  BY <1>1, <1>2, <1>3, <1>4, <1>5 DEF Arrive

\* The counts and the reads: the call goes on with what it has seen, or ends.
LEMMA ReadStep ==
  ASSUME IInv, NEW c \in Calls,
         \/ CountActive(c) \/ CountLive(c) \/ GetWebhookEndpoint(c)
         \/ \E k \in KeyIds : GetApiKey(c, k)
         \/ \E e \in EndpointIds : BeginDelete(c, e)
  PROVE  IInv'
<1>0. call[c] \in CallType /\ RequestOK(call[c]) /\ CopyOK(call[c])
  BY DEF IInv, CallsOK
<1>1. CASE Ends(c)
  BY <1>1, EndStep DEF CountActive, CountLive, GetWebhookEndpoint, GetApiKey, BeginDelete
<1>2. CASE CountActive(c) /\ ~Ends(c)
  <2> DEFINE s == [call[c] EXCEPT !.next = "CreateApiKey"]
  <2>1. s \in CallType /\ s.next = "CreateApiKey" /\ RequestOK(s) /\ CopyOK(s)
    BY <1>0 DEF CallType, Locked, Writes, RequestOK, CopyOK, Holding
  <2>2. call' = [call EXCEPT ![c] = s] /\ UNCHANGED rows /\ UNCHANGED lock
    BY <1>2 DEF CountActive
  <2>3. lock = c /\ merchant.status # "closed" /\ "CreateApiKey" \in Locked
    BY <1>2 DEF CountActive, IInv, LockOK, Locked, Writes
  <2> HIDE DEF s
  <2> QED
    BY <2>1, <2>2, <2>3, QuietStep
<1>3. CASE CountLive(c) /\ ~Ends(c)
  <2> DEFINE s == [call[c] EXCEPT !.next = "CreateWebhookEndpoint"]
  <2>1. s \in CallType /\ s.next = "CreateWebhookEndpoint" /\ RequestOK(s) /\ CopyOK(s)
    BY <1>0 DEF CallType, Locked, Writes, RequestOK, CopyOK, Holding
  <2>2. call' = [call EXCEPT ![c] = s] /\ UNCHANGED rows /\ UNCHANGED lock
    BY <1>3 DEF CountLive
  <2>3. lock = c /\ merchant.status # "closed" /\ "CreateWebhookEndpoint" \in Locked
    BY <1>3 DEF CountLive, IInv, LockOK, Locked, Writes
  <2> HIDE DEF s
  <2> QED
    BY <2>1, <2>2, <2>3, QuietStep
<1>4. CASE GetWebhookEndpoint(c) /\ ~Ends(c)
  <2> DEFINE s == [call[c] EXCEPT !.next = "UpdateWebhookEndpoint", !.copy = endpoints[call[c].id]]
  <2>1. call[c].id \in LiveEndpoints /\ call[c].arg \in Patches
    BY <1>0, <1>4 DEF GetWebhookEndpoint, RequestOK
  <2>2. /\ endpoints[call[c].id] \in EndpointRows /\ SecretsOK(endpoints[call[c].id])
        /\ endpoints[call[c].id].version < MaxVersion
        /\ endpoints[call[c].id].status # None /\ ~endpoints[call[c].id].deleted
        /\ call[c].id \in EndpointIds
    BY <1>0, <1>4, <2>1 DEF LiveEndpoints, GetWebhookEndpoint, CopyOK, IInv, EndpointsOK
  <2>3. s \in CallType /\ s.next = "UpdateWebhookEndpoint" /\ s.id = call[c].id
        /\ s.arg = call[c].arg /\ s.copy = endpoints[call[c].id]
    BY <1>0, <2>2 DEF CallType, Locked, Writes
  <2>4. endpoints[call[c].id].version \in Nat
    BY <2>2 DEF EndpointRows
  <2>5. RequestOK(s) /\ CopyOK(s)
    BY <2>1, <2>2, <2>3, <2>4 DEF RequestOK, CopyOK, Holding
  <2>6. call' = [call EXCEPT ![c] = s] /\ UNCHANGED rows /\ UNCHANGED lock
    BY <1>4, <2>1 DEF GetWebhookEndpoint
  <2>7. lock = c /\ merchant.status # "closed" /\ "UpdateWebhookEndpoint" \in Locked
    BY <1>4 DEF GetWebhookEndpoint, IInv, LockOK, Locked, Writes
  <2> HIDE DEF s
  <2> QED
    BY <2>3, <2>5, <2>6, <2>7, QuietStep
<1>5. ASSUME NEW k \in KeyIds, GetApiKey(c, k)
      PROVE  IInv'
  <2> DEFINE s == [Idle EXCEPT !.next = "RevokeApiKey", !.id = k]
  <2>1. s \in CallType /\ s.next = "RevokeApiKey" /\ s.id = k
    BY Constructors DEF CallType, Idle
  <2>2. RequestOK(s) /\ CopyOK(s)
    BY <1>5, <2>1 DEF GetApiKey, RequestOK, CopyOK, Holding, None
  <2>3. call' = [call EXCEPT ![c] = s] /\ UNCHANGED rows /\ UNCHANGED lock
    BY <1>5 DEF GetApiKey
  <2>4. lock # c /\ s.next \notin Locked /\ s.next \notin Writes
    BY <1>5, <2>1, Constructors DEF GetApiKey, IInv, LockOK, Locked, Writes, None
  <2> HIDE DEF s
  <2> QED
    BY <2>1, <2>2, <2>3, <2>4, QuietStep DEF IInv, LockOK
<1>6. ASSUME NEW e \in EndpointIds, BeginDelete(c, e)
      PROVE  IInv'
  <2> DEFINE s == [Idle EXCEPT !.next = "DeleteWebhookEndpoint", !.id = e, !.copy = endpoints[e]]
  <2>1. /\ endpoints[e] \in EndpointRows /\ SecretsOK(endpoints[e])
        /\ endpoints[e].version < MaxVersion
        /\ endpoints[e].status # None /\ ~endpoints[e].deleted
    BY <1>6 DEF BeginDelete, LiveEndpoints, IInv, EndpointsOK
  <2>2. s \in CallType /\ s.next = "DeleteWebhookEndpoint" /\ s.id = e /\ s.copy = endpoints[e]
    BY <2>1, Constructors DEF CallType, Idle
  <2>3. endpoints[e].version \in Nat
    BY <2>1 DEF EndpointRows
  <2>4. RequestOK(s) /\ CopyOK(s)
    BY <2>1, <2>2, <2>3 DEF RequestOK, CopyOK, Holding
  <2>5. call' = [call EXCEPT ![c] = s] /\ UNCHANGED rows /\ UNCHANGED lock
    BY <1>6 DEF BeginDelete
  <2>6. lock # c /\ s.next \notin Locked /\ s.next \notin Writes
    BY <1>6, <2>2, Constructors DEF BeginDelete, IInv, LockOK, Locked, Writes, None
  <2> HIDE DEF s
  <2> QED
    BY <2>2, <2>4, <2>5, <2>6, QuietStep DEF IInv, LockOK
<1> QED
  BY <1>1, <1>2, <1>3, <1>4, <1>5, <1>6

\* The invariant is inductive.
LEMMA NextInv == IInv /\ [Next]_vars => IInv'
<1> SUFFICES ASSUME IInv, [Next]_vars PROVE IInv'
  OBVIOUS
<1>1. CASE UNCHANGED vars
  BY <1>1 DEF vars, IInv, MerchantOK, EndpointsOK, SecretsOK, LockOK, CallsOK, RequestOK, CopyOK
<1>2. CASE CreateMerchant \/ \E k \in KeyIds : KeyExpires(k)
  BY <1>2, RowStep DEF CreateMerchant, KeyExpires
<1>3. ASSUME NEW c \in Calls, Arrive(c) PROVE IInv'
  BY <1>3, ArriveStep
<1>4. ASSUME NEW c \in Calls, Abort(c) PROVE IInv'
  BY <1>4, EndStep DEF Abort
<1>5. ASSUME NEW c \in Calls, UpdateMerchant(c) \/ UpdateRoutingPreferences(c) PROVE IInv'
  BY <1>5, MerchantStep
<1>6. ASSUME NEW c \in Calls,
             \/ CountActive(c) \/ CountLive(c) \/ GetWebhookEndpoint(c)
             \/ \E k \in KeyIds : GetApiKey(c, k)
             \/ \E e \in EndpointIds : BeginDelete(c, e)
      PROVE  IInv'
  BY <1>6, ReadStep
<1>7. ASSUME NEW c \in Calls, RevokeApiKey(c) PROVE IInv'
  BY <1>7, KeyStep DEF RevokeApiKey, IInv, CallsOK, RequestOK
<1>8. ASSUME NEW c \in Calls, NEW k \in KeyIds, CreateApiKey(c, k) PROVE IInv'
  BY <1>8, KeyStep DEF CreateApiKey
<1>9. ASSUME NEW c \in Calls, UpdateWebhookEndpoint(c) \/ DeleteWebhookEndpoint(c) PROVE IInv'
  BY <1>9, UpdateStep
<1>10. ASSUME NEW c \in Calls, NEW e \in EndpointIds, CreateWebhookEndpoint(c, e) PROVE IInv'
  BY <1>10, CreateEndpointStep
<1> QED
  BY <1>1, <1>2, <1>3, <1>4, <1>5, <1>6, <1>7, <1>8, <1>9, <1>10 DEF Next

\* Every reachable state satisfies the inductive invariant.
LEMMA Inductive == Spec => []IInv
<1> QED
  BY InitInv, NextInv, PTL DEF Spec

\* Whatever the calls of merchant-service do at the same time, the rows stay ones that the schema
\* knows, the two halves of the routing preferences are of one request, and the row lock of
\* lockMerchant is held by a call that still runs.
THEOREM TypeCorrect == Spec => []TypeOK
<1>1. IInv => TypeOK
  <2> SUFFICES ASSUME IInv PROVE TypeOK
    OBVIOUS
  <2>1. lock = None \/ (lock \in Calls /\ call[lock] # Idle)
    BY Constructors DEF IInv, LockOK, Locked, Writes, None
  <2> QED
    BY <2>1 DEF IInv, MerchantOK, EndpointsOK, CallsOK, CallType, TypeOK
<1> QED
  BY <1>1, Inductive, PTL

-----------------------------------------------------------------------------
(* The limits                                                              *)

\* The counts are numbers, a smaller set counts less, and one more element counts one more.
LEMMA Counting ==
  ASSUME NEW S, IsFiniteSet(S), NEW T \in SUBSET S, NEW x
  PROVE  /\ Cardinality(S) \in Nat /\ Cardinality(T) \in Nat
         /\ Cardinality(T) <= Cardinality(S)
         /\ Cardinality(T \cup {x}) <= Cardinality(T) + 1
<1>1. IsFiniteSet(T) /\ Cardinality(T) <= Cardinality(S)
  BY FS_Subset
<1>2. Cardinality(S) \in Nat /\ Cardinality(T) \in Nat
  BY <1>1, FS_CardinalityType
<1>3. Cardinality(T \cup {x}) = IF x \in T THEN Cardinality(T) ELSE Cardinality(T) + 1
  BY <1>1, FS_AddElement
<1> QED
  BY <1>1, <1>2, <1>3

\* Only CreateApiKey adds an active key and only CreateWebhookEndpoint a live endpoint; a call
\* comes to the insert from the count, which has seen room.
LEMMA WhoCreates ==
  ASSUME IInv, [Next]_vars
  PROVE  /\ \/ ActiveKeys' \subseteq ActiveKeys
            \/ \E c \in Calls, k \in KeyIds :
                 CreateApiKey(c, k) /\ ActiveKeys' = ActiveKeys \cup {k}
         /\ \/ LiveEndpoints' \subseteq LiveEndpoints
            \/ \E c \in Calls, e \in EndpointIds :
                 CreateWebhookEndpoint(c, e) /\ LiveEndpoints' = LiveEndpoints \cup {e}
         /\ \A c \in Calls :
              /\ call'[c].next = "CreateApiKey" =>
                   \/ call[c].next = "CreateApiKey"
                   \/ UNCHANGED rows /\ ~(Cardinality(ActiveKeys) >= MaxAPIKeysPerMode)
              /\ call'[c].next = "CreateWebhookEndpoint" =>
                   \/ call[c].next = "CreateWebhookEndpoint"
                   \/ UNCHANGED rows /\ ~(Cardinality(LiveEndpoints) >= MaxWebhookEndpoints)
<1>0. /\ call \in [Calls -> CallType] /\ keys \in [KeyIds -> {None, "active", "expired", "revoked"}]
      /\ endpoints \in [EndpointIds -> EndpointRows]
  BY DEF IInv, CallsOK, MerchantOK, EndpointsOK
<1>1. \/ ActiveKeys' \subseteq ActiveKeys
      \/ \E c \in Calls, k \in KeyIds : CreateApiKey(c, k) /\ ActiveKeys' = ActiveKeys \cup {k}
  <2>1. CASE UNCHANGED keys
    BY <2>1 DEF ActiveKeys
  <2>2. ASSUME NEW k \in KeyIds, KeyExpires(k) PROVE ActiveKeys' \subseteq ActiveKeys
    BY <1>0, <2>2 DEF KeyExpires, ActiveKeys
  <2>3. ASSUME NEW c \in Calls, RevokeApiKey(c) PROVE ActiveKeys' \subseteq ActiveKeys
    BY <1>0, <2>3 DEF RevokeApiKey, ActiveKeys
  <2>4. ASSUME NEW c \in Calls, NEW k \in KeyIds, CreateApiKey(c, k)
        PROVE  ActiveKeys' = ActiveKeys \cup {k}
    BY <1>0, <2>4 DEF CreateApiKey, ActiveKeys
  <2>5. \/ UNCHANGED keys
        \/ \E k \in KeyIds : KeyExpires(k)
        \/ \E c \in Calls : RevokeApiKey(c) \/ \E k \in KeyIds : CreateApiKey(c, k)
    BY DEF Next, vars, rows, CreateMerchant, Arrive, LockMerchant, Abort, UpdateMerchant,
           UpdateRoutingPreferences, CountActive, GetApiKey, CountLive, GetWebhookEndpoint,
           UpdateWebhookEndpoint, DeleteWebhookEndpoint, Update, CreateWebhookEndpoint, BeginDelete
  <2> QED
    BY <2>1, <2>2, <2>3, <2>4, <2>5
<1>2. \/ LiveEndpoints' \subseteq LiveEndpoints
      \/ \E c \in Calls, e \in EndpointIds :
           CreateWebhookEndpoint(c, e) /\ LiveEndpoints' = LiveEndpoints \cup {e}
  <2>1. CASE UNCHANGED endpoints
    BY <2>1 DEF LiveEndpoints
  <2>2. ASSUME NEW c \in Calls, UpdateWebhookEndpoint(c) \/ DeleteWebhookEndpoint(c)
        PROVE  LiveEndpoints' \subseteq LiveEndpoints
    BY <1>0, <2>2, UpdateEffect DEF LiveEndpoints
  <2>3. ASSUME NEW c \in Calls, NEW e \in EndpointIds, CreateWebhookEndpoint(c, e)
        PROVE  LiveEndpoints' = LiveEndpoints \cup {e}
    <3>1. NewWebhookEndpoint.status # None /\ ~NewWebhookEndpoint.deleted
      BY DEF NewWebhookEndpoint, NoEndpoint, None
    <3>2. \A x \in EndpointIds :
            endpoints'[x] = IF x = e THEN NewWebhookEndpoint ELSE endpoints[x]
      BY <1>0, <2>3 DEF CreateWebhookEndpoint
    <3> QED
      BY <3>1, <3>2 DEF LiveEndpoints
  <2>4. \/ UNCHANGED endpoints
        \/ \E c \in Calls :
             \/ UpdateWebhookEndpoint(c) \/ DeleteWebhookEndpoint(c)
             \/ \E e \in EndpointIds : CreateWebhookEndpoint(c, e)
    BY DEF Next, vars, rows, CreateMerchant, KeyExpires, Arrive, LockMerchant, Abort, UpdateMerchant,
           UpdateRoutingPreferences, CountActive, GetApiKey, RevokeApiKey, CreateApiKey, CountLive,
           GetWebhookEndpoint, BeginDelete
  <2> QED
    BY <2>1, <2>2, <2>3, <2>4
<1>3. ASSUME NEW c \in Calls,
             \/ call'[c].next = "CreateApiKey" /\ call[c].next # "CreateApiKey"
             \/ call'[c].next = "CreateWebhookEndpoint" /\ call[c].next # "CreateWebhookEndpoint"
      PROVE  (CountActive(c) \/ CountLive(c)) /\ ~Ends(c)
  <2>1. Idle.next \notin {"CreateApiKey", "CreateWebhookEndpoint"}
    BY Constructors DEF None
  <2>2. ~Ends(c)
    BY <1>0, <1>3, <2>1 DEF Ends
  <2>3. ~UNCHANGED call /\ \A d \in Calls : Ends(d) => d = c
    BY <1>0, <1>3, <2>1 DEF Ends
  <2>4. ~Arrive(c) /\ ~GetWebhookEndpoint(c)
    <3>1. ASSUME NEW next, NEW id, NEW arg, LockMerchant(c, next, id, arg)
          PROVE  call'[c].next = next
      BY <1>0, <3>1 DEF LockMerchant, Idle
    <3>2. ~Arrive(c)
      BY <1>3, <3>1 DEF Arrive
    <3>3. ~GetWebhookEndpoint(c)
      BY <1>0, <1>3, <2>2 DEF GetWebhookEndpoint, CallType
    <3> QED
      BY <3>2, <3>3
  <2>5. \A k \in KeyIds : ~GetApiKey(c, k)
    BY <1>0, <1>3 DEF GetApiKey, Idle
  <2>6. \A e \in EndpointIds : ~BeginDelete(c, e)
    BY <1>0, <1>3 DEF BeginDelete, Idle
  <2>7. ASSUME NEW d \in Calls, d # c,
               \/ Arrive(d) \/ CountActive(d) \/ CountLive(d) \/ GetWebhookEndpoint(d)
               \/ \E k \in KeyIds : GetApiKey(d, k)
               \/ \E e \in EndpointIds : BeginDelete(d, e)
        PROVE  FALSE
    <3>1. call'[c] = call[c]
      BY <1>0, <2>3, <2>7 DEF Arrive, LockMerchant, CountActive, CountLive, GetWebhookEndpoint,
                              GetApiKey, BeginDelete
    <3> QED
      BY <1>3, <3>1
  <2> QED
    BY <2>2, <2>3, <2>4, <2>5, <2>6, <2>7
       DEF Next, vars, CreateMerchant, KeyExpires, Abort, UpdateMerchant, UpdateRoutingPreferences,
           RevokeApiKey, CreateApiKey, UpdateWebhookEndpoint, DeleteWebhookEndpoint, Update,
           CreateWebhookEndpoint
<1>4. ASSUME NEW c \in Calls
      PROVE  /\ call'[c].next = "CreateApiKey" =>
                  \/ call[c].next = "CreateApiKey"
                  \/ UNCHANGED rows /\ ~(Cardinality(ActiveKeys) >= MaxAPIKeysPerMode)
             /\ call'[c].next = "CreateWebhookEndpoint" =>
                  \/ call[c].next = "CreateWebhookEndpoint"
                  \/ UNCHANGED rows /\ ~(Cardinality(LiveEndpoints) >= MaxWebhookEndpoints)
  BY <1>0, <1>3 DEF CountActive, CountLive, CallType
<1> QED
  BY <1>1, <1>2, <1>4

\* Who has counted has the lock until it has inserted, so nobody inserts in between.
LEMMA LimitsStep ==
  ASSUME Inv, [Next]_vars
  PROVE  SlotFree' /\ LimitsHold'
<1> USE DEF Inv
<1>0. /\ IsFiniteSet(KeyIds) /\ IsFiniteSet(EndpointIds)
      /\ MaxAPIKeysPerMode \in Nat /\ MaxWebhookEndpoints \in Nat
  BY MerchantAssumption
<1>1. /\ ActiveKeys \in SUBSET KeyIds /\ ActiveKeys' \in SUBSET KeyIds
      /\ LiveEndpoints \in SUBSET EndpointIds /\ LiveEndpoints' \in SUBSET EndpointIds
  BY DEF ActiveKeys, LiveEndpoints
<1>2. /\ IsFiniteSet(ActiveKeys) /\ IsFiniteSet(LiveEndpoints)
      /\ Cardinality(ActiveKeys) \in Nat /\ Cardinality(LiveEndpoints) \in Nat
      /\ Cardinality(ActiveKeys') \in Nat /\ Cardinality(LiveEndpoints') \in Nat
  BY <1>0, <1>1, FS_Subset, Counting
<1>3. \A c, d \in Calls : call[c].next \in Locked /\ call[d].next \in Locked => c = d
  BY DEF IInv, LockOK
<1>4. ASSUME NEW c \in Calls, Ends(c)
      PROVE  call'[c].next = None /\ \A d \in Calls \ {c} : call'[d] = call[d]
  BY <1>4, Constructors DEF Ends, IInv, CallsOK
<1>5. /\ Cardinality(ActiveKeys') <= MaxAPIKeysPerMode
      /\ \A c \in Calls : call'[c].next = "CreateApiKey" =>
           Cardinality(ActiveKeys') < MaxAPIKeysPerMode
  <2>1. CASE ActiveKeys' \subseteq ActiveKeys
    <3>1. Cardinality(ActiveKeys') <= Cardinality(ActiveKeys)
      BY <1>2, <2>1, Counting
    <3>2. UNCHANGED rows => ActiveKeys' = ActiveKeys
      BY DEF rows, ActiveKeys
    <3> QED
      BY <1>0, <1>2, <3>1, <3>2, WhoCreates DEF SlotFree, LimitsHold
  <2>2. CASE \E c \in Calls, k \in KeyIds : CreateApiKey(c, k) /\ ActiveKeys' = ActiveKeys \cup {k}
    <3>0. PICK c \in Calls, k \in KeyIds : CreateApiKey(c, k) /\ ActiveKeys' = ActiveKeys \cup {k}
      BY <2>2
    <3>1. Cardinality(ActiveKeys') <= Cardinality(ActiveKeys) + 1
      BY <1>2, <3>0, Counting
    <3>2. Cardinality(ActiveKeys) < MaxAPIKeysPerMode
      BY <3>0 DEF CreateApiKey, SlotFree
    <3>3. \A d \in Calls : call'[d].next # "CreateApiKey"
      BY <1>3, <1>4, <3>0 DEF CreateApiKey, Locked, Writes, None
    <3> QED
      BY <1>0, <1>2, <3>1, <3>2, <3>3
  <2> QED
    BY <2>1, <2>2, WhoCreates
<1>6. /\ Cardinality(LiveEndpoints') <= MaxWebhookEndpoints
      /\ \A c \in Calls : call'[c].next = "CreateWebhookEndpoint" =>
           Cardinality(LiveEndpoints') < MaxWebhookEndpoints
  <2>1. CASE LiveEndpoints' \subseteq LiveEndpoints
    <3>1. Cardinality(LiveEndpoints') <= Cardinality(LiveEndpoints)
      BY <1>2, <2>1, Counting
    <3>2. UNCHANGED rows => LiveEndpoints' = LiveEndpoints
      BY DEF rows, LiveEndpoints
    <3> QED
      BY <1>0, <1>2, <3>1, <3>2, WhoCreates DEF SlotFree, LimitsHold
  <2>2. CASE \E c \in Calls, e \in EndpointIds : CreateWebhookEndpoint(c, e) /\ LiveEndpoints' = LiveEndpoints \cup {e}
    <3>0. PICK c \in Calls, e \in EndpointIds : CreateWebhookEndpoint(c, e) /\ LiveEndpoints' = LiveEndpoints \cup {e}
      BY <2>2
    <3>1. Cardinality(LiveEndpoints') <= Cardinality(LiveEndpoints) + 1
      BY <1>2, <3>0, Counting
    <3>2. Cardinality(LiveEndpoints) < MaxWebhookEndpoints
      BY <3>0 DEF CreateWebhookEndpoint, SlotFree
    <3>3. \A d \in Calls : call'[d].next # "CreateWebhookEndpoint"
      BY <1>3, <1>4, <3>0 DEF CreateWebhookEndpoint, Locked, Writes, None
    <3> QED
      BY <1>0, <1>2, <3>1, <3>2, <3>3
  <2> QED
    BY <2>1, <2>2, WhoCreates
<1> QED
  BY <1>5, <1>6 DEF SlotFree, LimitsHold

\* Nobody gets past MaxAPIKeysPerMode or MaxWebhookEndpoints: whoever has counted under the
\* merchant's lock inserts before anybody else can count.
THEOREM LimitsKept == Spec => []LimitsHold
<1>1. Init => SlotFree /\ LimitsHold
  <2> SUFFICES ASSUME Init PROVE SlotFree /\ LimitsHold
    OBVIOUS
  <2>1. ActiveKeys = {} /\ LiveEndpoints = {}
    BY DEF Init, ActiveKeys, LiveEndpoints, NoEndpoint, None
  <2>2. Cardinality({}) = 0 /\ 0 < MaxAPIKeysPerMode /\ 0 < MaxWebhookEndpoints
    BY FS_EmptySet, MerchantAssumption
  <2> QED
    BY <2>1, <2>2, MerchantAssumption DEF SlotFree, LimitsHold
<1>2. Init => Inv
  BY <1>1, InitInv DEF Inv
<1>3. Inv /\ [Next]_vars => Inv'
  BY NextInv, LimitsStep DEF Inv
<1>4. Inv => LimitsHold
  BY DEF Inv
<1> QED
  BY <1>2, <1>3, <1>4, PTL DEF Spec

-----------------------------------------------------------------------------
(* What is finished stays finished                                         *)

\* A step on a closed merchant writes neither it nor its preferences, creates nothing, and may
\* only delete an endpoint: whoever writes anything else has locked an open merchant.
LEMMA ClosedStep ==
  ASSUME IInv, [Next]_vars, merchant.status = "closed"
  PROVE  /\ UNCHANGED <<merchant, rules>>
         /\ \A k \in KeyIds : keys[k] = None => keys'[k] = None
         /\ \A e \in EndpointIds : endpoints'[e] = endpoints[e] \/ endpoints'[e].deleted
<1>0. /\ keys \in [KeyIds -> {None, "active", "expired", "revoked"}]
      /\ endpoints \in [EndpointIds -> EndpointRows]
      /\ \A c \in Calls : call[c].next \notin Writes
  BY DEF IInv, MerchantOK, EndpointsOK, LockOK
<1>1. CASE UNCHANGED rows
  BY <1>1 DEF rows
<1>2. CASE \E k \in KeyIds : KeyExpires(k)
  BY <1>0, <1>2 DEF KeyExpires, None
<1>3. ASSUME NEW c \in Calls, UpdateMerchant(c) PROVE UNCHANGED rows
  BY <1>3 DEF UpdateMerchant, CanTransitionTo, rows
<1>4. ASSUME NEW c \in Calls, RevokeApiKey(c)
      PROVE  /\ UNCHANGED <<merchant, rules, endpoints>>
             /\ \A k \in KeyIds : keys[k] = None => keys'[k] = None
  BY <1>0, <1>4 DEF RevokeApiKey, IInv, CallsOK, RequestOK
<1>5. ASSUME NEW c \in Calls, DeleteWebhookEndpoint(c)
      PROVE  /\ UNCHANGED <<merchant, rules, keys>>
             /\ \A e \in EndpointIds : endpoints'[e] = endpoints[e] \/ endpoints'[e].deleted
  <2>1. UNCHANGED <<merchant, rules, keys>>
    BY <1>5 DEF DeleteWebhookEndpoint, Update
  <2>2. CASE endpoints' = endpoints
    BY <2>1, <2>2
  <2>3. CASE endpoints' # endpoints
    <3>1. PICK row \in EndpointRows :
            /\ endpoints' = [endpoints EXCEPT ![call[c].id] = row]
            /\ row.deleted = TRUE
      BY <1>5, <2>3, UpdateEffect
    <3>2. \A e \in EndpointIds : endpoints'[e] = endpoints[e] \/ endpoints'[e] = row
      BY <1>0, <3>1
    <3> QED
      BY <2>1, <3>1, <3>2
  <2> QED
    BY <2>2, <2>3
<1>6. \/ UNCHANGED rows
      \/ \E k \in KeyIds : KeyExpires(k)
      \/ \E c \in Calls : UpdateMerchant(c) \/ RevokeApiKey(c) \/ DeleteWebhookEndpoint(c)
  BY <1>0 DEF Next, vars, rows, CreateMerchant, Arrive, LockMerchant, Abort, None,
              UpdateRoutingPreferences, CountActive, CreateApiKey, GetApiKey, CountLive,
              GetWebhookEndpoint, UpdateWebhookEndpoint, CreateWebhookEndpoint, BeginDelete, Writes
<1> QED
  BY <1>1, <1>2, <1>3, <1>4, <1>5, <1>6

\* No step writes over a deleted endpoint, and none loses a secret.
LEMMA EndpointStep ==
  ASSUME IInv, [Next]_vars
  PROVE  SecretsKept
<1>0. endpoints \in [EndpointIds -> EndpointRows]
  BY DEF IInv, EndpointsOK
<1>1. CASE UNCHANGED endpoints
  BY <1>1 DEF SecretsKept
<1>2. ASSUME NEW c \in Calls, UpdateWebhookEndpoint(c) \/ DeleteWebhookEndpoint(c),
             ~UNCHANGED endpoints
      PROVE  SecretsKept
  <2>1. PICK row \in EndpointRows :
          /\ endpoints' = [endpoints EXCEPT ![call[c].id] = row]
          /\ ~endpoints[call[c].id].deleted
          /\ \/ row.current = endpoints[call[c].id].current
             \/ /\ row.current > endpoints[call[c].id].current
                /\ row.previous = endpoints[call[c].id].current
    BY <1>2, UpdateEffect
  <2>2. \A e \in EndpointIds : endpoints'[e] = IF e = call[c].id THEN row ELSE endpoints[e]
    BY <1>0, <2>1
  <2> QED
    BY <2>1, <2>2 DEF SecretsKept
<1>3. ASSUME NEW c \in Calls, NEW e \in EndpointIds, CreateWebhookEndpoint(c, e)
      PROVE  SecretsKept
  <2>1. ~endpoints[e].deleted /\ ~(endpoints[e].current > 0)
    BY <1>3 DEF CreateWebhookEndpoint, NoEndpoint
  <2>2. \A x \in EndpointIds \ {e} : endpoints'[x] = endpoints[x]
    BY <1>0, <1>3 DEF CreateWebhookEndpoint
  <2> QED
    BY <2>1, <2>2 DEF SecretsKept
<1>4. \/ UNCHANGED endpoints
      \/ \E c \in Calls :
           \/ UpdateWebhookEndpoint(c) \/ DeleteWebhookEndpoint(c)
           \/ \E e \in EndpointIds : CreateWebhookEndpoint(c, e)
  BY DEF Next, vars, rows, CreateMerchant, KeyExpires, Arrive, LockMerchant, Abort, UpdateMerchant,
         UpdateRoutingPreferences, CountActive, GetApiKey, RevokeApiKey, CreateApiKey, CountLive,
         GetWebhookEndpoint, BeginDelete
<1> QED
  BY <1>1, <1>2, <1>3, <1>4

\* No call of merchant-service undoes what another has finished: a closed merchant, a revoked key
\* and a deleted endpoint stay so, and a signing secret is never lost to a concurrent update.
THEOREM FinishedStaysFinished == Spec => NothingUndone
<1>1. ASSUME IInv, [Next]_vars, NEW k \in KeyIds, keys[k] = "revoked"
      PROVE  keys'[k] = "revoked"
  <2>0. keys \in [KeyIds -> {None, "active", "expired", "revoked"}]
    BY <1>1 DEF IInv, MerchantOK
  <2>1. CASE UNCHANGED keys
    BY <1>1, <2>1
  <2>2. CASE \E x \in KeyIds : KeyExpires(x)
    BY <1>1, <2>0, <2>2 DEF KeyExpires
  <2>3. CASE \E c \in Calls : RevokeApiKey(c)
    BY <1>1, <2>0, <2>3 DEF RevokeApiKey
  <2>4. CASE \E c \in Calls, x \in KeyIds : CreateApiKey(c, x)
    BY <1>1, <2>0, <2>4 DEF CreateApiKey, None
  <2>5. \/ UNCHANGED keys
        \/ \E x \in KeyIds : KeyExpires(x)
        \/ \E c \in Calls : RevokeApiKey(c) \/ \E x \in KeyIds : CreateApiKey(c, x)
    BY <1>1 DEF Next, vars, rows, CreateMerchant, Arrive, LockMerchant, Abort, UpdateMerchant,
           UpdateRoutingPreferences, CountActive, GetApiKey, CountLive, GetWebhookEndpoint,
           UpdateWebhookEndpoint, DeleteWebhookEndpoint, Update, CreateWebhookEndpoint, BeginDelete
  <2> QED
    BY <2>1, <2>2, <2>3, <2>4, <2>5
<1>2. IInv /\ [Next]_vars =>
        [/\ ClosedForGood
         /\ \A k \in KeyIds : keys[k] = "revoked" => keys'[k] = "revoked"
         /\ SecretsKept]_vars
  BY <1>1, ClosedStep, EndpointStep DEF ClosedForGood
<1> QED
  BY <1>2, Inductive, PTL DEF Spec, NothingUndone
=============================================================================
