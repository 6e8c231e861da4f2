-------------------------- MODULE MembershipProofs --------------------------
(***************************************************************************)
(* Proofs about Membership, for any number of users, clients and founders:  *)
(* its types; that an erased account never holds a membership again where   *)
(* nothing can hand it one; and that a workspace keeps an owner where the    *)
(* plugin counts again and nobody is erased, or where requests come one at   *)
(* a time.                                                                   *)
(***************************************************************************)
EXTENDS Membership, FiniteSetTheorems, TLAPS

-----------------------------------------------------------------------------
(* Types *)

Ranks == Roles \cup {"NONE"}

(***************************************************************************)
(* What a request asks for suits its operation, so that a member's row is   *)
(* only ever given a role.                                                  *)
(***************************************************************************)
Suited(r) ==
    /\ r.op \in {"remove", "leave"} => r.to = "NONE"
    /\ r.op = "role" => r.to \in Roles

AllSuited == \A c \in Clients : Suited(req[c])

(***************************************************************************)
(* What a client asks for suits its operation.                              *)
(***************************************************************************)
LEMMA BeginAsks ==
    ASSUME TypeOK, NEW c \in Clients, Begin(c)
    PROVE  \E op \in Ops, a, t \in Users, what \in Ranks \cup Dispositions, s \in {"read", "write"} :
               /\ Request(c, op, a, t, what, s)
               /\ op \in {"remove", "leave"} => what = "NONE"
               /\ op = "role" => what \in Roles
<1> USE DEF Ranks
<1>0. \A op, a, t, what, s : Request(c, op, a, t, what, s) => op \in Ops
  BY DEF Request
<1>1. CASE BeginFound(c)
  BY <1>0, <1>1 DEF BeginFound
<1>2. CASE BeginDissolve(c)
  BY <1>0, <1>2 DEF BeginDissolve
<1>3. CASE BeginRemove(c)
  BY <1>0, <1>3 DEF BeginRemove
<1>4. CASE BeginRole(c)
  BY <1>0, <1>4 DEF BeginRole
<1>5. CASE BeginLeave(c)
  BY <1>0, <1>5 DEF BeginLeave
<1>6. CASE BeginAccept(c)
  <2>1. PICK i \in invites : Request(c, "accept", i[2], i[2], "NONE", "write")
    BY <1>6 DEF BeginAccept
  <2>2. i \in Users \X Users
    BY DEF TypeOK
  <2>3. i[2] \in Users
    BY <2>2
  <2> QED BY <1>0, <2>1, <2>3
<1>7. CASE BeginErase(c)
  BY <1>0, <1>7 DEF BeginErase
<1>8. CASE BeginJoin(c)
  BY <1>0, <1>8 DEF BeginJoin
<1> QED BY <1>1, <1>2, <1>3, <1>4, <1>5, <1>6, <1>7, <1>8 DEF Begin

(***************************************************************************)
(* What a client asks for is a request.                                     *)
(***************************************************************************)
LEMMA BeginTypes ==
    ASSUME TypeOK, NEW c \in Clients, Begin(c)
    PROVE  TypeOK'
<1> DEFINE Asked(op, a, t, what, s) ==
             [op |-> op, actor |-> a, target |-> t, to |-> what, as |-> role[a],
              found |-> "NONE", replaced |-> "NONE", step |-> s]
<1>1. PICK op \in Ops, a \in Users, t \in Users, what \in Ranks \cup Dispositions,
           s \in {"read", "write"} : Request(c, op, a, t, what, s)
  BY BeginAsks
<1>2. Asked(op, a, t, what, s) \in Requests
  BY MembershipAssumption DEF Requests, TypeOK, Ranks
<1>3. req' = [req EXCEPT ![c] = Asked(op, a, t, what, s)]
  BY <1>1 DEF Request
<1>4. req' \in [Clients -> Requests \cup {NoRequest}]
  <2> HIDE DEF Asked
  <2> QED BY <1>2, <1>3 DEF TypeOK
<1>5. UNCHANGED <<exists, role, invites, deleted, rooms>>
  BY <1>1 DEF Request, workspace
<1> QED BY <1>4, <1>5 DEF TypeOK

(***************************************************************************)
(* A request that is somewhere is a request.                                *)
(***************************************************************************)
LEMMA AtIsRequest ==
    ASSUME TypeOK, NEW c \in Clients, req[c].step # "none"
    PROVE  req[c] \in Requests
BY DEF TypeOK, NoRequest

(***************************************************************************)
(* The ways a step of a request changes it.                                 *)
(***************************************************************************)
Steps == {"read", "count", "heir", "write", "record", "evict", "enter"}

MovedOn(c, found, replaced, s) ==
    \/ End(c)
    \/ Step(c, s)
    \/ req' = [req EXCEPT ![c].found = found, ![c].step = s]
    \/ req' = [req EXCEPT ![c].replaced = replaced, ![c].step = s]

(***************************************************************************)
(* Every step of a request moves a request on, or ends it.                  *)
(***************************************************************************)
LEMMA ContinueMovesOn ==
    ASSUME TypeOK, NEW c \in Clients, Continue(c)
    PROVE  /\ req[c] \in Requests
           /\ \E found, replaced \in Ranks, s \in Steps : MovedOn(c, found, replaced, s)
<1>1. req[c].step # "none"
  BY DEF Continue, ReadMember, CountOwners, ListMemberships, MatchDispositions, ReadHeir, GiveUp,
         WriteMember, Found, Dissolve, Accept, Erase, Record, Evict, CheckMembership, EnterRoom, At
<1>2. req[c] \in Requests
  BY <1>1, AtIsRequest
<1>3. "NONE" \in Ranks /\ role[req[c].actor] \in Ranks /\ role[req[c].target] \in Ranks
  BY <1>2 DEF TypeOK, Ranks, Requests
<1>4. \E found, replaced \in Ranks, s \in Steps : MovedOn(c, found, replaced, s)
  <2>1. CASE \/ ReadMember(c) \/ CountOwners(c) \/ ListMemberships(c)
             \/ MatchDispositions(c) \/ ReadHeir(c) \/ GiveUp(c)
    BY <2>1, <1>3 DEF MovedOn, Steps, ReadMember, CountOwners, ListMemberships,
                      MatchDispositions, ReadHeir, GiveUp
  <2>2. CASE WriteMember(c)
    BY <2>2, <1>3 DEF MovedOn, Steps, WriteMember
  <2>3. CASE \/ Found(c) \/ Dissolve(c) \/ Accept(c) \/ Record(c) \/ CheckMembership(c)
             \/ EnterRoom(c)
    BY <2>3, <1>3 DEF MovedOn, Steps, Found, Dissolve, Accept, Record, CheckMembership, EnterRoom
  <2>4. CASE Erase(c)
    BY <2>4, <1>3 DEF MovedOn, Steps, Erase
  <2>5. CASE Evict(c)
    BY <2>5, <1>3 DEF MovedOn, Steps, Evict
  <2> QED BY <2>1, <2>2, <2>3, <2>4, <2>5 DEF Continue
<1> QED BY <1>2, <1>4

(***************************************************************************)
(* Moving on to another step, or ending, leaves requests behind, and what   *)
(* they ask for as it was.                                                  *)
(***************************************************************************)
Same(r, s) == s.op = r.op /\ s.to = r.to

LEMMA ContinueRequests ==
    ASSUME TypeOK, NEW c \in Clients, Continue(c)
    PROVE  /\ req' \in [Clients -> Requests \cup {NoRequest}]
           /\ \A d \in Clients : req'[d] = NoRequest \/ Same(req[d], req'[d])
<1>1. req[c] \in Requests
  BY ContinueMovesOn
<1>2. PICK found \in Ranks, replaced \in Ranks, s \in Steps : MovedOn(c, found, replaced, s)
  BY ContinueMovesOn
<1> DEFINE r1 == [req[c] EXCEPT !.step = s]
           r2 == [req[c] EXCEPT !.found = found, !.step = s]
           r3 == [req[c] EXCEPT !.replaced = replaced, !.step = s]
<1>3. /\ r1 \in Requests /\ Same(req[c], r1)
      /\ r2 \in Requests /\ Same(req[c], r2)
      /\ r3 \in Requests /\ Same(req[c], r3)
  <2>1. r1 \in Requests /\ r2 \in Requests /\ r3 \in Requests
    <3>1. req[c] \in Requests /\ s \in Steps /\ found \in Ranks /\ replaced \in Ranks
      BY <1>1
    <3>2. r1 \in Requests
      BY <3>1 DEF Requests, Ranks, Steps
    <3>3. r2 \in Requests
      BY <3>1 DEF Requests, Ranks, Steps
    <3>4. r3 \in Requests
      BY <3>1 DEF Requests, Ranks, Steps
    <3> QED BY <3>2, <3>3, <3>4
  <2>2. Same(req[c], r1) /\ Same(req[c], r2) /\ Same(req[c], r3)
    BY <1>1 DEF Requests, Same
  <2> QED BY <2>1, <2>2
<1>4. \E new \in Requests \cup {NoRequest} :
          /\ req' = [req EXCEPT ![c] = new]
          /\ new = NoRequest \/ Same(req[c], new)
  <2>1. \/ req' = [req EXCEPT ![c] = NoRequest]
        \/ req' = [req EXCEPT ![c] = r1]
        \/ req' = [req EXCEPT ![c] = r2]
        \/ req' = [req EXCEPT ![c] = r3]
    BY <1>1, <1>2 DEF MovedOn, End, Step, TypeOK
  <2> HIDE DEF r1, r2, r3
  <2> QED BY <1>3, <2>1
<1>5. \A d \in Clients : Same(req[d], req[d])
  BY DEF Same
<1> QED BY <1>4, <1>5 DEF TypeOK

(***************************************************************************)
(* Every step of a request keeps the types.                                 *)
(***************************************************************************)
LEMMA ContinueTypes ==
    ASSUME TypeOK, AllSuited, NEW c \in Clients, Continue(c)
    PROVE  TypeOK'
<1>1. req[c] \in Requests
  BY ContinueMovesOn
<1>2. req[c].actor \in Users /\ req[c].target \in Users
  BY <1>1 DEF Requests
<1>3. req' \in [Clients -> Requests \cup {NoRequest}]
  BY ContinueRequests
<1> DEFINE Rest ==
        /\ exists \in BOOLEAN
        /\ role \in [Users -> Roles \cup {"NONE"}]
        /\ ~exists => role = [u \in Users |-> "NONE"] /\ invites = {}
        /\ deleted \subseteq Users
        /\ invites \subseteq Users \X Users
        /\ rooms \subseteq Users
<1>4. Rest'
  <2>1. CASE \/ ReadMember(c) \/ CountOwners(c) \/ ListMemberships(c) \/ MatchDispositions(c)
             \/ ReadHeir(c) \/ GiveUp(c) \/ Record(c) \/ CheckMembership(c)
    BY <2>1 DEF TypeOK, workspace, ReadMember, CountOwners, ListMemberships, MatchDispositions,
                ReadHeir, GiveUp, Record, CheckMembership
  <2>2. CASE WriteMember(c)
    <3>1. req[c].to \in Roles \cup {"NONE"}
      BY <2>2 DEF WriteMember, At, AllSuited, Suited
    <3>2. role[req[c].target] # "NONE"
      BY <2>2 DEF WriteMember, Permitted
    <3>3. exists
      BY <1>2, <3>2 DEF TypeOK
    <3> QED BY <1>2, <2>2, <3>1, <3>3 DEF TypeOK, WriteMember
  <2>3. CASE Found(c)
    BY <1>2, <2>3 DEF TypeOK, Found, Roles
  <2>4. CASE Dissolve(c)
    BY <2>4 DEF TypeOK, Dissolve
  <2>5. CASE Accept(c)
    <3>1. exists
      BY <2>5 DEF Accept, TypeOK
    <3> QED BY <1>2, <2>5, <3>1 DEF TypeOK, Accept, Roles
  <2>6. CASE Erase(c)
    <3> DEFINE gone == req[c].to = "delete"
    <3>1. exists' \in BOOLEAN /\ deleted' \subseteq Users /\ rooms' \subseteq Users
      BY <1>2, <2>6 DEF TypeOK, Erase
    <3>2. invites' \subseteq Users \X Users
      BY <2>6 DEF TypeOK, Erase
    <3>3. role' \in [Users -> Roles \cup {"NONE"}]
      BY <2>6 DEF TypeOK, Erase, Roles
    <3>4. ASSUME ~exists' PROVE role' = [u \in Users |-> "NONE"] /\ invites' = {}
      <4>1. CASE gone
        BY <2>6, <4>1 DEF Erase
      <4>2. CASE ~gone
        <5>1. ~exists
          BY <2>6, <3>4, <4>2 DEF Erase, TypeOK
        <5>2. role = [u \in Users |-> "NONE"] /\ invites = {}
          BY <5>1 DEF TypeOK
        <5>3. req[c].to # "transfer"
          BY <1>2, <2>6, <5>2 DEF Erase
        <5> QED BY <2>6, <4>2, <5>2, <5>3 DEF Erase
      <4> QED BY <4>1, <4>2
    <3> QED BY <3>1, <3>2, <3>3, <3>4
  <2>7. CASE Evict(c)
    BY <2>7 DEF TypeOK, Evict, workspace
  <2>8. CASE EnterRoom(c)
    BY <1>2, <2>8 DEF TypeOK, EnterRoom, workspace
  <2> QED BY <2>1, <2>2, <2>3, <2>4, <2>5, <2>6, <2>7, <2>8 DEF Continue
<1> QED BY <1>3, <1>4 DEF TypeOK

-----------------------------------------------------------------------------
(* The invariant: types, and requests that suit their operation *)

(***************************************************************************)
(* The invariant is kept where a request begins, with an operation in use.  *)
(***************************************************************************)
LEMMA BeginSuited ==
    ASSUME TypeOK, AllSuited, NEW c \in Clients, Begin(c)
    PROVE  AllSuited' /\ req'[c].op \in Ops
<1>1. PICK op \in Ops, a \in Users, t \in Users, what \in Ranks \cup Dispositions,
           s \in {"read", "write"} :
          /\ Request(c, op, a, t, what, s)
          /\ op \in {"remove", "leave"} => what = "NONE"
          /\ op = "role" => what \in Roles
  BY BeginAsks
<1>2. Suited(req'[c]) /\ req'[c].op = op
  BY <1>1 DEF Request, TypeOK, Suited
<1>3. \A d \in Clients \ {c} : req'[d] = req[d]
  BY <1>1 DEF Request, TypeOK
<1> QED BY <1>1, <1>2, <1>3 DEF AllSuited, Suited

(***************************************************************************)
(* Types and suited requests are kept together.                             *)
(***************************************************************************)
LEMMA NextTypes ==
    ASSUME TypeOK, AllSuited, [Next]_vars
    PROVE  TypeOK' /\ AllSuited'
<1>1. CASE UNCHANGED vars
  BY <1>1 DEF TypeOK, AllSuited, Suited, vars, workspace
<1>2. CASE LeaveRoom
  BY <1>2 DEF TypeOK, AllSuited, Suited, LeaveRoom, workspace
<1>3. ASSUME NEW c \in Clients, Begin(c) PROVE TypeOK' /\ AllSuited'
  BY <1>3, BeginTypes, BeginSuited
<1>4. ASSUME NEW c \in Clients, Continue(c) PROVE TypeOK' /\ AllSuited'
  <2>1. \A d \in Clients : req'[d] = NoRequest \/ Same(req[d], req'[d])
    BY <1>4, ContinueRequests
  <2>2. AllSuited'
    BY <2>1 DEF AllSuited, Suited, Same, NoRequest
  <2> QED BY <1>4, <2>2, ContinueTypes
<1> QED BY <1>1, <1>2, <1>3, <1>4 DEF Next

(***************************************************************************)
(* A new workspace has its founders and its staff, and no requests.         *)
(***************************************************************************)
LEMMA InitTypes == Init => TypeOK /\ AllSuited
<1> SUFFICES ASSUME Init PROVE TypeOK /\ AllSuited
  OBVIOUS
<1>1. req \in [Clients -> Requests \cup {NoRequest}]
  BY DEF Init
<1>2. AllSuited
  BY DEF Init, AllSuited, Suited, NoRequest
<1>3. role \in [Users -> Roles \cup {"NONE"}]
  BY DEF Init, Roles
<1>4. invites \subseteq Users \X Users
  BY MembershipAssumption DEF Init
<1> QED BY <1>1, <1>2, <1>3, <1>4 DEF Init, TypeOK

(***************************************************************************)
(* Type correctness: members hold roles, a workspace that is gone has       *)
(* neither members nor invitations, and requests are well formed, whatever  *)
(* the plugin rechecks and whichever audit rows fail.                       *)
(***************************************************************************)
THEOREM MemberTypesKept == Spec => []TypeOK
<1>1. Init => TypeOK /\ AllSuited
  BY InitTypes
<1>2. (TypeOK /\ AllSuited) /\ [Next]_vars => (TypeOK /\ AllSuited)'
  BY NextTypes
<1> QED BY <1>1, <1>2, PTL DEF Spec

-----------------------------------------------------------------------------
(* Operations that are not called *)

Spared(ops) == \A c \in Clients : req[c].op \notin ops

(***************************************************************************)
(* An operation that no client calls has no request in flight.              *)
(***************************************************************************)
LEMMA StaysSpared ==
    ASSUME NEW ops, Ops \cap ops = {}, "none" \notin ops,
           TypeOK, AllSuited, Spared(ops), [Next]_vars
    PROVE  Spared(ops)'
<1>1. CASE UNCHANGED vars
  BY <1>1 DEF Spared, vars
<1>2. CASE LeaveRoom
  BY <1>2 DEF Spared, LeaveRoom
<1>3. ASSUME NEW c \in Clients, Begin(c) PROVE Spared(ops)'
  <2>1. req'[c].op \in Ops
    BY <1>3, BeginSuited
  <2>2. \A d \in Clients \ {c} : req'[d] = req[d]
    BY <1>3 DEF Begin, BeginFound, BeginDissolve, BeginRemove, BeginRole, BeginLeave, BeginAccept,
                BeginErase, BeginJoin, Request, TypeOK
  <2> QED BY <2>1, <2>2 DEF Spared
<1>4. ASSUME NEW c \in Clients, Continue(c) PROVE Spared(ops)'
  <2>1. \A d \in Clients : req'[d] = NoRequest \/ Same(req[d], req'[d])
    BY <1>4, ContinueRequests
  <2> QED BY <2>1 DEF Spared, Same, NoRequest
<1> QED BY <1>1, <1>2, <1>3, <1>4 DEF Next

-----------------------------------------------------------------------------
(* Tombstones *)

Givers == {"found", "accept"}

(***************************************************************************)
(* A step that hands out no membership hands none to an erased account:     *)
(* a write changes a row that is there, an erasure empties the account's,   *)
(* and an heir already has one.                                             *)
(***************************************************************************)
LEMMA TombstonesKept ==
    ASSUME TypeOK, AllSuited, Spared(Givers), NoTombstoneMembers, [Next]_vars
    PROVE  NoTombstoneMembers'
<1>1. CASE UNCHANGED <<role, deleted>>
  BY <1>1 DEF NoTombstoneMembers
<1>2. ASSUME NEW c \in Clients, WriteMember(c) PROVE NoTombstoneMembers'
  <2>1. role[req[c].target] # "NONE" /\ deleted' = deleted
    BY <1>2 DEF WriteMember, Permitted
  <2>2. req[c].target \notin deleted
    BY <2>1 DEF NoTombstoneMembers
  <2>3. \A u \in deleted : role'[u] = role[u]
    BY <1>2, <2>2 DEF WriteMember, TypeOK
  <2> QED BY <2>1, <2>3 DEF NoTombstoneMembers
<1>3. ASSUME NEW c \in Clients, Dissolve(c) PROVE NoTombstoneMembers'
  BY <1>3 DEF NoTombstoneMembers, Dissolve, TypeOK
<1>4. ASSUME NEW c \in Clients, Erase(c) PROVE NoTombstoneMembers'
  <2>1. deleted' = deleted \cup {req[c].actor}
    BY <1>4 DEF Erase
  <2>2. req[c].actor \in Users /\ deleted \subseteq Users
    BY <1>4, ContinueMovesOn DEF Continue, Requests, TypeOK
  <2>3. role'[req[c].actor] = "NONE"
    BY <1>4, <2>2 DEF Erase
  <2>4. req[c].to = "transfer" => req[c].target \notin deleted
    BY <1>4 DEF Erase, NoTombstoneMembers
  <2>5. \A u \in deleted : role'[u] = "NONE"
    BY <1>4, <2>2, <2>4 DEF Erase, NoTombstoneMembers
  <2> QED BY <2>1, <2>3, <2>5 DEF NoTombstoneMembers
<1>5. ASSUME NEW c \in Clients, Found(c) \/ Accept(c) PROVE FALSE
  BY <1>5 DEF Found, Accept, At, Spared, Givers
<1>6. ASSUME NEW c \in Clients, Begin(c) PROVE UNCHANGED <<role, deleted>>
  BY <1>6 DEF Begin, BeginFound, BeginDissolve, BeginRemove, BeginRole, BeginLeave, BeginAccept,
              BeginErase, BeginJoin, Request, workspace
<1>7. ASSUME NEW c \in Clients,
             \/ ReadMember(c) \/ CountOwners(c) \/ ListMemberships(c) \/ MatchDispositions(c)
             \/ ReadHeir(c) \/ GiveUp(c) \/ Record(c) \/ Evict(c) \/ CheckMembership(c)
             \/ EnterRoom(c)
      PROVE  UNCHANGED <<role, deleted>>
  BY <1>7 DEF ReadMember, CountOwners, ListMemberships, MatchDispositions, ReadHeir, GiveUp,
              Record, Evict, CheckMembership, EnterRoom, workspace
<1> QED BY <1>1, <1>2, <1>3, <1>4, <1>5, <1>6, <1>7
        DEF Next, Continue, LeaveRoom, vars, workspace

(***************************************************************************)
(* An erased account never holds a membership again, however removals, role *)
(* changes, departures, erasures and joins interleave, as long as nobody    *)
(* accepts an invitation or founds a workspace: those two ask the session,  *)
(* not deletedAt (common/deleted-account.ts).                               *)
(***************************************************************************)
THEOREM TombstonesStayOut ==
    Ops \cap {"found", "accept"} = {} => (Spec => []NoTombstoneMembers)
<1> SUFFICES ASSUME Ops \cap Givers = {} PROVE Spec => []NoTombstoneMembers
  BY DEF Givers
<1> DEFINE IInv == TypeOK /\ AllSuited /\ Spared(Givers) /\ NoTombstoneMembers
<1>1. Init => IInv
  <2> SUFFICES ASSUME Init PROVE IInv
    OBVIOUS
  <2>1. Spared(Givers) /\ NoTombstoneMembers
    BY DEF Init, Spared, NoRequest, Givers, NoTombstoneMembers
  <2> QED BY <2>1, InitTypes
<1>2. IInv /\ [Next]_vars => IInv'
  <2>1. "none" \notin Givers
    BY DEF Givers
  <2> QED BY <2>1, NextTypes, TombstonesKept, StaysSpared
<1> QED BY <1>1, <1>2, PTL DEF Spec

-----------------------------------------------------------------------------
(* Owners *)

(***************************************************************************)
(* Where there is more than one owner, there is another.                    *)
(***************************************************************************)
LEMMA AnotherOwner ==
    ASSUME ~LastOwner, NEW t
    PROVE  \E u \in Owners : u # t
<1>1. IsFiniteSet(Owners) /\ Cardinality(Owners) \in Nat
  BY MembershipAssumption, FS_Subset, FS_CardinalityType DEF Owners
<1>2. SUFFICES ASSUME Owners \ {t} = {} PROVE FALSE
  OBVIOUS
<1>3. Cardinality(Owners \ {t}) =
          IF t \in Owners THEN Cardinality(Owners) - 1 ELSE Cardinality(Owners)
  BY <1>1, FS_RemoveElement
<1>4. Cardinality(Owners \ {t}) = 0
  BY <1>2, FS_EmptySet
<1> QED BY <1>1, <1>3, <1>4 DEF LastOwner

(***************************************************************************)
(* No step but an erasure takes the last owner, if the plugin counts again. *)
(***************************************************************************)
LEMMA OwnersKept ==
    ASSUME PluginRechecks, TypeOK, AllSuited, Spared({"erase"}), AlwaysAnOwner, [Next]_vars
    PROVE  AlwaysAnOwner'
<1>1. CASE UNCHANGED <<exists, role>>
  BY <1>1 DEF AlwaysAnOwner, Owners
<1>2. ASSUME NEW c \in Clients, WriteMember(c) PROVE AlwaysAnOwner'
  <2> DEFINE t == req[c].target
  <2>1. \A u \in Users : u # t => role'[u] = role[u]
    BY <1>2 DEF WriteMember, TypeOK
  <2>2. CASE role[t] = "OWNER"
    <3>1. PICK u \in Owners : u # t
      BY <1>2, <2>2, AnotherOwner DEF WriteMember, Permitted
    <3> QED BY <2>1, <3>1 DEF AlwaysAnOwner, Owners
  <2>3. CASE role[t] # "OWNER"
    BY <1>2, <2>1, <2>3 DEF AlwaysAnOwner, Owners, WriteMember
  <2> QED BY <2>2, <2>3
<1>3. ASSUME NEW c \in Clients, Found(c) PROVE AlwaysAnOwner'
  <2>1. req[c].actor \in Users
    BY <1>3, ContinueMovesOn DEF Continue, Requests
  <2>2. role'[req[c].actor] = "OWNER"
    BY <1>3, <2>1 DEF Found, TypeOK
  <2> QED BY <2>1, <2>2 DEF AlwaysAnOwner, Owners
<1>4. ASSUME NEW c \in Clients, Dissolve(c) PROVE AlwaysAnOwner'
  BY <1>4 DEF AlwaysAnOwner, Dissolve
<1>5. ASSUME NEW c \in Clients, Accept(c) PROVE AlwaysAnOwner'
  <2>1. \A u \in Users : role[u] = "OWNER" => role'[u] = "OWNER"
    BY <1>5 DEF Accept, TypeOK
  <2> QED BY <1>5, <2>1 DEF AlwaysAnOwner, Owners, Accept
<1>6. ASSUME NEW c \in Clients, Erase(c) PROVE FALSE
  BY <1>6 DEF Erase, At, Spared
<1>7. ASSUME NEW c \in Clients, Begin(c) PROVE UNCHANGED <<exists, role>>
  BY <1>7 DEF Begin, BeginFound, BeginDissolve, BeginRemove, BeginRole, BeginLeave, BeginAccept,
              BeginErase, BeginJoin, Request, workspace
<1>8. ASSUME NEW c \in Clients,
             \/ ReadMember(c) \/ CountOwners(c) \/ ListMemberships(c) \/ MatchDispositions(c)
             \/ ReadHeir(c) \/ GiveUp(c) \/ Record(c) \/ Evict(c) \/ CheckMembership(c)
             \/ EnterRoom(c)
      PROVE  UNCHANGED <<exists, role>>
  BY <1>8 DEF ReadMember, CountOwners, ListMemberships, MatchDispositions, ReadHeir, GiveUp,
              Record, Evict, CheckMembership, EnterRoom, workspace
<1> QED BY <1>1, <1>2, <1>3, <1>4, <1>5, <1>6, <1>7, <1>8
        DEF Next, Continue, LeaveRoom, vars, workspace

(***************************************************************************)
(* A workspace has an owner through any interleaving of removals, demotions *)
(* and departures, as long as the plugin counts the owners again with its   *)
(* write and no account is erased: an erasure writes without a count.       *)
(***************************************************************************)
THEOREM OwnedWithoutErasure ==
    PluginRechecks /\ "erase" \notin Ops => (Spec => []AlwaysAnOwner)
<1> SUFFICES ASSUME PluginRechecks, "erase" \notin Ops PROVE Spec => []AlwaysAnOwner
  OBVIOUS
<1> DEFINE IInv == TypeOK /\ AllSuited /\ Spared({"erase"}) /\ AlwaysAnOwner
<1>1. Init => IInv
  <2> SUFFICES ASSUME Init PROVE IInv
    OBVIOUS
  <2>1. Spared({"erase"})
    BY DEF Init, Spared, NoRequest
  <2>2. AlwaysAnOwner
    BY MembershipAssumption DEF Init, AlwaysAnOwner, Owners
  <2> QED BY <2>1, <2>2, InitTypes
<1>2. IInv /\ [Next]_vars => IInv'
  BY NextTypes, OwnersKept, StaysSpared
<1> QED BY <1>1, <1>2, PTL DEF Spec

-----------------------------------------------------------------------------
(* Owners, one request at a time *)

OneAtATime == \A c, d \in Clients : c = d

(***************************************************************************)
(* What a request has counted or read of the owners before it writes still  *)
(* holds: an owner it demotes, removes or erases is not the last, and the   *)
(* account it hands the workspace to is another.                            *)
(***************************************************************************)
Counted(c) ==
    LET r == req[c]
    IN  /\ r.op = "erase" => r.to \in Dispositions
        /\ At(c, {"remove", "role", "leave"}, "write") /\ role[r.target] = "OWNER" => ~LastOwner
        /\ At(c, {"erase"}, "heir") => r.to = "transfer"
        /\ At(c, {"erase"}, "write") =>
              /\ r.to = "transfer" => r.target # r.actor
              /\ r.to = "undecided" /\ role[r.actor] = "OWNER" => ~LastOwner

(***************************************************************************)
(* A request that begins has counted nothing, and writes nothing at once    *)
(* that takes an owner.                                                     *)
(***************************************************************************)
LEMMA BeginCounted ==
    ASSUME TypeOK, NEW c \in Clients, Begin(c)
    PROVE  Counted(c)' /\ UNCHANGED <<exists, role>>
<1>1. PICK op \in Ops, a \in Users, t \in Users, what \in Ranks \cup Dispositions,
           s \in {"read", "write"} :
          /\ Request(c, op, a, t, what, s)
          /\ op = "erase" => what \in Dispositions
          /\ op \in {"remove", "role", "leave", "erase"} => s = "read"
  <2>0. \A op, a, t, what, s : Request(c, op, a, t, what, s) => op \in Ops
    BY DEF Request
  <2>1. CASE \/ BeginFound(c) \/ BeginDissolve(c) \/ BeginRemove(c) \/ BeginRole(c)
             \/ BeginLeave(c) \/ BeginErase(c) \/ BeginJoin(c)
    BY <2>0, <2>1 DEF BeginFound, BeginDissolve, BeginRemove, BeginRole, BeginLeave, BeginErase,
                      BeginJoin, Ranks
  <2>2. CASE BeginAccept(c)
    <3>1. PICK i \in invites : Request(c, "accept", i[2], i[2], "NONE", "write")
      BY <2>2 DEF BeginAccept
    <3>2. i \in Users \X Users
      BY DEF TypeOK
    <3>3. i[2] \in Users /\ "NONE" \in Ranks
      BY <3>2 DEF Ranks
    <3> QED
      BY <2>0, <3>1, <3>3
  <2> QED
    BY <2>1, <2>2 DEF Begin
<1>2. /\ req'[c].op = op /\ req'[c].to = what /\ req'[c].step = s
      /\ UNCHANGED <<exists, role>>
  BY <1>1 DEF Request, TypeOK, workspace
<1> QED
  BY <1>1, <1>2 DEF Counted, At

\* The same caller asks for the same thing.
SameWork(r, q) == q.op = r.op /\ q.actor = r.actor /\ q.target = r.target /\ q.to = r.to

(***************************************************************************)
(* What a request reads or counts holds when it writes, as nobody else has  *)
(* written since.                                                           *)
(***************************************************************************)
LEMMA ContinueCounted ==
    ASSUME TypeOK, NEW c \in Clients, Continue(c), Counted(c)
    PROVE  Counted(c)'
<1> DEFINE r == req[c]
           q == req'[c]
<1>1. r \in Requests /\ (q = NoRequest \/ SameWork(r, q))
  <2>1. PICK found \in Ranks, replaced \in Ranks, s \in Steps : MovedOn(c, found, replaced, s)
    BY ContinueMovesOn
  <2>2. r \in Requests
    BY ContinueMovesOn
  <2> QED
    BY <2>1, <2>2 DEF MovedOn, End, Step, SameWork, TypeOK, Requests
<1>2. CASE q = NoRequest
  BY <1>2 DEF Counted, At, NoRequest
<1>3. CASE SameWork(r, q) /\ q.step \notin {"write", "heir"}
  BY <1>3 DEF Counted, At, SameWork
<1>4. ASSUME q.step \in {"write", "heir"}
      PROVE  \/ ReadMember(c) \/ CountOwners(c) \/ ListMemberships(c) \/ MatchDispositions(c)
             \/ ReadHeir(c)
  <2>1. CASE GiveUp(c) \/ Found(c) \/ Dissolve(c) \/ Accept(c) \/ EnterRoom(c)
    BY <1>4, <2>1 DEF GiveUp, Found, Dissolve, Accept, EnterRoom, End, NoRequest, TypeOK
  <2>2. CASE WriteMember(c)
    <3>1. q.step \in {"evict", "record"}
      BY <1>1, <2>2 DEF WriteMember, TypeOK, Requests
    <3> QED
      BY <1>4, <3>1
  <2>3. CASE Erase(c)
    <3>1. q.step \in {"none", "evict"}
      BY <1>1, <2>3 DEF Erase, TypeOK, Requests, End, Step, NoRequest
    <3> QED
      BY <1>4, <3>1
  <2>4. CASE Record(c) \/ Evict(c)
    <3>1. q.step \in {"none", "evict", "record"}
      BY <1>1, <2>4 DEF Record, Evict, TypeOK, Requests, End, Step, NoRequest
    <3> QED
      BY <1>4, <3>1
  <2>5. CASE CheckMembership(c)
    <3>1. q.step \in {"none", "enter"}
      BY <1>1, <2>5 DEF CheckMembership, TypeOK, Requests, End, Step, NoRequest
    <3> QED
      BY <1>4, <3>1
  <2> QED
    BY <2>1, <2>2, <2>3, <2>4, <2>5 DEF Continue
<1>5. CASE SameWork(r, q) /\ q.step = "heir"
  <2>1. r.op = "erase" => r.to = "transfer"
    <3>1. CASE MatchDispositions(c)
      <4>1. CASE LastOwner # (r.to # "undecided")
        BY <1>5, <3>1, <4>1 DEF MatchDispositions, TypeOK, End, NoRequest
      <4>2. CASE ~(LastOwner # (r.to # "undecided"))
        BY <1>1, <1>5, <3>1, <4>2 DEF MatchDispositions, TypeOK, Step, Requests
      <4> QED
        BY <4>1, <4>2
    <3>2. CASE ReadHeir(c) \/ ReadMember(c) \/ CountOwners(c)
      BY <3>2 DEF ReadHeir, ReadMember, CountOwners, At, Counted
    <3>3. CASE ListMemberships(c)
      BY <1>1, <1>5, <3>3 DEF ListMemberships, TypeOK, Requests, End, NoRequest
    <3> QED
      BY <1>4, <1>5, <3>1, <3>2, <3>3
  <2>2. r.op = "erase" => r.to \in Dispositions
    BY DEF Counted
  <2> QED
    BY <1>5, <2>1, <2>2 DEF Counted, At, SameWork
<1>6. CASE SameWork(r, q) /\ q.step = "write"
  <2>1. UNCHANGED role
    BY <1>4, <1>6 DEF ReadMember, CountOwners, ListMemberships, MatchDispositions, ReadHeir, workspace
  <2>2. q.op = r.op /\ q.actor = r.actor /\ q.target = r.target /\ q.to = r.to
    BY <1>6 DEF SameWork
  <2>3. LastOwner' <=> LastOwner
    BY <2>1 DEF LastOwner, Owners
  <2>4. r.op = "erase" => r.to \in Dispositions
    BY DEF Counted
  <2>5. CASE ReadMember(c)
    <3>1. r.op \in {"remove", "role", "leave"} /\ role[r.target] # "OWNER"
      BY <1>1, <1>6, <2>5 DEF ReadMember, At, TypeOK, End, NoRequest, Requests
    <3> QED
      BY <2>1, <2>2, <3>1 DEF Counted, At
  <2>6. CASE CountOwners(c)
    <3>1. r.op \in {"remove", "role", "leave"} /\ ~LastOwner
      BY <1>6, <2>6 DEF CountOwners, At, TypeOK, End, NoRequest
    <3> QED
      BY <2>1, <2>2, <2>3, <3>1 DEF Counted, At
  <2>7. CASE ListMemberships(c)
    <3>1. r.op = "erase" /\ role[r.actor] # "OWNER" /\ r.to = "undecided"
      BY <1>1, <1>6, <2>7 DEF ListMemberships, At, TypeOK, End, NoRequest, Requests
    <3> QED
      BY <1>6, <2>1, <2>2, <2>4, <3>1 DEF Counted, At
  <2>8. CASE MatchDispositions(c)
    <3>1. r.op = "erase" /\ r.to # "transfer" /\ (r.to = "undecided" => ~LastOwner)
      <4>1. CASE LastOwner # (r.to # "undecided")
        BY <1>6, <2>8, <4>1 DEF MatchDispositions, TypeOK, End, NoRequest
      <4>2. CASE ~(LastOwner # (r.to # "undecided"))
        <5>1. q.step = IF r.to = "transfer" THEN "heir" ELSE "write"
          BY <1>1, <2>8, <4>2 DEF MatchDispositions, TypeOK, Step, Requests
        <5>2. r.op = "erase"
          BY <2>8 DEF MatchDispositions, At
        <5> QED
          BY <1>6, <4>2, <5>1, <5>2
      <4> QED
        BY <4>1, <4>2
    <3> QED
      BY <1>6, <2>1, <2>2, <2>3, <2>4, <3>1 DEF Counted, At
  <2>9. CASE ReadHeir(c)
    <3>1. r.op = "erase" /\ r.target # r.actor /\ r.to = "transfer"
      BY <1>6, <2>9 DEF Counted, ReadHeir, At, TypeOK, End, NoRequest
    <3> QED
      BY <2>1, <2>2, <3>1 DEF Counted, At
  <2> QED
    BY <1>4, <1>6, <2>5, <2>6, <2>7, <2>8, <2>9
<1> QED
  BY <1>1, <1>2, <1>3, <1>5, <1>6

(***************************************************************************)
(* A write takes no last owner when what was counted still holds.           *)
(***************************************************************************)
LEMMA CountedKeepsOwners ==
    ASSUME TypeOK, AllSuited, AlwaysAnOwner, NEW c \in Clients, Counted(c), Continue(c)
    PROVE  AlwaysAnOwner'
<1>0. req[c] \in Requests
  BY ContinueMovesOn
<1>1. CASE WriteMember(c)
  <2> DEFINE t == req[c].target
  <2>1. \A u \in Users : u # t => role'[u] = role[u]
    BY <1>1 DEF WriteMember, TypeOK
  <2>2. CASE role[t] = "OWNER"
    <3>1. ~LastOwner
      BY <1>1, <2>2 DEF Counted, WriteMember
    <3>2. PICK u \in Owners : u # t
      BY <3>1, AnotherOwner
    <3> QED
      BY <2>1, <3>2 DEF AlwaysAnOwner, Owners
  <2>3. CASE role[t] # "OWNER"
    BY <1>1, <2>1, <2>3 DEF AlwaysAnOwner, Owners, WriteMember
  <2> QED
    BY <2>2, <2>3
<1>2. CASE Erase(c)
  <2> DEFINE r == req[c]
  <2>1. /\ At(c, {"erase"}, "write") /\ r.to \in Dispositions
        /\ r.to = "transfer" => r.target # r.actor
        /\ r.to = "undecided" /\ role[r.actor] = "OWNER" => ~LastOwner
    BY <1>2 DEF Erase, Counted, At
  <2>2. CASE r.to = "delete"
    BY <1>2, <2>2 DEF Erase, AlwaysAnOwner
  <2>3. CASE r.to = "transfer"
    <3>1. r.target \in Users /\ role'[r.target] = "OWNER"
      BY <1>0, <1>2, <2>1, <2>3 DEF Erase, Requests
    <3> QED
      BY <3>1 DEF AlwaysAnOwner, Owners
  <2>4. CASE r.to = "undecided"
    <3>1. exists' = exists /\ \A u \in Users : u # r.actor => role'[u] = role[u]
      BY <1>2, <2>4 DEF Erase, TypeOK
    <3>2. CASE role[r.actor] = "OWNER"
      <4>1. PICK u \in Owners : u # r.actor
        BY <2>1, <2>4, <3>2, AnotherOwner
      <4> QED
        BY <3>1, <4>1 DEF AlwaysAnOwner, Owners
    <3>3. CASE role[r.actor] # "OWNER"
      BY <3>1, <3>3 DEF AlwaysAnOwner, Owners
    <3> QED
      BY <3>2, <3>3
  <2> QED
    BY <2>1, <2>2, <2>3, <2>4 DEF Dispositions
<1>3. CASE Found(c)
  <2>1. req[c].actor \in Users /\ role'[req[c].actor] = "OWNER"
    BY <1>0, <1>3 DEF Found, TypeOK, Requests
  <2> QED
    BY <2>1 DEF AlwaysAnOwner, Owners
<1>4. CASE Dissolve(c)
  BY <1>4 DEF AlwaysAnOwner, Dissolve
<1>5. CASE Accept(c)
  <2>1. \A u \in Users : role[u] = "OWNER" => role'[u] = "OWNER"
    BY <1>5 DEF Accept, TypeOK
  <2> QED
    BY <1>5, <2>1 DEF AlwaysAnOwner, Owners, Accept
<1>6. CASE \/ ReadMember(c) \/ CountOwners(c) \/ ListMemberships(c) \/ MatchDispositions(c)
           \/ ReadHeir(c) \/ GiveUp(c) \/ Record(c) \/ Evict(c) \/ CheckMembership(c) \/ EnterRoom(c)
  <2>1. UNCHANGED <<exists, role>>
    BY <1>6 DEF ReadMember, CountOwners, ListMemberships, MatchDispositions, ReadHeir, GiveUp,
                Record, Evict, CheckMembership, EnterRoom, workspace
  <2> QED
    BY <2>1 DEF AlwaysAnOwner, Owners
<1> QED
  BY <1>1, <1>2, <1>3, <1>4, <1>5, <1>6 DEF Continue

(***************************************************************************)
(* WorkspaceService, WorkspaceMemberService and AccountDeletionService keep *)
(* an owner by their own counts, whatever the plugin rechecks and though    *)
(* accounts are erased, when requests come one at a time: it is the         *)
(* interleavings that the counts do not cover.                              *)
(***************************************************************************)
THEOREM OwnedOneAtATime == OneAtATime => (Spec => []AlwaysAnOwner)
<1> SUFFICES ASSUME OneAtATime PROVE Spec => []AlwaysAnOwner
  OBVIOUS
<1> DEFINE IInv == TypeOK /\ AllSuited /\ AlwaysAnOwner /\ \A c \in Clients : Counted(c)
<1>1. Init => IInv
  <2> SUFFICES ASSUME Init PROVE IInv
    OBVIOUS
  <2>1. AlwaysAnOwner
    BY MembershipAssumption DEF Init, AlwaysAnOwner, Owners
  <2>2. \A c \in Clients : Counted(c)
    BY DEF Init, Counted, At, NoRequest
  <2> QED
    BY <2>1, <2>2, InitTypes
<1>2. IInv /\ [Next]_vars => IInv'
  <2> SUFFICES ASSUME IInv, [Next]_vars PROVE IInv'
    OBVIOUS
  <2>1. TypeOK' /\ AllSuited'
    BY NextTypes
  <2>2. CASE UNCHANGED <<exists, role, req>>
    BY <2>1, <2>2 DEF AlwaysAnOwner, Owners, Counted, At, LastOwner
  <2>3. ASSUME NEW c \in Clients, Begin(c) PROVE IInv'
    <3>1. Counted(c)' /\ UNCHANGED <<exists, role>>
      BY <2>3, BeginCounted
    <3>2. \A d \in Clients : d = c
      BY DEF OneAtATime
    <3> QED
      BY <2>1, <3>1, <3>2 DEF AlwaysAnOwner, Owners
  <2>4. ASSUME NEW c \in Clients, Continue(c) PROVE IInv'
    <3>1. Counted(c)' /\ AlwaysAnOwner'
      BY <2>4, ContinueCounted, CountedKeepsOwners
    <3>2. \A d \in Clients : d = c
      BY DEF OneAtATime
    <3> QED
      BY <2>1, <3>1, <3>2
  <2> QED
    BY <2>2, <2>3, <2>4 DEF Next, LeaveRoom, vars, workspace
<1> QED
  BY <1>1, <1>2, PTL DEF Spec

-----------------------------------------------------------------------------
(* Rooms *)

(***************************************************************************)
(* A request that took a membership away and has not evicted its sockets.   *)
(***************************************************************************)
Leaving(c, u) ==
    /\ req[c].op \in {"remove", "leave", "erase"}
    /\ req[c].step \in {"record", "evict"}
    /\ req[c].op = "remove" => req[c].step = "evict"
    /\ Evicted(req[c]) = u

(***************************************************************************)
(* An erasure that found no membership will find none when it writes.       *)
(***************************************************************************)
NothingToLose ==
    \A c \in Clients :
        /\ req[c].op = "erase" /\ req[c].step \in {"count", "heir", "write"}
        /\ req[c].found = "NONE"
        => role[req[c].actor] = "NONE"

(***************************************************************************)
(* A request is as it was, or it is the one that steps.                     *)
(***************************************************************************)
LEMMA OneMoves ==
    ASSUME TypeOK, [Next]_vars, NEW d \in Clients
    PROVE  req'[d] = req[d] \/ Begin(d) \/ Continue(d)
<1>1. ASSUME NEW c \in Clients, Begin(c), c # d PROVE req'[d] = req[d]
  BY <1>1 DEF Begin, BeginFound, BeginDissolve, BeginRemove, BeginRole, BeginLeave, BeginAccept,
              BeginErase, BeginJoin, Request, TypeOK
<1>2. ASSUME NEW c \in Clients, Continue(c), c # d PROVE req'[d] = req[d]
  <2>1. PICK found \in Ranks, replaced \in Ranks, s \in Steps : MovedOn(c, found, replaced, s)
    BY <1>2, ContinueMovesOn
  <2> QED BY <1>2, <2>1 DEF MovedOn, End, Step, TypeOK
<1> QED BY <1>1, <1>2 DEF Next, LeaveRoom, vars

(***************************************************************************)
(* Memberships change with five sorts of write only.                        *)
(***************************************************************************)
LEMMA WritersOnly ==
    ASSUME [Next]_vars
    PROVE  \/ UNCHANGED <<exists, role>>
           \/ \E c \in Clients : WriteMember(c) \/ Found(c) \/ Dissolve(c) \/ Accept(c) \/ Erase(c)
<1>1. ASSUME NEW c \in Clients, Begin(c) PROVE UNCHANGED <<exists, role>>
  BY <1>1 DEF Begin, BeginFound, BeginDissolve, BeginRemove, BeginRole, BeginLeave, BeginAccept,
              BeginErase, BeginJoin, Request, workspace
<1>2. ASSUME NEW c \in Clients,
             \/ ReadMember(c) \/ CountOwners(c) \/ ListMemberships(c) \/ MatchDispositions(c)
             \/ ReadHeir(c) \/ GiveUp(c) \/ Record(c) \/ Evict(c) \/ CheckMembership(c)
             \/ EnterRoom(c)
      PROVE  UNCHANGED <<exists, role>>
  BY <1>2 DEF ReadMember, CountOwners, ListMemberships, MatchDispositions, ReadHeir, GiveUp,
              Record, Evict, CheckMembership, EnterRoom, workspace
<1> QED BY <1>1, <1>2 DEF Next, Continue, LeaveRoom, vars, workspace

(***************************************************************************)
(* Where nobody founds a workspace or accepts an invitation, who has no      *)
(* membership gets none.                                                    *)
(***************************************************************************)
LEMMA StrangersStay ==
    ASSUME TypeOK, Spared(Givers), [Next]_vars, NEW u \in Users, role[u] = "NONE"
    PROVE  role'[u] = "NONE"
<1>1. CASE UNCHANGED role
  BY <1>1
<1>2. ASSUME NEW c \in Clients, WriteMember(c) PROVE role'[u] = "NONE"
  BY <1>2 DEF WriteMember, Permitted, TypeOK
<1>3. ASSUME NEW c \in Clients, Dissolve(c) PROVE role'[u] = "NONE"
  BY <1>3 DEF Dissolve
<1>4. ASSUME NEW c \in Clients, Erase(c) PROVE role'[u] = "NONE"
  BY <1>4 DEF Erase
<1>5. ASSUME NEW c \in Clients, Found(c) \/ Accept(c) PROVE FALSE
  BY <1>5 DEF Found, Accept, At, Spared, Givers
<1> QED BY <1>1, <1>2, <1>3, <1>4, <1>5, WritersOnly

(***************************************************************************)
(* Erasures that found nothing go on having nothing to lose.                *)
(***************************************************************************)
LEMMA NothingStaysNothing ==
    ASSUME TypeOK, AllSuited, Spared(Givers), NothingToLose, [Next]_vars
    PROVE  NothingToLose'
<1> SUFFICES ASSUME NEW d \in Clients,
                    req'[d].op = "erase", req'[d].step \in {"count", "heir", "write"},
                    req'[d].found = "NONE"
             PROVE  role'[req'[d].actor] = "NONE"
  BY DEF NothingToLose
<1>1. CASE req'[d] = req[d]
  <2>1. req[d] \in Requests /\ role[req[d].actor] = "NONE"
    BY <1>1, AtIsRequest DEF NothingToLose
  <2> QED BY <1>1, <2>1, StrangersStay DEF Requests
<1>2. CASE Begin(d)
  <2>1. req'[d].op = "erase" => req'[d].step = "read"
    BY <1>2 DEF Begin, BeginFound, BeginDissolve, BeginRemove, BeginRole, BeginLeave, BeginAccept,
                BeginErase, BeginJoin, Request, TypeOK
  <2> QED BY <2>1
<1>3. CASE Continue(d)
  <2>1. req[d] \in Requests
    BY <1>3, ContinueMovesOn
  <2>2. CASE ListMemberships(d)
    <3> DEFINE found == role[req[d].actor]
    <3>1. \/ req' = [req EXCEPT ![d].found = found, ![d].step = "count"]
          \/ req' = [req EXCEPT ![d].found = found, ![d].step = "write"]
          \/ req' = [req EXCEPT ![d] = NoRequest]
      BY <2>2 DEF ListMemberships, End
    <3>2. req'[d].actor = req[d].actor /\ req'[d].found = found
      <4> HIDE DEF found
      <4>1. CASE req' = [req EXCEPT ![d].found = found, ![d].step = "count"]
        BY <2>1, <4>1 DEF TypeOK, Requests
      <4>2. CASE req' = [req EXCEPT ![d].found = found, ![d].step = "write"]
        BY <2>1, <4>2 DEF TypeOK, Requests
      <4>3. CASE req' = [req EXCEPT ![d] = NoRequest]
        BY <4>3 DEF TypeOK, NoRequest
      <4> QED BY <3>1, <4>1, <4>2, <4>3
    <3>3. role' = role
      BY <2>2 DEF ListMemberships, workspace
    <3> QED BY <3>2, <3>3
  <2>3. CASE MatchDispositions(d) \/ ReadHeir(d)
    <3>1. /\ req[d].op = "erase" /\ req[d].step \in {"count", "heir"}
          /\ req'[d].actor = req[d].actor /\ req'[d].found = req[d].found /\ role' = role
      BY <2>1, <2>3 DEF MatchDispositions, ReadHeir, At, Step, TypeOK, End, NoRequest, workspace, Requests
    <3> QED BY <3>1 DEF NothingToLose
  <2>4. CASE Erase(d)
    <3>1. req'[d] = NoRequest \/ req'[d] = [req[d] EXCEPT !.step = "evict"]
      BY <2>1, <2>4 DEF Erase, Step, End, TypeOK
    <3> QED BY <2>1, <3>1 DEF NoRequest, Requests
  <2>5. CASE GiveUp(d) \/ Found(d) \/ Dissolve(d) \/ Accept(d) \/ EnterRoom(d)
    BY <2>5 DEF GiveUp, Found, Dissolve, Accept, EnterRoom, End, NoRequest, TypeOK
  <2>6. CASE ReadMember(d) \/ CountOwners(d) \/ WriteMember(d)
    <3>1. req'[d].op = req[d].op \/ req'[d] = NoRequest
      BY <1>3, ContinueRequests DEF Same
    <3>2. req[d].op \in {"remove", "role", "leave"}
      BY <2>6 DEF ReadMember, CountOwners, WriteMember, At
    <3> QED BY <3>1, <3>2 DEF NoRequest
  <2>7. CASE Record(d) \/ Evict(d)
    <3>1. \/ req'[d] = NoRequest
          \/ req'[d] = [req[d] EXCEPT !.step = "record"]
          \/ req'[d] = [req[d] EXCEPT !.step = "evict"]
      BY <2>1, <2>7 DEF Record, Evict, Step, End, TypeOK
    <3> QED BY <2>1, <3>1 DEF NoRequest, Requests
  <2>8. CASE CheckMembership(d)
    <3>1. req'[d].op = req[d].op \/ req'[d] = NoRequest
      BY <1>3, ContinueRequests DEF Same
    <3> QED BY <2>8, <3>1 DEF CheckMembership, At, NoRequest
  <2> QED BY <1>3, <2>2, <2>3, <2>4, <2>5, <2>6, <2>7, <2>8 DEF Continue
<1> QED BY <1>1, <1>2, <1>3, OneMoves

(***************************************************************************)
(* A request that has written stays on its way until its eviction, if audit *)
(* rows can be written; and its eviction takes its socket out of the rooms. *)
(***************************************************************************)
LEMMA LeavingEvicts ==
    ASSUME ~AuditFails, TypeOK, [Next]_vars, NEW c \in Clients, NEW u, Leaving(c, u), u \in rooms'
    PROVE  Leaving(c, u)'
<1>1. req[c] \in Requests
  BY AtIsRequest DEF Leaving
<1>2. CASE req'[c] = req[c]
  BY <1>2 DEF Leaving, Evicted
<1>3. CASE Begin(c)
  BY <1>3 DEF Begin, BeginFound, BeginDissolve, BeginRemove, BeginRole, BeginLeave, BeginAccept,
              BeginErase, BeginJoin, Request, Leaving, NoRequest
<1>4. CASE Record(c)
  <2>1. req[c].op = "leave" /\ req' = [req EXCEPT ![c].step = "evict"]
    BY <1>4 DEF Record, At, Leaving, Step
  <2> QED BY <1>1, <2>1 DEF Leaving, Evicted, TypeOK, Requests
<1>5. CASE Evict(c)
  BY <1>5 DEF Evict, Leaving
<1>6. CASE Continue(c) /\ ~Record(c) /\ ~Evict(c)
  BY <1>6 DEF Continue, ReadMember, CountOwners, ListMemberships, MatchDispositions, ReadHeir, GiveUp,
              WriteMember, Found, Dissolve, Accept, Erase, CheckMembership, EnterRoom, At, Leaving
<1> QED BY <1>2, <1>3, <1>4, <1>5, <1>6, OneMoves

(***************************************************************************)
(* Who loses a membership is left to a request that will evict them.        *)
(***************************************************************************)
LEMMA LosersLeave ==
    ASSUME TypeOK, AllSuited, NothingToLose, [Next]_vars,
           NEW u \in Users, role[u] # "NONE", role'[u] = "NONE", exists'
    PROVE  \E c \in Clients : Leaving(c, u)'
<1>1. ASSUME NEW c \in Clients, WriteMember(c) PROVE Leaving(c, u)'
  <2>1. req[c] \in Requests /\ req[c].target \in Users
    BY <1>1, ContinueMovesOn DEF Continue, Requests
  <2>2. u = req[c].target /\ req[c].to = "NONE"
    BY <1>1, <2>1 DEF WriteMember, TypeOK
  <2>3. req[c].op \in {"remove", "leave"}
    BY <1>1, <2>2 DEF WriteMember, At, AllSuited, Suited, Roles
  <2> DEFINE next == IF req[c].op = "remove" THEN "evict" ELSE "record"
  <2>4. req' = [req EXCEPT ![c].replaced = role[req[c].target], ![c].step = next]
    BY <1>1 DEF WriteMember
  <2>5. /\ req'[c].op = req[c].op /\ req'[c].target = req[c].target
        /\ req'[c].step \in {"evict", "record"}
        /\ req'[c].op = "remove" => req'[c].step = "evict"
    BY <2>1, <2>4 DEF TypeOK, Requests
  <2> QED BY <2>2, <2>3, <2>5 DEF Leaving, Evicted
<1>2. ASSUME NEW c \in Clients, Erase(c) PROVE Leaving(c, u)'
  <2>1. req[c] \in Requests /\ req[c].op = "erase" /\ req[c].step = "write"
    BY <1>2, ContinueMovesOn DEF Continue, Erase, At
  <2>2. req[c].to # "delete" /\ u = req[c].actor
    BY <1>2 DEF Erase
  <2>3. req[c].found # "NONE"
    BY <2>1, <2>2 DEF NothingToLose
  <2>4. req' = [req EXCEPT ![c].step = "evict"]
    BY <1>2, <2>2, <2>3 DEF Erase, Step
  <2> QED BY <2>1, <2>2, <2>4 DEF Leaving, Evicted, TypeOK, Requests
<1>3. ASSUME NEW c \in Clients, Dissolve(c) PROVE FALSE
  BY <1>3 DEF Dissolve
<1>4. ASSUME NEW c \in Clients, Found(c) \/ Accept(c) PROVE FALSE
  BY <1>4 DEF Found, Accept, TypeOK
<1>5. role' # role
  OBVIOUS
<1> QED BY <1>1, <1>2, <1>3, <1>4, <1>5, WritersOnly

(***************************************************************************)
(* Whoever is in a room without a membership is about to be evicted.        *)
(***************************************************************************)
EvictionsAhead ==
    \A u \in rooms : exists /\ role[u] = "NONE" => \E c \in Clients : Leaving(c, u)

Entrants == {"found", "accept", "join"}

(***************************************************************************)
(* An eviction stays ahead of everyone in a room without a membership.      *)
(***************************************************************************)
LEMMA EvictionsStayAhead ==
    ASSUME ~AuditFails, TypeOK, AllSuited, Spared(Entrants), NothingToLose, EvictionsAhead, [Next]_vars
    PROVE  EvictionsAhead'
<1> SUFFICES ASSUME NEW u \in rooms', exists', role'[u] = "NONE"
             PROVE  \E c \in Clients : Leaving(c, u)'
  BY DEF EvictionsAhead
<1>1. u \in rooms /\ u \in Users
  <2>1. \A c \in Clients : ~EnterRoom(c) /\ ~Found(c)
    BY DEF EnterRoom, Found, At, Spared, Entrants
  <2>2. ASSUME NEW c \in Clients, Begin(c) PROVE rooms' = rooms
    BY <2>2 DEF Begin, BeginFound, BeginDissolve, BeginRemove, BeginRole, BeginLeave, BeginAccept,
                BeginErase, BeginJoin, Request
  <2>3. ASSUME NEW c \in Clients, Continue(c) PROVE rooms' \subseteq rooms
    BY <2>1, <2>3 DEF Continue, ReadMember, CountOwners, ListMemberships, MatchDispositions, ReadHeir,
                      GiveUp, WriteMember, Dissolve, Accept, Erase, Record, Evict, CheckMembership
  <2>4. rooms' \subseteq rooms
    BY <2>2, <2>3 DEF Next, LeaveRoom, vars
  <2> QED BY <2>4 DEF TypeOK
<1>2. CASE role[u] # "NONE"
  BY <1>1, <1>2, LosersLeave
<1>3. CASE role[u] = "NONE"
  <2>1. exists
    <3>1. ASSUME NEW c \in Clients, WriteMember(c) \/ Dissolve(c) \/ Accept(c) \/ Erase(c)
          PROVE  exists
      BY <3>1 DEF WriteMember, Dissolve, Accept, Erase, TypeOK
    <3>2. \A c \in Clients : ~Found(c)
      BY DEF Found, At, Spared, Entrants
    <3> QED BY <3>1, <3>2, WritersOnly
  <2>2. PICK c \in Clients : Leaving(c, u)
    BY <1>1, <1>3, <2>1 DEF EvictionsAhead
  <2> QED BY <2>2, LeavingEvicts
<1> QED BY <1>2, <1>3

(***************************************************************************)
(* Nobody goes on listening to a workspace they lost their membership of:   *)
(* the request that took it away still has their eviction ahead.  Assumed   *)
(* are audit rows that can be written, since a departure whose row fails    *)
(* evicts nobody, and that nobody comes in meanwhile, since a join that has *)
(* read the membership enters the room after the eviction.                  *)
(***************************************************************************)
THEOREM RoomsFollow ==
    ~AuditFails /\ Ops \cap {"found", "accept", "join"} = {} => (Spec => []RoomsFollowMembership)
<1> SUFFICES ASSUME ~AuditFails, Ops \cap Entrants = {} PROVE Spec => []RoomsFollowMembership
  BY DEF Entrants
<1> DEFINE IInv == TypeOK /\ AllSuited /\ Spared(Entrants) /\ NothingToLose /\ EvictionsAhead
<1>1. Init => IInv
  <2> SUFFICES ASSUME Init PROVE IInv
    OBVIOUS
  <2>1. Spared(Entrants) /\ NothingToLose
    BY DEF Init, Spared, NothingToLose, NoRequest, Entrants
  <2>2. EvictionsAhead
    BY DEF Init, EvictionsAhead
  <2> QED BY <2>1, <2>2, InitTypes
<1>2. IInv /\ [Next]_vars => IInv'
  <2> SUFFICES ASSUME IInv, [Next]_vars PROVE IInv'
    OBVIOUS
  <2>1. Spared(Entrants)'
    BY StaysSpared DEF Entrants
  <2>2. Spared(Givers)
    BY DEF Spared, Givers, Entrants
  <2> QED BY <2>1, <2>2, NextTypes, NothingStaysNothing, EvictionsStayAhead
<1>3. IInv => RoomsFollowMembership
  BY DEF EvictionsAhead, RoomsFollowMembership, Leaving, At
<1> QED BY <1>1, <1>2, <1>3, PTL DEF Spec

-----------------------------------------------------------------------------
(* Role changes on the record *)

(***************************************************************************)
(* What a role change has read is another role than the one it gives, and   *)
(* the member still has it; and once it has written, the role it replaced.  *)
(***************************************************************************)
ChangesAhead ==
    \A c \in Clients : req[c].op = "role" =>
        /\ req[c].step \in {"count", "write"} =>
              role[req[c].target] = req[c].found /\ req[c].found # req[c].to
        /\ req[c].step = "record" => req[c].replaced # req[c].to

(***************************************************************************)
(* Where requests come one at a time, a role change finds at its write what *)
(* it found when it read.                                                   *)
(***************************************************************************)
LEMMA ChangesStayAhead ==
    ASSUME \A c, d \in Clients : c = d, TypeOK, ChangesAhead, [Next]_vars
    PROVE  ChangesAhead'
<1> SUFFICES ASSUME NEW c \in Clients, req'[c].op = "role",
                    req'[c].step \in {"count", "write", "record"}
             PROVE  /\ req'[c].step # "record" =>
                          role'[req'[c].target] = req'[c].found /\ req'[c].found # req'[c].to
                    /\ req'[c].step = "record" => req'[c].replaced # req'[c].to
  BY DEF ChangesAhead
<1>1. CASE UNCHANGED vars \/ LeaveRoom
  BY <1>1 DEF vars, LeaveRoom, workspace, ChangesAhead
<1>2. CASE Begin(c)
  BY <1>2 DEF Begin, BeginFound, BeginDissolve, BeginRemove, BeginRole, BeginLeave, BeginAccept,
              BeginErase, BeginJoin, Request, TypeOK
<1>3. CASE Continue(c)
  <2>1. req[c] \in Requests
    BY <1>3, ContinueMovesOn
  <2>2. req[c].op = "role"
    <3>1. req'[c].op = req[c].op \/ req'[c] = NoRequest
      BY <1>3, ContinueRequests DEF Same
    <3> QED BY <3>1 DEF NoRequest
  <2>3. CASE ReadMember(c)
    <3> DEFINE found == role[req[c].target]
               next == IF found = "OWNER" THEN "count" ELSE "write"
    <3>1. ~Refused([req[c] EXCEPT !.as = req[c].as], found)
      BY <2>2, <2>3 DEF ReadMember, End, NoRequest, TypeOK
    <3>2. found # req[c].to
      BY <2>1, <2>2, <3>1 DEF Refused, Requests
    <3>3. req' = [req EXCEPT ![c].found = found, ![c].step = next] /\ role' = role
      BY <2>2, <2>3, <3>1 DEF ReadMember, workspace
    <3>4. /\ req'[c].found = found /\ req'[c].to = req[c].to /\ req'[c].target = req[c].target
          /\ req'[c].step = next
      <4> HIDE DEF found, next
      <4> QED BY <2>1, <3>3 DEF TypeOK, Requests
    <3> QED BY <3>2, <3>3, <3>4
  <2>4. CASE CountOwners(c)
    <3>1. req' = [req EXCEPT ![c].step = "write"] /\ role' = role /\ req[c].step = "count"
      BY <2>4 DEF CountOwners, At, Step, End, NoRequest, TypeOK, workspace
    <3> QED BY <2>1, <2>2, <3>1 DEF ChangesAhead, TypeOK, Requests
  <2>5. CASE WriteMember(c)
    <3> DEFINE old == role[req[c].target]
    <3>1. /\ req' = [req EXCEPT ![c].replaced = old, ![c].step = "record"]
          /\ req[c].step = "write"
      BY <2>2, <2>5 DEF WriteMember, At
    <3>2. old # req[c].to
      BY <2>2, <3>1 DEF ChangesAhead
    <3>3. req'[c].replaced = old /\ req'[c].to = req[c].to /\ req'[c].step = "record"
      <4> HIDE DEF old
      <4> QED BY <2>1, <3>1 DEF TypeOK, Requests
    <3> QED BY <3>2, <3>3
  <2>6. CASE Record(c) \/ Evict(c)
    <3>1. req[c].op # "role" \/ req'[c] = NoRequest
      BY <2>6 DEF Record, Evict, At, Step, End, TypeOK
    <3> QED BY <2>2, <3>1 DEF NoRequest
  <2>7. CASE \/ ListMemberships(c) \/ MatchDispositions(c) \/ ReadHeir(c) \/ GiveUp(c) \/ Found(c)
             \/ Dissolve(c) \/ Accept(c) \/ Erase(c) \/ CheckMembership(c) \/ EnterRoom(c)
    <3>1. req'[c] = NoRequest
      BY <2>2, <2>7 DEF ListMemberships, MatchDispositions, ReadHeir, GiveUp, Found, Dissolve,
                        Accept, Erase, CheckMembership, EnterRoom, At, End, TypeOK
    <3> QED BY <3>1 DEF NoRequest
  <2> QED BY <1>3, <2>3, <2>4, <2>5, <2>6, <2>7 DEF Continue
<1> QED BY <1>1, <1>2, <1>3 DEF Next

(***************************************************************************)
(* A member.role_changed row tells of a change where requests come one at a *)
(* time, for any users, operations and failures: the read refuses the role  *)
(* the member has.  Two that meet can each read another role and write the  *)
(* same, since neither locks the row (workspace-member.service.ts).         *)
(***************************************************************************)
THEOREM ChangesAreReal ==
    (\A c, d \in Clients : c = d) => (Spec => []AuditedChangesAreReal)
<1> SUFFICES ASSUME \A c, d \in Clients : c = d PROVE Spec => []AuditedChangesAreReal
  OBVIOUS
<1> DEFINE IInv == TypeOK /\ AllSuited /\ ChangesAhead
<1>1. Init => IInv
  BY InitTypes DEF Init, ChangesAhead, NoRequest
<1>2. IInv /\ [Next]_vars => IInv'
  BY NextTypes, ChangesStayAhead
<1>3. IInv => AuditedChangesAreReal
  BY DEF ChangesAhead, AuditedChangesAreReal, At
<1> QED BY <1>1, <1>2, <1>3, PTL DEF Spec

=============================================================================
