--------------------------- MODULE AccountsProofs ---------------------------
(* Proofs about Accounts, for any users, threads, mobiles and bounds. *)
EXTENDS Accounts, FiniteSetTheorems, SequenceTheorems, WellFoundedInduction, TLAPS

-----------------------------------------------------------------------------
(* The vector of sessions *)

(* A set of natural numbers has a least one.                               *)
LEMMA Least ==
    ASSUME NEW S \in SUBSET Nat, S # {}
    PROVE  \E i \in S : \A j \in S : i <= j
<1>1. PICK i \in S : \A j \in S : ~(<<j, i>> \in OpToRel(<, Nat))
  BY WFMin, NatLessThanWellFounded
<1>2. \A j \in S : ~(j < i)
  BY <1>1 DEF OpToRel
<1>. QED BY <1>2

(* The first session of a user and a client is one of theirs.              *)
LEMMA IndexOfFacts ==
    ASSUME NEW S, web_sessions \in Seq(S), NEW u, NEW c, Matching(u, c) # {}
    PROVE  /\ IndexOf(u, c) \in 1..Len(web_sessions)
           /\ web_sessions[IndexOf(u, c)].user = u
           /\ web_sessions[IndexOf(u, c)].cid = c
<1>1. Matching(u, c) \in SUBSET Nat
  BY DEF Matching
<1>2. \E i \in Matching(u, c) : \A j \in Matching(u, c) : i <= j
  BY <1>1, Least
<1>3. IndexOf(u, c) \in Matching(u, c)
  BY <1>2 DEF IndexOf
<1>. QED BY <1>3 DEF Matching

(* The vector without the element at an index.                             *)
Erased(s, i) == SubSeq(s, 1, i - 1) \o SubSeq(s, i + 1, Len(s))

(* Erasing keeps what is before the index and moves down what is after it.  *)
LEMMA ErasedFacts ==
    ASSUME NEW S, NEW s \in Seq(S), NEW i \in 1..Len(s)
    PROVE  /\ Erased(s, i) \in Seq(S)
           /\ Len(Erased(s, i)) = Len(s) - 1
           /\ \A j \in 1..(Len(s) - 1) :
                 Erased(s, i)[j] = IF j < i THEN s[j] ELSE s[j + 1]
<1>1. \A j \in 1..Len(s) : s[j] \in S
  OBVIOUS
<1>2. /\ SubSeq(s, 1, i - 1) \in Seq(S)
      /\ Len(SubSeq(s, 1, i - 1)) = i - 1
      /\ \A j \in 1..(i - 1) : SubSeq(s, 1, i - 1)[j] = s[j]
  BY <1>1, SubSeqProperties
<1>3. /\ SubSeq(s, i + 1, Len(s)) \in Seq(S)
      /\ Len(SubSeq(s, i + 1, Len(s))) = Len(s) - i
      /\ \A j \in 1..(Len(s) - i) : SubSeq(s, i + 1, Len(s))[j] = s[i + j]
  BY <1>1, SubSeqProperties
<1>4. /\ Erased(s, i) \in Seq(S)
      /\ Len(Erased(s, i)) = (i - 1) + (Len(s) - i)
      /\ \A j \in 1..((i - 1) + (Len(s) - i)) :
            Erased(s, i)[j] = IF j <= i - 1 THEN SubSeq(s, 1, i - 1)[j]
                              ELSE SubSeq(s, i + 1, Len(s))[j - (i - 1)]
  <2>. DEFINE a == SubSeq(s, 1, i - 1)
              b == SubSeq(s, i + 1, Len(s))
  <2>. HIDE DEF a, b
  <2>1. /\ a \o b \in Seq(S) /\ Len(a \o b) = Len(a) + Len(b)
        /\ \A j \in 1..(Len(a) + Len(b)) :
              (a \o b)[j] = IF j <= Len(a) THEN a[j] ELSE b[j - Len(a)]
    BY <1>2, <1>3, ConcatProperties DEF a, b
  <2>. QED BY <1>2, <1>3, <2>1 DEF Erased, a, b
<1>. QED BY <1>2, <1>3, <1>4

-----------------------------------------------------------------------------
(* Type correctness *)

(* What makes the type invariant inductive: a thread that is at a request   *)
(* knows the user it is for, one that will push a session also the client, *)
(* and a mobile that has logged in knows its user.                         *)
RequestsNamed ==
    /\ \A t \in Thread : th[t].pc # "idle" => th[t].user \in User
    /\ \A t \in Thread : th[t].pc = "push" => th[t].cid \in Nat
    /\ \A m \in Mobile : mob[m].pc # "out" => mob[m].user \in User

TypeInv == AccountsTypeOK /\ RequestsNamed /\ IsFiniteSet(pages)

(* The counters stay counters.                                             *)
LEMMA UseType ==
    ASSUME NEW b \in Bounded, NEW max, count \in [Bounded -> Nat], Use(b, max)
    PROVE  count' \in [Bounded -> Nat]
BY DEF Use

(* What a registration leaves in its history is a registration.            *)
LEMMA AnsweredType ==
    ASSUME TypeInv, NEW t \in Thread, th[t].pc # "idle",
           NEW res \in {"OK", "email", "name", "cut"}
    PROVE  /\ Answered(t, res) \in Registration
           /\ [Answered(t, res) EXCEPT !.failed = TRUE] \in Registration
<1>1. th[t] \in ThreadState /\ th[t].user \in User
  BY DEF AccountsTypeOK, TypeInv, RequestsNamed
<1>. QED BY <1>1 DEF Answered, Registration, ThreadState, Cids, Rids

(* A thread that has ended its request is quiet.                           *)
LEMMA QuietType == Quiet \in ThreadState
BY DEF Quiet, ThreadState, Cids, Rids, NoCid

(* A mobile that is not logged in.                                         *)
LEMMA LoggedOutType == LoggedOut \in MobileState
BY DEF LoggedOut, MobileState, Cids, Rids, NoCid

ThreadNamed(x) ==
    /\ x.pc # "idle" => x.user \in User
    /\ x.pc = "push" => x.cid \in Nat

(* A step of one thread.                                                   *)
LEMMA ThreadStep ==
    ASSUME TypeInv, NEW t \in Thread, NEW x \in ThreadState, ThreadNamed(x),
           th' = [th EXCEPT ![t] = x]
    PROVE  /\ th' \in [Thread -> ThreadState]
           /\ \A y \in Thread : ThreadNamed(th'[y])
BY DEF AccountsTypeOK, TypeInv, RequestsNamed, ThreadNamed

(* The tables, as long as their counters do not fall.                      *)
TablesTyped ==
    /\ DOMAIN clients \subseteq 1..seq.cid /\ clients \in [DOMAIN clients -> User]
    /\ DOMAIN emps \subseteq 1..seq.rid /\ emps \in [DOMAIN emps -> EmpRow]
    /\ seq \in [cid : Nat, rid : Nat]

(* Registration keeps the types.                                           *)
LEMMA TypeRegistration ==
    ASSUME TypeInv, NEW t \in Thread,
           \/ \E u \in User : InsertNewClient(t, u)
           \/ SaveEmployee(t) \/ SendEmail(t) \/ RemoveClient(t) \/ RemoveEmployee(t)
    PROVE  TypeInv'
<1>0. /\ th[t] \in ThreadState /\ seq.cid \in Nat /\ seq.rid \in Nat
      /\ TablesTyped /\ regs \subseteq Registration /\ count \in [Bounded -> Nat]
      /\ th[t].pc # "idle" => th[t].user \in User
      /\ th \in [Thread -> ThreadState]
  BY DEF AccountsTypeOK, TypeInv, RequestsNamed, TablesTyped
<1>. SUFFICES /\ TablesTyped' /\ regs' \subseteq Registration
              /\ count' \in [Bounded -> Nat]
              /\ \E x \in ThreadState : ThreadNamed(x) /\ th' = [th EXCEPT ![t] = x]
  <2>1. UNCHANGED <<web_sessions, mob, pages, gone>>
    BY DEF InsertNewClient, SaveEmployee, SendEmail, RemoveClient, RemoveEmployee
  <2>2. /\ th' \in [Thread -> ThreadState]
        /\ \A y \in Thread : ThreadNamed(th'[y])
    BY ThreadStep
  <2>3. AccountsTypeOK'
    BY <2>1, <2>2 DEF AccountsTypeOK, TablesTyped, TypeInv
  <2>. QED BY <2>1, <2>2, <2>3 DEF TypeInv, RequestsNamed, ThreadNamed
<1>1. ASSUME NEW u \in User, InsertNewClient(t, u)
      PROVE  /\ TablesTyped' /\ regs' \subseteq Registration
             /\ count' \in [Bounded -> Nat]
             /\ \E x \in ThreadState : ThreadNamed(x) /\ th' = [th EXCEPT ![t] = x]
  <2>1. CASE /\ th' = [th EXCEPT ![t] = [Quiet EXCEPT !.pc = "save", !.user = u,
                                                       !.failed = TRUE]]
             /\ count' = [count EXCEPT !.reg = @ + 1, !.fail = @ + 1]
             /\ UNCHANGED <<clients, seq>>
    <3>1. /\ [Quiet EXCEPT !.pc = "save", !.user = u, !.failed = TRUE] \in ThreadState
          /\ ThreadNamed([Quiet EXCEPT !.pc = "save", !.user = u, !.failed = TRUE])
      BY DEF Quiet, ThreadState, ThreadNamed, Cids, Rids, NoCid
    <3>2. UNCHANGED <<emps, regs>>
      BY <1>1 DEF InsertNewClient
    <3>3. count' \in [Bounded -> Nat]
      <4>1. [count EXCEPT !.reg = @ + 1] \in [Bounded -> Nat]
        BY <1>0 DEF Bounded
      <4>2. \A f \in [Bounded -> Nat] : [f EXCEPT !.fail = @ + 1] \in [Bounded -> Nat]
        BY DEF Bounded
      <4>3. count' = [[count EXCEPT !.reg = @ + 1] EXCEPT !.fail = @ + 1]
        BY <2>1
      <4>. QED BY <4>1, <4>2, <4>3
    <3>. QED BY <1>0, <2>1, <3>1, <3>2, <3>3 DEF TablesTyped
  <2>2. CASE /\ clients' = WithRow(clients, seq.cid + 1, u)
             /\ seq' = [seq EXCEPT !.cid = @ + 1]
             /\ th' = [th EXCEPT ![t] = [Quiet EXCEPT !.pc = "save", !.user = u,
                                                      !.cid = seq.cid + 1]]
             /\ Use("reg", MaxReg)
    <3>1. UNCHANGED <<emps, regs>>
      BY <1>1 DEF InsertNewClient
    <3>2. TablesTyped'
      BY <1>0, <2>2, <3>1 DEF TablesTyped, WithRow
    <3>3. ASSUME NEW c \in Nat
          PROVE  /\ [Quiet EXCEPT !.pc = "save", !.user = u, !.cid = c] \in ThreadState
                 /\ ThreadNamed([Quiet EXCEPT !.pc = "save", !.user = u, !.cid = c])
      BY DEF Quiet, ThreadState, ThreadNamed, Cids, Rids, NoCid
    <3>4. count' \in [Bounded -> Nat]
      BY <1>0, <2>2, UseType DEF Bounded
    <3>5. seq.cid + 1 \in Nat
      BY <1>0
    <3>. QED BY <1>0, <2>2, <3>1, <3>2, <3>3, <3>4, <3>5
  <2>. QED BY <1>1, <2>1, <2>2 DEF InsertNewClient
<1>2. ASSUME SaveEmployee(t)
      PROVE  /\ TablesTyped' /\ regs' \subseteq Registration
             /\ count' \in [Bounded -> Nat]
             /\ \E x \in ThreadState : ThreadNamed(x) /\ th' = [th EXCEPT ![t] = x]
  <2>1. CASE /\ Use("fail", MaxFail)
             /\ regs' = regs \cup {[Answered(t, "name") EXCEPT !.failed = TRUE]}
             /\ th' = [th EXCEPT ![t] = Quiet]
             /\ UNCHANGED <<emps, seq>>
    <3>1. Quiet \in ThreadState /\ ThreadNamed(Quiet)
      BY QuietType DEF Quiet, ThreadNamed
    <3>2. [Answered(t, "name") EXCEPT !.failed = TRUE] \in Registration
      BY <1>2, AnsweredType DEF SaveEmployee
    <3>3. UNCHANGED clients /\ count' \in [Bounded -> Nat]
      BY <1>0, <1>2, <2>1, UseType DEF SaveEmployee, Bounded
    <3>. QED BY <1>0, <2>1, <3>1, <3>2, <3>3 DEF TablesTyped
  <2>2. CASE /\ emps' = WithRow(emps, seq.rid + 1, [user |-> th[t].user,
                                   cid |-> th[t].cid, LoginSts |-> 0])
             /\ seq' = NextRid
             /\ th' = [th EXCEPT ![t].pc = "email", ![t].rid = seq.rid + 1]
             /\ UNCHANGED <<regs, count>>
    <3>0. th[t].pc = "save" /\ th[t].user \in User /\ th[t].cid \in Cids
      BY <1>0, <1>2 DEF SaveEmployee, ThreadState
    <3>1. UNCHANGED clients
      BY <1>2 DEF SaveEmployee
    <3>2. [user |-> th[t].user, cid |-> th[t].cid, LoginSts |-> 0] \in EmpRow
      BY <3>0 DEF EmpRow
    <3>3. TablesTyped'
      BY <1>0, <2>2, <3>1, <3>2 DEF TablesTyped, WithRow, NextRid
    <3>4. ASSUME NEW r \in Nat
          PROVE  /\ [th[t] EXCEPT !.pc = "email", !.rid = r] \in ThreadState
                 /\ ThreadNamed([th[t] EXCEPT !.pc = "email", !.rid = r])
      BY <1>0, <3>0 DEF ThreadState, ThreadNamed, Rids
    <3>5. seq.rid + 1 \in Nat
      BY <1>0
    <3>6. th' = [th EXCEPT ![t] = [th[t] EXCEPT !.pc = "email", !.rid = seq.rid + 1]]
      BY <1>0, <2>2
    <3>. QED BY <1>0, <2>2, <3>3, <3>4, <3>5, <3>6
  <2>. QED BY <1>2, <2>1, <2>2 DEF SaveEmployee
<1>3. ASSUME SendEmail(t)
      PROVE  /\ TablesTyped' /\ regs' \subseteq Registration
             /\ count' \in [Bounded -> Nat]
             /\ \E x \in ThreadState : ThreadNamed(x) /\ th' = [th EXCEPT ![t] = x]
  <2>1. Quiet \in ThreadState /\ ThreadNamed(Quiet)
    BY QuietType DEF Quiet, ThreadNamed
  <2>2. Answered(t, "OK") \in Registration
    BY <1>3, AnsweredType DEF SendEmail
  <2>3. /\ [th[t] EXCEPT !.pc = "rmClient"] \in ThreadState
        /\ ThreadNamed([th[t] EXCEPT !.pc = "rmClient"])
    BY <1>0, <1>3 DEF SendEmail, ThreadState, ThreadNamed
  <2>. QED BY <1>0, <1>3, <2>1, <2>2, <2>3 DEF SendEmail, tables, TablesTyped
<1>4. ASSUME RemoveClient(t)
      PROVE  /\ TablesTyped' /\ regs' \subseteq Registration
             /\ count' \in [Bounded -> Nat]
             /\ \E x \in ThreadState : ThreadNamed(x) /\ th' = [th EXCEPT ![t] = x]
  <2>1. TablesTyped'
    BY <1>0, <1>4 DEF RemoveClient, TablesTyped, Without
  <2>2. count' \in [Bounded -> Nat]
    BY <1>0, <1>4, UseType DEF RemoveClient, Bounded
  <2>3. /\ [th[t] EXCEPT !.pc = "rmEmp"] \in ThreadState
        /\ ThreadNamed([th[t] EXCEPT !.pc = "rmEmp"])
        /\ [th[t] EXCEPT !.pc = "rmEmp", !.failed = TRUE] \in ThreadState
        /\ ThreadNamed([th[t] EXCEPT !.pc = "rmEmp", !.failed = TRUE])
    BY <1>0, <1>4 DEF RemoveClient, ThreadState, ThreadNamed
  <2>. QED BY <1>0, <1>4, <2>1, <2>2, <2>3 DEF RemoveClient
<1>5. ASSUME RemoveEmployee(t)
      PROVE  /\ TablesTyped' /\ regs' \subseteq Registration
             /\ count' \in [Bounded -> Nat]
             /\ \E x \in ThreadState : ThreadNamed(x) /\ th' = [th EXCEPT ![t] = x]
  <2>1. TablesTyped'
    BY <1>0, <1>5 DEF RemoveEmployee, TablesTyped, Without
  <2>2. count' \in [Bounded -> Nat]
    BY <1>0, <1>5, UseType DEF RemoveEmployee, Bounded
  <2>3. regs' \subseteq Registration
    <3>1. /\ Answered(t, "email") \in Registration
          /\ [Answered(t, "email") EXCEPT !.failed = TRUE] \in Registration
      BY <1>5, AnsweredType DEF RemoveEmployee
    <3>. QED BY <1>0, <1>5, <3>1 DEF RemoveEmployee
  <2>4. Quiet \in ThreadState /\ ThreadNamed(Quiet)
    BY QuietType DEF Quiet, ThreadNamed
  <2>. QED BY <1>5, <2>1, <2>2, <2>3, <2>4 DEF RemoveEmployee
<1>. QED BY <1>1, <1>2, <1>3, <1>4, <1>5

(* Web sessions keep the types.                                            *)
LEMMA TypeSessions ==
    ASSUME TypeInv, NEW t \in Thread,
           \/ \E u \in User : ValidateWebClient(t, u)
           \/ PushSession(t)
           \/ \E p \in pages : GetWebSession(t, p)
           \/ removeItemAtIndex(t)
    PROVE  TypeInv'
<1>0. /\ th \in [Thread -> ThreadState] /\ web_sessions \in Seq(Session)
      /\ pages \subseteq Session /\ IsFiniteSet(pages)
      /\ gone \in [unloaded : SUBSET Nat, raced : SUBSET Nat]
      /\ count \in [Bounded -> Nat]
      /\ clients \in [DOMAIN clients -> User] /\ DOMAIN clients \subseteq Nat
  BY DEF TypeInv, AccountsTypeOK
<1>. SUFFICES /\ th' \in [Thread -> ThreadState]
              /\ \A y \in Thread : ThreadNamed(th'[y])
              /\ web_sessions' \in Seq(Session)
              /\ pages' \subseteq Session /\ IsFiniteSet(pages')
              /\ gone' \in [unloaded : SUBSET Nat, raced : SUBSET Nat]
              /\ count' \in [Bounded -> Nat]
  <2>1. UNCHANGED <<tables, mob, regs>>
    BY DEF ValidateWebClient, PushSession, GetWebSession, removeItemAtIndex
  <2>2. AccountsTypeOK'
    BY <2>1 DEF AccountsTypeOK, TypeInv, tables
  <2>. QED BY <2>1, <2>2 DEF TypeInv, RequestsNamed, ThreadNamed
<1>1. ASSUME NEW u \in User, ValidateWebClient(t, u)
      PROVE  /\ th' \in [Thread -> ThreadState]
             /\ \A y \in Thread : ThreadNamed(th'[y])
             /\ web_sessions' \in Seq(Session)
             /\ pages' \subseteq Session /\ IsFiniteSet(pages')
             /\ gone' \in [unloaded : SUBSET Nat, raced : SUBSET Nat]
             /\ count' \in [Bounded -> Nat]
  <2>1. PICK c \in DOMAIN clients :
           th' = [th EXCEPT ![t] = [Quiet EXCEPT !.pc = "push", !.user = u, !.cid = c]]
    BY <1>1 DEF ValidateWebClient
  <2>2. /\ [Quiet EXCEPT !.pc = "push", !.user = u, !.cid = c] \in ThreadState
        /\ ThreadNamed([Quiet EXCEPT !.pc = "push", !.user = u, !.cid = c])
    BY <1>0 DEF Quiet, ThreadState, ThreadNamed, Cids, Rids, NoCid
  <2>3. /\ th' \in [Thread -> ThreadState]
        /\ \A y \in Thread : ThreadNamed(th'[y])
    BY <2>1, <2>2, ThreadStep
  <2>4. count' \in [Bounded -> Nat]
    BY <1>0, <1>1, UseType DEF ValidateWebClient, Bounded
  <2>. QED BY <1>0, <1>1, <2>3, <2>4 DEF ValidateWebClient
<1>2. ASSUME PushSession(t)
      PROVE  /\ th' \in [Thread -> ThreadState]
             /\ \A y \in Thread : ThreadNamed(th'[y])
             /\ web_sessions' \in Seq(Session)
             /\ pages' \subseteq Session /\ IsFiniteSet(pages')
             /\ gone' \in [unloaded : SUBSET Nat, raced : SUBSET Nat]
             /\ count' \in [Bounded -> Nat]
  <2>. DEFINE ws == [id |-> NewSessionId, user |-> th[t].user, cid |-> th[t].cid]
  <2>1. NewSessionId \in Nat
    BY <1>0, FS_CardinalityType DEF NewSessionId
  <2>2. th[t].user \in User /\ th[t].cid \in Nat
    BY <1>2 DEF TypeInv, RequestsNamed, PushSession
  <2>3. ws \in Session
    BY <2>1, <2>2 DEF Session
  <2>4. /\ th' = [th EXCEPT ![t] = Quiet]
        /\ pages' = pages \cup {ws}
        /\ web_sessions' \in {web_sessions, Append(web_sessions, ws)}
        /\ gone' \in {gone, [gone EXCEPT !.raced = @ \cup {ws.id}]}
        /\ UNCHANGED count
    BY <1>2 DEF PushSession
  <2>5. Quiet \in ThreadState /\ ThreadNamed(Quiet)
    BY QuietType DEF Quiet, ThreadNamed
  <2>6. /\ th' \in [Thread -> ThreadState]
        /\ \A y \in Thread : ThreadNamed(th'[y])
    BY <2>4, <2>5, ThreadStep
  <2>. HIDE DEF ws
  <2>7. web_sessions' \in Seq(Session)
    BY <1>0, <2>3, <2>4, AppendProperties
  <2>8. pages' \subseteq Session /\ IsFiniteSet(pages')
    BY <1>0, <2>3, <2>4, FS_AddElement
  <2>9. gone' \in [unloaded : SUBSET Nat, raced : SUBSET Nat]
    <3>1. ws.id \in Nat
      BY <2>3 DEF Session
    <3>. QED BY <1>0, <2>4, <3>1
  <2>. QED BY <1>0, <2>4, <2>6, <2>7, <2>8, <2>9
<1>3. ASSUME NEW p \in pages, GetWebSession(t, p)
      PROVE  /\ th' \in [Thread -> ThreadState]
             /\ \A y \in Thread : ThreadNamed(th'[y])
             /\ web_sessions' \in Seq(Session)
             /\ pages' \subseteq Session /\ IsFiniteSet(pages')
             /\ gone' \in [unloaded : SUBSET Nat, raced : SUBSET Nat]
             /\ count' \in [Bounded -> Nat]
  <2>1. p.user \in User /\ p.cid \in Nat
    BY <1>0 DEF Session
  <2>2. IndexOf(p.user, p.cid) \in Nat
    <3>1. Matching(p.user, p.cid) # {}
      BY <1>3 DEF GetWebSession
    <3>2. IndexOf(p.user, p.cid) \in 1..Len(web_sessions)
      BY <1>0, <3>1, IndexOfFacts
    <3>. QED BY <1>0, <3>2
  <2>3. ASSUME NEW i \in Nat
        PROVE  LET x == [Quiet EXCEPT !.pc = "erase", !.user = p.user,
                                      !.cid = p.cid, !.index = i]
               IN  x \in ThreadState /\ ThreadNamed(x)
    BY <2>1 DEF Quiet, ThreadState, ThreadNamed, Cids, Rids, NoCid
  <2>4. th' = [th EXCEPT ![t] = [Quiet EXCEPT !.pc = "erase", !.user = p.user,
                         !.cid = p.cid, !.index = IndexOf(p.user, p.cid)]]
    BY <1>3 DEF GetWebSession
  <2>5. /\ th' \in [Thread -> ThreadState]
        /\ \A y \in Thread : ThreadNamed(th'[y])
    BY <2>2, <2>3, <2>4, ThreadStep
  <2>. QED BY <1>0, <1>3, <2>5 DEF GetWebSession
<1>4. ASSUME removeItemAtIndex(t)
      PROVE  /\ th' \in [Thread -> ThreadState]
             /\ \A y \in Thread : ThreadNamed(th'[y])
             /\ web_sessions' \in Seq(Session)
             /\ pages' \subseteq Session /\ IsFiniteSet(pages')
             /\ gone' \in [unloaded : SUBSET Nat, raced : SUBSET Nat]
             /\ count' \in [Bounded -> Nat]
  <2>0. Quiet \in ThreadState /\ ThreadNamed(Quiet)
    BY QuietType DEF Quiet, ThreadNamed
  <2>1. CASE th[t].index \notin DOMAIN web_sessions
    <3>1. th' = [th EXCEPT ![t] = Quiet] /\ UNCHANGED <<web_sessions, gone, pages, count>>
      BY <1>4, <2>1 DEF removeItemAtIndex
    <3>2. /\ th' \in [Thread -> ThreadState]
          /\ \A y \in Thread : ThreadNamed(th'[y])
      BY <2>0, <3>1, ThreadStep
    <3>. QED BY <1>0, <3>1, <3>2
  <2>2. CASE th[t].index \in DOMAIN web_sessions
    <3>. DEFINE i == th[t].index
                taken == web_sessions[i]
    <3>1. i \in 1..Len(web_sessions) /\ taken \in Session
      BY <1>0, <2>2
    <3>2. /\ web_sessions' = Erased(web_sessions, i)
          /\ gone' \in {gone, [gone EXCEPT !.unloaded = @ \cup {taken.id}],
                        [gone EXCEPT !.raced = @ \cup {taken.id}]}
          /\ th' = [x \in Thread |->
                      IF x = t THEN Quiet
                      ELSE IF th[x].pc = "erase" /\ th[x].index >= i
                      THEN [th[x] EXCEPT !.raced = TRUE]
                      ELSE th[x]]
          /\ UNCHANGED <<pages, count>>
      BY <1>4, <2>2 DEF removeItemAtIndex, Erased
    <3>3. web_sessions' \in Seq(Session)
      BY <1>0, <3>1, <3>2, ErasedFacts
    <3>4. taken.id \in Nat
      BY <3>1 DEF Session
    <3>5. gone' \in [unloaded : SUBSET Nat, raced : SUBSET Nat]
      BY <1>0, <3>2, <3>4
    <3>6. \A x \in Thread : /\ th[x] \in ThreadState /\ ThreadNamed(th[x])
                            /\ [th[x] EXCEPT !.raced = TRUE] \in ThreadState
                            /\ ThreadNamed([th[x] EXCEPT !.raced = TRUE])
      BY <1>0 DEF TypeInv, RequestsNamed, ThreadNamed, ThreadState
    <3>7. \A y \in Thread : th'[y] \in ThreadState /\ ThreadNamed(th'[y])
      BY <2>0, <3>2, <3>6
    <3>. QED BY <1>0, <3>2, <3>3, <3>5, <3>7
  <2>. QED BY <2>1, <2>2
<1>. QED BY <1>1, <1>2, <1>3, <1>4

(* The requests of mobiles keep the types.                                 *)
LEMMA TypeMobile ==
    ASSUME TypeInv, NEW m \in Mobile, MobileRequest(m)
    PROVE  TypeInv'
<1>0. /\ mob \in [Mobile -> MobileState] /\ mob[m] \in MobileState
      /\ emps \in [DOMAIN emps -> EmpRow] /\ DOMAIN emps \subseteq Nat
      /\ count \in [Bounded -> Nat] /\ TablesTyped
      /\ mob[m].pc # "out" => mob[m].user \in User
  BY DEF TypeInv, RequestsNamed, AccountsTypeOK, TablesTyped
<1>1. ASSUME NEW u \in User, ValidateMobileClient(m, u)
      PROVE  TypeInv'
  <2>1. UNCHANGED <<tables, th, web_sessions, regs, pages, gone, count>>
    BY <1>1 DEF ValidateMobileClient
  <2>2. Found(m, u) \subseteq DOMAIN emps
    BY DEF Found
  <2>3. \E x \in MobileState : /\ mob' = [mob EXCEPT ![m] = x]
                               /\ x.pc # "out" => x.user \in User
    <3>1. CASE mob' = [mob EXCEPT ![m] = LoggedOut]
      BY <3>1, LoggedOutType DEF LoggedOut
    <3>2. ASSUME NEW r \in Found(m, u),
                 mob' = [mob EXCEPT ![m] = [pc |-> "sts", user |-> u,
                                            cid |-> emps[r].cid, rid |-> r]]
          PROVE  \E x \in MobileState : /\ mob' = [mob EXCEPT ![m] = x]
                                        /\ x.pc # "out" => x.user \in User
      <4>1. r \in Nat /\ emps[r].cid \in Cids
        BY <1>0, <2>2 DEF EmpRow
      <4>2. [pc |-> "sts", user |-> u, cid |-> emps[r].cid, rid |-> r] \in MobileState
        BY <4>1 DEF MobileState, Rids
      <4>. QED BY <3>2, <4>2
    <3>. QED BY <1>1, <3>1, <3>2 DEF ValidateMobileClient
  <2>4. /\ mob' \in [Mobile -> MobileState]
        /\ \A n \in Mobile : mob'[n].pc # "out" => mob'[n].user \in User
    BY <1>0, <2>3 DEF TypeInv, RequestsNamed
  <2>. QED BY <2>1, <2>4 DEF TypeInv, RequestsNamed, AccountsTypeOK, tables
<1>2. ASSUME UpdateLoginStsById(m)
      PROVE  TypeInv'
  <2>1. /\ UNCHANGED <<clients, seq, th, web_sessions, regs, pages, gone, count>>
        /\ mob' = [mob EXCEPT ![m].pc = "in"]
        /\ mob[m].pc = "sts"
    BY <1>2 DEF UpdateLoginStsById
  <2>2. /\ mob' \in [Mobile -> MobileState]
        /\ \A n \in Mobile : mob'[n].pc # "out" => mob'[n].user \in User
    <3>1. [mob[m] EXCEPT !.pc = "in"] \in MobileState
      BY <1>0 DEF MobileState
    <3>2. mob' = [mob EXCEPT ![m] = [mob[m] EXCEPT !.pc = "in"]]
      BY <2>1
    <3>3. [mob[m] EXCEPT !.pc = "in"].user \in User
      BY <1>0, <2>1 DEF MobileState
    <3>. QED BY <1>0, <3>1, <3>2, <3>3 DEF TypeInv, RequestsNamed
  <2>3. /\ DOMAIN emps' = DOMAIN emps
        /\ emps' \in [DOMAIN emps' -> EmpRow]
    <3>1. \A r \in DOMAIN emps : /\ emps[r] \in EmpRow
                                 /\ [emps[r] EXCEPT !.LoginSts = 1] \in EmpRow
      BY <1>0 DEF EmpRow
    <3>. QED BY <1>2, <3>1 DEF UpdateLoginStsById
  <2>. QED BY <2>1, <2>2, <2>3 DEF TypeInv, RequestsNamed, AccountsTypeOK
<1>3. ASSUME SendEmpProfileFromMobile(m)
      PROVE  TypeInv'
  <2>1. /\ UNCHANGED <<clients, th, web_sessions, mob, regs, pages, gone>>
        /\ mob[m].pc = "in"
        /\ Use("profile", MaxProfile)
    BY <1>3 DEF SendEmpProfileFromMobile
  <2>2. mob[m].user \in User /\ mob[m].cid \in Cids
    BY <1>0, <2>1 DEF MobileState
  <2>3. TablesTyped'
    <3>1. CASE mob[m].rid \in DOMAIN emps
      <4>1. [emps[mob[m].rid] EXCEPT !.user = mob[m].user, !.cid = mob[m].cid]
               \in EmpRow
        BY <1>0, <2>2, <3>1 DEF EmpRow
      <4>2. /\ UNCHANGED seq
            /\ emps' = [emps EXCEPT ![mob[m].rid] =
                  [emps[mob[m].rid] EXCEPT !.user = mob[m].user, !.cid = mob[m].cid]]
        BY <1>3, <3>1 DEF SendEmpProfileFromMobile
      <4>. QED BY <1>0, <2>1, <4>1, <4>2 DEF TablesTyped
    <3>2. CASE mob[m].rid \notin DOMAIN emps
      <4>1. [user |-> mob[m].user, cid |-> mob[m].cid, LoginSts |-> 0] \in EmpRow
        BY <2>2 DEF EmpRow
      <4>2. /\ emps' = WithRow(emps, seq.rid + 1, [user |-> mob[m].user,
                                  cid |-> mob[m].cid, LoginSts |-> 0])
            /\ seq' = [seq EXCEPT !.rid = @ + 1]
        BY <1>3, <3>2 DEF SendEmpProfileFromMobile, NextRid
      <4>. QED BY <1>0, <2>1, <4>1, <4>2 DEF TablesTyped, WithRow
    <3>. QED BY <3>1, <3>2
  <2>4. count' \in [Bounded -> Nat]
    BY <1>0, <2>1, UseType DEF Bounded
  <2>. QED BY <2>1, <2>3, <2>4 DEF TypeInv, RequestsNamed, AccountsTypeOK, TablesTyped
<1>. QED BY <1>1, <1>2, <1>3 DEF MobileRequest

(* A stop of the server keeps the types.                                   *)
LEMMA TypeStop ==
    ASSUME TypeInv, ServerStops
    PROVE  TypeInv'
<1>1. /\ UNCHANGED tables /\ web_sessions' = <<>> /\ pages' = {}
      /\ gone' = [unloaded |-> {}, raced |-> {}]
      /\ th' = [t \in Thread |-> Quiet]
      /\ mob' = [m \in Mobile |-> IF mob[m].pc = "sts" THEN LoggedOut ELSE mob[m]]
      /\ regs' = regs \cup {[Answered(t, "cut") EXCEPT !.failed = TRUE] :
                               t \in {x \in Thread : Registering(x)}}
      /\ Use("stop", MaxStop)
  BY DEF ServerStops
<1>2. regs' \subseteq Registration
  <2>1. \A t \in {x \in Thread : Registering(x)} :
           [Answered(t, "cut") EXCEPT !.failed = TRUE] \in Registration
    BY AnsweredType DEF Registering
  <2>. QED BY <1>1, <2>1 DEF TypeInv, AccountsTypeOK
<1>3. /\ th' \in [Thread -> ThreadState]
      /\ \A t \in Thread : ThreadNamed(th'[t])
  BY <1>1, QuietType DEF Quiet, ThreadNamed
<1>4. /\ mob' \in [Mobile -> MobileState]
      /\ \A m \in Mobile : mob'[m].pc # "out" => mob'[m].user \in User
  BY <1>1, LoggedOutType DEF TypeInv, RequestsNamed, AccountsTypeOK, LoggedOut
<1>5. count' \in [Bounded -> Nat]
  BY <1>1, UseType DEF TypeInv, AccountsTypeOK, Bounded
<1>6. IsFiniteSet(pages') /\ pages' \subseteq Session /\ web_sessions' \in Seq(Session)
  BY <1>1, FS_EmptySet
<1>7. gone' \in [unloaded : SUBSET Nat, raced : SUBSET Nat]
  BY <1>1
<1>. QED BY <1>1, <1>2, <1>3, <1>4, <1>5, <1>6, <1>7
         DEF TypeInv, RequestsNamed, AccountsTypeOK, ThreadNamed, tables

(* Every step keeps the types.                                             *)
LEMMA TypeStep ==
    ASSUME TypeInv, [Next]_vars
    PROVE  TypeInv'
<1>1. CASE UNCHANGED vars
  BY <1>1 DEF vars, tables, TypeInv, RequestsNamed, AccountsTypeOK
<1>. QED BY <1>1, TypeRegistration, TypeSessions, TypeMobile, TypeStop
         DEF Next, WebRequest

(* The accounts start with their types.                                    *)
LEMMA TypeInit == Init => TypeInv
<1>. SUFFICES ASSUME Init PROVE TypeInv
  OBVIOUS
<1>1. IsFiniteSet(pages) /\ web_sessions \in Seq(Session)
  BY FS_EmptySet DEF Init
<1>2. Quiet.pc = "idle" /\ LoggedOut.pc = "out"
  BY DEF Quiet, LoggedOut
<1>. QED BY <1>1, <1>2, QuietType, LoggedOutType
         DEF Init, TypeInv, RequestsNamed, AccountsTypeOK, EmptyTable

(* The tables of accounts, the threads, the mobiles and the sessions always *)
(* have their types.                                                       *)
THEOREM AccountsTypeCorrect == Spec => []AccountsTypeOK
<1>1. TypeInv => AccountsTypeOK
  BY DEF TypeInv
<1>. QED BY <1>1, TypeInit, TypeStep, PTL DEF Spec

-----------------------------------------------------------------------------
(* Web sessions.  Session ids are counted, every session was given to a     *)
(* page, and the index of a thread that no other has raced with is still    *)
(* that of a session of its user.                                          *)

IdsCounted ==
    /\ \A p \in pages : p.id \in 1..Cardinality(pages)
    /\ \A p, q \in pages : p.id = q.id => p = q

SessionsHavePages == \A i \in DOMAIN web_sessions : web_sessions[i] \in pages

IndexStands ==
    \A t \in Thread : th[t].pc = "erase" /\ ~th[t].raced =>
        /\ th[t].index \in DOMAIN web_sessions
        /\ web_sessions[th[t].index].user = th[t].user
        /\ web_sessions[th[t].index].cid = th[t].cid

SessionInv ==
    IdsCounted /\ SessionsHavePages /\ IndexStands /\ PagesKeepTheirSession

(* Steps that leave the sessions alone.                                    *)
LEMMA SessionQuiet ==
    ASSUME SessionInv, UNCHANGED <<web_sessions, pages, gone>>,
           \A t \in Thread : th'[t].pc = "erase" => th'[t] = th[t]
    PROVE  SessionInv'
<1>1. IdsCounted' /\ SessionsHavePages' /\ PagesKeepTheirSession'
  BY DEF SessionInv, IdsCounted, SessionsHavePages, PagesKeepTheirSession
<1>2. IndexStands'
  BY DEF SessionInv, IndexStands
<1>. QED BY <1>1, <1>2 DEF SessionInv

(* Every step keeps the invariant of the sessions.                         *)
LEMMA SessionStep ==
    ASSUME TypeInv, SessionInv, [Next]_vars
    PROVE  SessionInv'
<1>0. /\ th \in [Thread -> ThreadState] /\ web_sessions \in Seq(Session)
      /\ pages \subseteq Session /\ IsFiniteSet(pages)
      /\ gone \in [unloaded : SUBSET Nat, raced : SUBSET Nat]
  BY DEF TypeInv, AccountsTypeOK
<1>1. ASSUME NEW t \in Thread,
             \/ \E u \in User : InsertNewClient(t, u)
             \/ SaveEmployee(t) \/ SendEmail(t) \/ RemoveClient(t) \/ RemoveEmployee(t)
             \/ \E u \in User : ValidateWebClient(t, u)
      PROVE  SessionInv'
  <2>1. UNCHANGED <<web_sessions, pages, gone>>
    BY <1>1 DEF InsertNewClient, SaveEmployee, SendEmail, RemoveClient,
                RemoveEmployee, ValidateWebClient
  <2>2. \A y \in Thread : y # t => th'[y] = th[y]
    BY <1>0, <1>1 DEF InsertNewClient, SaveEmployee, SendEmail, RemoveClient,
                RemoveEmployee, ValidateWebClient
  <2>3. th'[t].pc # "erase"
    <3>1. th[t] \in ThreadState
      BY <1>0
    <3>2. ASSUME NEW u \in User, InsertNewClient(t, u) \/ ValidateWebClient(t, u)
          PROVE  th'[t].pc # "erase"
      BY <1>0, <3>2 DEF InsertNewClient, ValidateWebClient, Quiet
    <3>3. CASE SaveEmployee(t)
      BY <1>0, <3>1, <3>3 DEF SaveEmployee, Quiet, ThreadState
    <3>4. CASE SendEmail(t)
      BY <1>0, <3>1, <3>4 DEF SendEmail, Quiet, ThreadState
    <3>5. CASE RemoveClient(t)
      BY <1>0, <3>1, <3>5 DEF RemoveClient, Quiet, ThreadState
    <3>6. CASE RemoveEmployee(t)
      BY <1>0, <3>1, <3>6 DEF RemoveEmployee, Quiet, ThreadState
    <3>. QED BY <1>1, <3>2, <3>3, <3>4, <3>5, <3>6
  <2>. QED BY <2>1, <2>2, <2>3, SessionQuiet
<1>2. ASSUME NEW t \in Thread, PushSession(t)
      PROVE  SessionInv'
  <2>. DEFINE ws == [id |-> NewSessionId, user |-> th[t].user, cid |-> th[t].cid]
  <2>1. /\ th' = [th EXCEPT ![t] = Quiet]
        /\ pages' = pages \cup {ws}
        /\ \/ web_sessions' = Append(web_sessions, ws) /\ gone' = gone
           \/ /\ web_sessions' = web_sessions
              /\ gone' = [gone EXCEPT !.raced = @ \cup {ws.id}]
    BY <1>2 DEF PushSession
  <2>2. ws \in Session /\ ws.id = Cardinality(pages) + 1 /\ Cardinality(pages) \in Nat
    <3>1. th[t].user \in User /\ th[t].cid \in Nat
      BY <1>2 DEF TypeInv, RequestsNamed, PushSession
    <3>2. Cardinality(pages) \in Nat
      BY <1>0, FS_CardinalityType
    <3>. QED BY <3>1, <3>2 DEF Session, NewSessionId
  <2>. HIDE DEF ws
  <2>3. ws \notin pages
    BY <2>2 DEF SessionInv, IdsCounted
  <2>4. Cardinality(pages') = Cardinality(pages) + 1
    BY <1>0, <2>1, <2>3, FS_AddElement
  <2>5. IdsCounted'
    BY <2>1, <2>2, <2>4 DEF SessionInv, IdsCounted
  <2>6. /\ DOMAIN web_sessions \subseteq DOMAIN web_sessions'
        /\ \A i \in DOMAIN web_sessions : web_sessions'[i] = web_sessions[i]
        /\ \A i \in DOMAIN web_sessions' \ DOMAIN web_sessions : web_sessions'[i] = ws
    <3>1. CASE web_sessions' = Append(web_sessions, ws)
      BY <1>0, <2>2, <3>1, AppendProperties
    <3>2. CASE web_sessions' = web_sessions
      BY <3>2
    <3>. QED BY <2>1, <3>1, <3>2
  <2>7. SessionsHavePages'
    BY <2>1, <2>6 DEF SessionInv, SessionsHavePages
  <2>8. IndexStands'
    BY <1>0, <2>1, <2>6 DEF SessionInv, IndexStands, Quiet
  <2>9. PagesKeepTheirSession'
    <3>1. \/ \E i \in DOMAIN web_sessions' : web_sessions'[i].id = ws.id
          \/ ws.id \in gone'.raced
      BY <1>0, <2>1, <2>2, AppendProperties
    <3>2. gone.unloaded \cup gone.raced \subseteq gone'.unloaded \cup gone'.raced
      BY <1>0, <2>1
    <3>. QED BY <2>1, <2>6, <3>1, <3>2 DEF SessionInv, PagesKeepTheirSession
  <2>. QED BY <2>5, <2>7, <2>8, <2>9 DEF SessionInv
<1>3. ASSUME NEW t \in Thread, NEW p \in pages, GetWebSession(t, p)
      PROVE  SessionInv'
  <2>1. /\ UNCHANGED <<web_sessions, pages, gone>>
        /\ th' = [th EXCEPT ![t] = [Quiet EXCEPT !.pc = "erase", !.user = p.user,
                        !.cid = p.cid, !.index = IndexOf(p.user, p.cid)]]
        /\ Matching(p.user, p.cid) # {}
    BY <1>3 DEF GetWebSession
  <2>2. LET i == IndexOf(p.user, p.cid)
        IN  /\ i \in DOMAIN web_sessions
            /\ web_sessions[i].user = p.user /\ web_sessions[i].cid = p.cid
    BY <1>0, <2>1, IndexOfFacts
  <2>3. IndexStands'
    BY <1>0, <2>1, <2>2 DEF SessionInv, IndexStands, Quiet
  <2>. QED BY <2>1, <2>3
           DEF SessionInv, IdsCounted, SessionsHavePages, PagesKeepTheirSession
<1>4. ASSUME NEW t \in Thread, removeItemAtIndex(t)
      PROVE  SessionInv'
  <2>1. CASE th[t].index \notin DOMAIN web_sessions
    <3>1. th' = [th EXCEPT ![t] = Quiet] /\ UNCHANGED <<web_sessions, gone, pages>>
      BY <1>4, <2>1 DEF removeItemAtIndex
    <3>. QED BY <1>0, <3>1, SessionQuiet DEF Quiet
  <2>2. CASE th[t].index \in DOMAIN web_sessions
    <3>. DEFINE i == th[t].index
                taken == web_sessions[i]
    <3>1. i \in 1..Len(web_sessions) /\ taken \in Session
      BY <1>0, <2>2
    <3>2. /\ web_sessions' = Erased(web_sessions, i)
          /\ th' = [x \in Thread |->
                      IF x = t THEN Quiet
                      ELSE IF th[x].pc = "erase" /\ th[x].index >= i
                      THEN [th[x] EXCEPT !.raced = TRUE]
                      ELSE th[x]]
          /\ UNCHANGED pages
      BY <1>4, <2>2 DEF removeItemAtIndex, Erased
    <3>3. /\ Len(web_sessions') = Len(web_sessions) - 1
          /\ web_sessions' \in Seq(Session)
          /\ \A j \in 1..(Len(web_sessions) - 1) :
                web_sessions'[j] = IF j < i THEN web_sessions[j] ELSE web_sessions[j + 1]
      BY <1>0, <3>1, <3>2, ErasedFacts
    <3>4. DOMAIN web_sessions' = 1..(Len(web_sessions) - 1)
      BY <3>3
    <3>5. IdsCounted'
      BY <3>2 DEF SessionInv, IdsCounted
    <3>6. SessionsHavePages'
      BY <1>0, <3>1, <3>2, <3>3, <3>4 DEF SessionInv, SessionsHavePages
    <3>7. IndexStands'
      <4>1. SUFFICES ASSUME NEW x \in Thread, th'[x].pc = "erase", ~th'[x].raced
                     PROVE  /\ th'[x].index \in DOMAIN web_sessions'
                            /\ web_sessions'[th'[x].index].user = th'[x].user
                            /\ web_sessions'[th'[x].index].cid = th'[x].cid
        BY DEF IndexStands
      <4>2. th[x] \in ThreadState
        BY <1>0
      <4>3. x # t /\ th'[x] = th[x] /\ ~(th[x].index >= i)
        BY <3>2, <4>1, <4>2 DEF Quiet, ThreadState
      <4>4. /\ th[x].index \in DOMAIN web_sessions
            /\ web_sessions[th[x].index].user = th[x].user
            /\ web_sessions[th[x].index].cid = th[x].cid
        BY <4>1, <4>3 DEF SessionInv, IndexStands
      <4>. QED BY <1>0, <3>1, <3>3, <3>4, <4>3, <4>4
    <3>8. PagesKeepTheirSession'
      <4>1. gone' \in {[gone EXCEPT !.unloaded = @ \cup {taken.id}],
                       [gone EXCEPT !.raced = @ \cup {taken.id}]}
        <5>1. th[t].pc = "erase"
          BY <1>4 DEF removeItemAtIndex
        <5>2. ~th[t].raced => taken.user = th[t].user /\ taken.cid = th[t].cid
          BY <5>1 DEF SessionInv, IndexStands
        <5>. QED BY <1>4, <2>2, <5>2 DEF removeItemAtIndex
      <4>2. /\ gone.unloaded \cup gone.raced \subseteq gone'.unloaded \cup gone'.raced
            /\ taken.id \in gone'.unloaded \cup gone'.raced
        BY <1>0, <4>1
      <4>3. ASSUME NEW k \in DOMAIN web_sessions, k # i
            PROVE  \E j \in DOMAIN web_sessions' : web_sessions'[j] = web_sessions[k]
        <5>1. CASE k < i
          BY <1>0, <3>1, <3>3, <3>4, <4>3, <5>1
        <5>2. CASE k > i
          <6>1. k - 1 \in 1..(Len(web_sessions) - 1) /\ ~(k - 1 < i) /\ (k - 1) + 1 = k
            BY <1>0, <3>1, <4>3, <5>2
          <6>. QED BY <3>3, <3>4, <6>1
        <5>. QED BY <1>0, <3>1, <4>3, <5>1, <5>2
      <4>4. ASSUME NEW p \in pages
            PROVE  \/ \E j \in DOMAIN web_sessions' : web_sessions'[j].id = p.id
                   \/ p.id \in gone'.unloaded \cup gone'.raced
        <5>1. CASE p.id \in gone.unloaded \cup gone.raced
          BY <4>2, <5>1
        <5>2. ASSUME NEW k \in DOMAIN web_sessions, web_sessions[k].id = p.id
              PROVE  \/ \E j \in DOMAIN web_sessions' : web_sessions'[j].id = p.id
                     \/ p.id \in gone'.unloaded \cup gone'.raced
          BY <4>2, <4>3, <5>2
        <5>. QED BY <5>1, <5>2 DEF SessionInv, PagesKeepTheirSession
      <4>. QED BY <3>2, <4>4 DEF PagesKeepTheirSession
    <3>. QED BY <3>5, <3>6, <3>7, <3>8 DEF SessionInv
  <2>. QED BY <2>1, <2>2
<1>5. ASSUME NEW m \in Mobile, MobileRequest(m)
      PROVE  SessionInv'
  <2>1. UNCHANGED <<web_sessions, pages, gone, th>>
    BY <1>5 DEF MobileRequest, ValidateMobileClient, UpdateLoginStsById,
                SendEmpProfileFromMobile
  <2>. QED BY <2>1, SessionQuiet
<1>6. CASE ServerStops
  <2>1. /\ web_sessions' = <<>> /\ pages' = {}
        /\ th' = [t \in Thread |-> Quiet]
    BY <1>6 DEF ServerStops
  <2>. QED BY <2>1 DEF SessionInv, IdsCounted, SessionsHavePages, IndexStands,
                       PagesKeepTheirSession, Quiet
<1>7. CASE UNCHANGED vars
  BY <1>7, SessionQuiet DEF vars
<1>. QED BY <1>1, <1>2, <1>3, <1>4, <1>5, <1>6, <1>7 DEF Next, WebRequest

(* The sessions are in order from the start, and stay so.                  *)
LEMMA SessionInvariant == Spec => [](TypeInv /\ SessionInv)
<1>1. Init => SessionInv
  BY DEF Init, SessionInv, IdsCounted, SessionsHavePages, IndexStands,
         PagesKeepTheirSession, Quiet
<1>. QED BY <1>1, TypeInit, TypeStep, SessionStep, PTL DEF Spec

(* A page loses its session only to an unload of its user and client, or    *)
(* when two threads change the vector at the same time.                    *)
THEOREM SessionsKept == Spec => []PagesKeepTheirSession
<1>1. SessionInv => PagesKeepTheirSession
  BY DEF SessionInv
<1>. QED BY <1>1, SessionInvariant, PTL

-----------------------------------------------------------------------------
(* Accounts.  The ids a registration was given are its own until it ends,   *)
(* its rows are there until it removes them itself, and what a mobile       *)
(* remembers of its employee row agrees with the row as long as that is     *)
(* there.                                                                  *)

HasRid(t) == th[t].pc \in {"email", "rmClient", "rmEmp"}

IdsGiven ==
    /\ \A t \in Thread : Registering(t) => th[t].cid <= seq.cid /\ th[t].rid <= seq.rid
    /\ \A t \in Thread : HasRid(t) => th[t].rid \in DOMAIN emps
    /\ \A g \in regs : g.cid <= seq.cid /\ g.rid <= seq.rid
    /\ \A r \in DOMAIN emps : emps[r].cid <= seq.cid
    /\ \A m \in Mobile : mob[m].pc # "out" =>
          mob[m].cid <= seq.cid /\ mob[m].rid \in 1..seq.rid

IdsOwned ==
    /\ \A t, u \in Thread :
          /\ Registering(t) /\ Registering(u) /\ th[t].cid = th[u].cid
          /\ th[t].cid # NoCid
          => t = u
    /\ \A t \in Thread, g \in regs :
          Registering(t) /\ th[t].cid # NoCid => g.cid # th[t].cid
    /\ \A t, u \in Thread :
          HasRid(t) /\ HasRid(u) /\ th[t].rid = th[u].rid => t = u
    /\ \A t \in Thread, g \in regs : HasRid(t) => g.rid # th[t].rid

(* What a registration under way has brought about.                        *)
UnderWay ==
    \A t \in Thread :
        /\ Registering(t) /\ ~th[t].failed => th[t].cid # NoCid
        /\ th[t].pc = "save" => th[t].rid = -1
        /\ th[t].pc \in {"save", "email"} /\ th[t].cid # NoCid =>
              th[t].cid \in DOMAIN clients /\ clients[th[t].cid] = th[t].user
        /\ th[t].pc = "save" /\ th[t].cid # NoCid =>
              /\ \A r \in DOMAIN emps : emps[r].cid # th[t].cid
              /\ \A m \in Mobile : mob[m].pc # "out" => mob[m].cid # th[t].cid
        /\ HasRid(t) => emps[th[t].rid].cid = th[t].cid
        /\ th[t].pc = "rmEmp" /\ ~th[t].failed => th[t].cid \notin DOMAIN clients

(* The client is gone, or a statement of its registration failed.          *)
Excused(c) ==
    \/ c \notin DOMAIN clients
    \/ \E g \in regs : g.cid = c /\ g.failed
    \/ \E t \in Thread : Registering(t) /\ th[t].cid = c /\ th[t].failed

MobilesAgree ==
    \A m \in Mobile : mob[m].pc # "out" =>
        IF mob[m].rid \in DOMAIN emps
        THEN emps[mob[m].rid].cid = mob[m].cid
        ELSE Excused(mob[m].cid)

AccountInv ==
    /\ IdsGiven /\ IdsOwned /\ UnderWay /\ MobilesAgree
    /\ UsernamesUnique
    /\ RegisteredAccountsComplete
    /\ WithdrawnNamesAreFree
    /\ OneEmployeePerClient

(* The types that the arithmetic of ids needs.                             *)
LEMMA IdTypes ==
    ASSUME TypeInv
    PROVE  /\ seq.cid \in Nat /\ seq.rid \in Nat
           /\ DOMAIN clients \subseteq 1..seq.cid
           /\ DOMAIN emps \subseteq 1..seq.rid
           /\ \A r \in DOMAIN emps : emps[r].cid \in Int
           /\ th \in [Thread -> ThreadState]
           /\ \A t \in Thread : /\ th[t].cid \in Int /\ th[t].rid \in Int
                                /\ th[t].failed \in BOOLEAN
           /\ \A g \in regs : g.cid \in Int /\ g.rid \in Int /\ g.failed \in BOOLEAN
           /\ mob \in [Mobile -> MobileState]
           /\ \A m \in Mobile : mob[m].cid \in Int /\ mob[m].rid \in Int
<1>1. Cids \subseteq Int /\ Rids \subseteq Int
  BY DEF Cids, Rids, NoCid
<1>2. /\ seq.cid \in Nat /\ seq.rid \in Nat
      /\ DOMAIN clients \subseteq 1..seq.cid
      /\ DOMAIN emps \subseteq 1..seq.rid
      /\ th \in [Thread -> ThreadState] /\ mob \in [Mobile -> MobileState]
  BY DEF TypeInv, AccountsTypeOK
<1>3. \A r \in DOMAIN emps : emps[r].cid \in Int
  BY <1>1 DEF TypeInv, AccountsTypeOK, EmpRow
<1>4. \A t \in Thread : /\ th[t].cid \in Int /\ th[t].rid \in Int
                        /\ th[t].failed \in BOOLEAN
  BY <1>1, <1>2 DEF ThreadState
<1>5. \A g \in regs : g.cid \in Int /\ g.rid \in Int /\ g.failed \in BOOLEAN
  BY <1>1 DEF TypeInv, AccountsTypeOK, Registration
<1>6. \A m \in Mobile : mob[m].cid \in Int /\ mob[m].rid \in Int
  BY <1>1, <1>2 DEF MobileState
<1>. QED BY <1>2, <1>3, <1>4, <1>5, <1>6

(* What a registration leaves in its history.                              *)
LEMMA AnsweredFields ==
    ASSUME NEW t, NEW res
    PROVE  LET g == Answered(t, res)
               h == [g EXCEPT !.failed = TRUE]
           IN  /\ g.cid = th[t].cid /\ g.rid = th[t].rid /\ g.user = th[t].user
               /\ g.res = res /\ g.failed = th[t].failed
               /\ h.cid = th[t].cid /\ h.rid = th[t].rid /\ h.failed
BY DEF Answered

(* Steps that leave the tables, the mobiles and the registrations alone.    *)
LEMMA AccountQuiet ==
    ASSUME AccountInv, UNCHANGED <<tables, regs, mob>>,
           \A t \in Thread : Registering(t) \/ Registering(t)' => th'[t] = th[t]
    PROVE  AccountInv'
<1>0. UNCHANGED <<clients, emps, seq>>
  BY DEF tables
<1>1. \A t \in Thread : /\ Registering(t)' <=> Registering(t)
                        /\ HasRid(t)' <=> HasRid(t)
                        /\ HasRid(t) => Registering(t)
  BY DEF Registering, HasRid
<1>2. IdsGiven' /\ IdsOwned'
  BY <1>0, <1>1 DEF AccountInv, IdsGiven, IdsOwned
<1>3. UnderWay'
  BY <1>0, <1>1 DEF AccountInv, UnderWay, Registering
<1>4. \A c : Excused(c) => Excused(c)'
  BY <1>0, <1>1 DEF Excused
<1>5. MobilesAgree'
  BY <1>0, <1>4 DEF AccountInv, MobilesAgree
<1>6. UsernamesUnique' /\ RegisteredAccountsComplete' /\ WithdrawnNamesAreFree'
  BY <1>0, <1>1 DEF AccountInv, UsernamesUnique, RegisteredAccountsComplete,
                    WithdrawnNamesAreFree
<1>7. OneEmployeePerClient'
  BY <1>0, <1>4 DEF AccountInv, OneEmployeePerClient, Excused
<1>. QED BY <1>2, <1>3, <1>5, <1>6, <1>7 DEF AccountInv

(* A new client.                                                           *)
LEMMA AccountInsert ==
    ASSUME TypeInv, AccountInv, NEW t \in Thread, NEW u \in User,
           InsertNewClient(t, u)
    PROVE  AccountInv'
<1>. USE IdTypes
<1>0. /\ UNCHANGED <<emps, regs, mob>>
      /\ th[t].pc = "idle"
      /\ \A x \in Thread : x # t => th'[x] = th[x]
  BY DEF InsertNewClient
<1>1. /\ th'[t].pc = "save" /\ th'[t].user = u /\ th'[t].rid = -1
      /\ seq'.rid = seq.rid
      /\ \/ /\ th'[t].cid = seq.cid + 1 /\ seq'.cid = seq.cid + 1 /\ ~th'[t].failed
            /\ ~UsernameInUse(u)
            /\ DOMAIN clients' = DOMAIN clients \cup {seq.cid + 1}
            /\ clients'[seq.cid + 1] = u
            /\ \A c \in DOMAIN clients : clients'[c] = clients[c]
         \/ /\ th'[t].cid = NoCid /\ th'[t].failed
            /\ seq'.cid = seq.cid /\ clients' = clients
  <2>0. seq \in [cid : Nat, rid : Nat] /\ seq.cid + 1 \notin DOMAIN clients
    BY DEF TypeInv, AccountsTypeOK
  <2>1. CASE /\ ~UsernameInUse(u)
             /\ clients' = WithRow(clients, seq.cid + 1, u)
             /\ seq' = [seq EXCEPT !.cid = @ + 1]
             /\ th' = [th EXCEPT ![t] = [Quiet EXCEPT !.pc = "save", !.user = u,
                                                      !.cid = seq.cid + 1]]
    <3>1. /\ DOMAIN clients' = DOMAIN clients \cup {seq.cid + 1}
          /\ clients'[seq.cid + 1] = u
          /\ \A c \in DOMAIN clients : clients'[c] = clients[c]
      BY <2>0, <2>1 DEF WithRow
    <3>2. seq'.cid = seq.cid + 1 /\ seq'.rid = seq.rid
      BY <2>0, <2>1
    <3>3. /\ th'[t].pc = "save" /\ th'[t].user = u /\ th'[t].cid = seq.cid + 1
          /\ th'[t].rid = -1 /\ ~th'[t].failed
      BY <2>1 DEF Quiet
    <3>. QED BY <2>1, <3>1, <3>2, <3>3
  <2>2. CASE /\ th' = [th EXCEPT ![t] = [Quiet EXCEPT !.pc = "save", !.user = u,
                                                      !.failed = TRUE]]
             /\ UNCHANGED <<clients, seq>>
    BY <2>2 DEF Quiet
  <2>. QED BY <2>1, <2>2 DEF InsertNewClient
<1>2. /\ ~Registering(t) /\ ~HasRid(t) /\ Registering(t)' /\ ~HasRid(t)'
      /\ \A x \in Thread : x # t => /\ Registering(x)' <=> Registering(x)
                                    /\ HasRid(x)' <=> HasRid(x)
  BY <1>0, <1>1 DEF Registering, HasRid
<1>3. IdsGiven'
  BY <1>0, <1>1, <1>2 DEF AccountInv, IdsGiven, NoCid
<1>4. IdsOwned'
  BY <1>0, <1>1, <1>2 DEF AccountInv, IdsOwned, IdsGiven, NoCid
<1>5. UnderWay'
  BY <1>0, <1>1, <1>2 DEF AccountInv, UnderWay, IdsGiven, Registering, HasRid, NoCid
<1>6. \A c \in Int : c <= seq.cid /\ Excused(c) => Excused(c)'
  BY <1>0, <1>1, <1>2 DEF Excused
<1>7. MobilesAgree'
  BY <1>0, <1>6 DEF AccountInv, MobilesAgree, IdsGiven
<1>8. UsernamesUnique'
  BY <1>0, <1>1 DEF AccountInv, UsernamesUnique, UsernameInUse
<1>9. RegisteredAccountsComplete'
  BY <1>0, <1>1 DEF AccountInv, RegisteredAccountsComplete
<1>10. WithdrawnNamesAreFree'
  BY <1>0, <1>1, <1>2 DEF AccountInv, WithdrawnNamesAreFree
<1>11. OneEmployeePerClient'
  BY <1>0, <1>6 DEF AccountInv, OneEmployeePerClient, IdsGiven, Excused
<1>. QED BY <1>3, <1>4, <1>5, <1>7, <1>8, <1>9, <1>10, <1>11 DEF AccountInv

(* The employee of a registration.                                         *)
LEMMA AccountSave ==
    ASSUME TypeInv, AccountInv, NEW t \in Thread, SaveEmployee(t)
    PROVE  AccountInv'
<1>. USE IdTypes
<1>0. /\ UNCHANGED <<clients, mob>> /\ seq'.cid = seq.cid
      /\ th[t].pc = "save" /\ Registering(t) /\ ~HasRid(t)
      /\ \A x \in Thread : x # t => th'[x] = th[x]
      /\ \A x \in Thread : x # t => /\ Registering(x)' <=> Registering(x)
                                    /\ HasRid(x)' <=> HasRid(x)
  <2>1. seq \in [cid : Nat, rid : Nat]
    BY DEF TypeInv, AccountsTypeOK
  <2>. QED BY <2>1 DEF SaveEmployee, NextRid, Registering, HasRid
<1>1. CASE /\ th'[t].pc = "email" /\ th'[t].cid = th[t].cid
           /\ th'[t].user = th[t].user /\ th'[t].failed = th[t].failed
           /\ th'[t].rid = seq.rid + 1 /\ seq'.rid = seq.rid + 1
           /\ DOMAIN emps' = DOMAIN emps \cup {seq.rid + 1}
           /\ emps'[seq.rid + 1].cid = th[t].cid
           /\ \A r \in DOMAIN emps : emps'[r] = emps[r]
           /\ UNCHANGED regs
  <2>0. Registering(t)' /\ HasRid(t)' /\ seq.rid + 1 \notin DOMAIN emps
    BY <1>1 DEF Registering, HasRid
  <2>1. IdsGiven'
    BY <1>0, <1>1, <2>0 DEF AccountInv, IdsGiven
  <2>2. IdsOwned'
    BY <1>0, <1>1, <2>0 DEF AccountInv, IdsOwned, IdsGiven, HasRid
  <2>3. UnderWay'
    BY <1>0, <1>1, <2>0 DEF AccountInv, UnderWay, IdsGiven, IdsOwned, Registering, HasRid
  <2>4. \A c : Excused(c) => Excused(c)'
    BY <1>0, <1>1, <2>0 DEF Excused
  <2>5. MobilesAgree'
    BY <1>0, <1>1, <2>0, <2>4 DEF AccountInv, MobilesAgree, IdsGiven
  <2>6. UsernamesUnique' /\ WithdrawnNamesAreFree'
    BY <1>0, <1>1, <2>0 DEF AccountInv, UsernamesUnique, WithdrawnNamesAreFree
  <2>7. RegisteredAccountsComplete'
    BY <1>0, <1>1, <2>0 DEF AccountInv, RegisteredAccountsComplete
  <2>8. OneEmployeePerClient'
    <3>1. Excused(NoCid)'
      BY <1>0 DEF Excused, NoCid
    <3>2. th[t].cid # NoCid => \A r \in DOMAIN emps : emps[r].cid # th[t].cid
      BY <1>0 DEF AccountInv, UnderWay
    <3>3. ASSUME NEW c, NEW q \in DOMAIN emps', NEW r \in DOMAIN emps', q # r,
                 emps'[q].cid = c, emps'[r].cid = c
          PROVE  Excused(c)'
      <4>1. CASE q \in DOMAIN emps /\ r \in DOMAIN emps
        <5>1. Excused(c)
          BY <1>1, <3>3, <4>1 DEF AccountInv, OneEmployeePerClient, Excused
        <5>. QED BY <2>4, <5>1
      <4>2. CASE q \notin DOMAIN emps \/ r \notin DOMAIN emps
        BY <1>1, <3>1, <3>2, <3>3, <4>2
      <4>. QED BY <4>1, <4>2
    <3>. QED BY <3>3 DEF OneEmployeePerClient, Excused
  <2>. QED BY <2>1, <2>2, <2>3, <2>5, <2>6, <2>7, <2>8 DEF AccountInv
<1>2. CASE /\ regs' = regs \cup {[Answered(t, "name") EXCEPT !.failed = TRUE]}
           /\ th' = [th EXCEPT ![t] = Quiet]
           /\ UNCHANGED <<emps, seq>>
  <2>. DEFINE h == [Answered(t, "name") EXCEPT !.failed = TRUE]
  <2>0. /\ ~Registering(t)' /\ ~HasRid(t)'
        /\ regs' = regs \cup {h}
        /\ h.cid = th[t].cid /\ h.rid = -1 /\ h.failed
    BY <1>0, <1>2, AnsweredFields DEF Registering, HasRid, Quiet, AccountInv, UnderWay
  <2>. HIDE DEF h
  <2>1. IdsGiven'
    BY <1>0, <1>2, <2>0 DEF AccountInv, IdsGiven
  <2>2. IdsOwned'
    BY <1>0, <1>2, <2>0 DEF AccountInv, IdsOwned, IdsGiven
  <2>3. UnderWay'
    BY <1>0, <1>2, <2>0 DEF AccountInv, UnderWay, Registering, HasRid
  <2>4. \A c : Excused(c) => Excused(c)'
    BY <1>0, <1>2, <2>0 DEF Excused
  <2>5. MobilesAgree'
    BY <1>0, <1>2, <2>4 DEF AccountInv, MobilesAgree
  <2>6. UsernamesUnique' /\ WithdrawnNamesAreFree'
    BY <1>0, <1>2, <2>0 DEF AccountInv, UsernamesUnique, WithdrawnNamesAreFree
  <2>7. RegisteredAccountsComplete'
    BY <1>0, <1>2, <2>0 DEF AccountInv, RegisteredAccountsComplete
  <2>8. OneEmployeePerClient'
    BY <1>0, <1>2, <2>4 DEF AccountInv, OneEmployeePerClient, Excused
  <2>. QED BY <2>1, <2>2, <2>3, <2>5, <2>6, <2>7, <2>8 DEF AccountInv
<1>3. \/ /\ emps' = WithRow(emps, seq.rid + 1, [user |-> th[t].user,
                                cid |-> th[t].cid, LoginSts |-> 0])
         /\ seq' = NextRid
         /\ th' = [th EXCEPT ![t].pc = "email", ![t].rid = seq.rid + 1]
         /\ UNCHANGED <<regs, count>>
      \/ /\ regs' = regs \cup {[Answered(t, "name") EXCEPT !.failed = TRUE]}
         /\ th' = [th EXCEPT ![t] = Quiet]
         /\ UNCHANGED <<emps, seq>>
  BY DEF SaveEmployee
<1>4. ASSUME /\ emps' = WithRow(emps, seq.rid + 1, [user |-> th[t].user,
                                   cid |-> th[t].cid, LoginSts |-> 0])
             /\ seq' = NextRid
             /\ th' = [th EXCEPT ![t].pc = "email", ![t].rid = seq.rid + 1]
             /\ UNCHANGED <<regs, count>>
      PROVE  AccountInv'
  <2>1. seq \in [cid : Nat, rid : Nat] /\ th[t] \in ThreadState
    BY DEF TypeInv, AccountsTypeOK
  <2>2. seq'.rid = seq.rid + 1
    BY <1>4, <2>1 DEF NextRid
  <2>3. /\ th'[t].pc = "email" /\ th'[t].cid = th[t].cid
        /\ th'[t].user = th[t].user /\ th'[t].failed = th[t].failed
        /\ th'[t].rid = seq.rid + 1
    BY <1>4, <2>1 DEF ThreadState
  <2>4. /\ DOMAIN emps' = DOMAIN emps \cup {seq.rid + 1}
        /\ emps'[seq.rid + 1].cid = th[t].cid
        /\ \A r \in DOMAIN emps : emps'[r] = emps[r]
    <3>1. seq.rid + 1 \notin DOMAIN emps
      OBVIOUS
    <3>. QED BY <1>4, <3>1 DEF WithRow
  <2>. QED BY <1>1, <1>4, <2>2, <2>3, <2>4
<1>. QED BY <1>2, <1>3, <1>4

(* The registration e-mail.                                                *)
LEMMA AccountEmail ==
    ASSUME TypeInv, AccountInv, NEW t \in Thread, SendEmail(t)
    PROVE  AccountInv'
<1>. USE IdTypes
<1>0. /\ UNCHANGED <<clients, emps, seq, mob>>
      /\ th[t].pc = "email" /\ Registering(t) /\ HasRid(t)
      /\ \A x \in Thread : x # t => th'[x] = th[x]
      /\ \A x \in Thread : x # t => /\ Registering(x)' <=> Registering(x)
                                    /\ HasRid(x)' <=> HasRid(x)
  BY DEF SendEmail, tables, Registering, HasRid
<1>1. CASE regs' = regs \cup {Answered(t, "OK")} /\ th' = [th EXCEPT ![t] = Quiet]
  <2>. DEFINE h == Answered(t, "OK")
  <2>0. /\ ~Registering(t)' /\ ~HasRid(t)'
        /\ regs' = regs \cup {h}
        /\ h.cid = th[t].cid /\ h.rid = th[t].rid /\ h.user = th[t].user
        /\ h.res = "OK" /\ h.failed = th[t].failed
    BY <1>1, AnsweredFields DEF Registering, HasRid, Quiet
  <2>. HIDE DEF h
  <2>1. IdsGiven'
    BY <1>0, <2>0 DEF AccountInv, IdsGiven
  <2>2. IdsOwned'
    BY <1>0, <2>0 DEF AccountInv, IdsOwned
  <2>3. UnderWay'
    BY <1>0, <2>0 DEF AccountInv, UnderWay, Registering, HasRid
  <2>4. \A c : Excused(c) => Excused(c)'
    BY <1>0, <2>0 DEF Excused
  <2>5. MobilesAgree'
    BY <1>0, <2>4 DEF AccountInv, MobilesAgree
  <2>6. UsernamesUnique' /\ WithdrawnNamesAreFree'
    BY <1>0, <2>0 DEF AccountInv, UsernamesUnique, WithdrawnNamesAreFree
  <2>7. RegisteredAccountsComplete'
    <3>1. ~th[t].failed =>
             /\ th[t].cid \in DOMAIN clients /\ clients[th[t].cid] = th[t].user
             /\ th[t].rid \in DOMAIN emps /\ emps[th[t].rid].cid = th[t].cid
      BY <1>0 DEF AccountInv, UnderWay, IdsGiven
    <3>. QED BY <1>0, <2>0, <3>1 DEF AccountInv, RegisteredAccountsComplete
  <2>8. OneEmployeePerClient'
    BY <1>0, <2>4 DEF AccountInv, OneEmployeePerClient, Excused
  <2>. QED BY <2>1, <2>2, <2>3, <2>5, <2>6, <2>7, <2>8 DEF AccountInv
<1>2. CASE UNCHANGED regs /\ th' = [th EXCEPT ![t].pc = "rmClient"]
  <2>0. /\ th'[t].pc = "rmClient" /\ th'[t].cid = th[t].cid /\ th'[t].rid = th[t].rid
        /\ th'[t].failed = th[t].failed
        /\ Registering(t)' /\ HasRid(t)'
    BY <1>2 DEF Registering, HasRid, ThreadState
  <2>1. IdsGiven' /\ IdsOwned'
    BY <1>0, <1>2, <2>0 DEF AccountInv, IdsGiven, IdsOwned
  <2>3. UnderWay'
    BY <1>0, <2>0 DEF AccountInv, UnderWay, Registering, HasRid
  <2>4. \A c : Excused(c) => Excused(c)'
    BY <1>0, <1>2, <2>0 DEF Excused
  <2>5. MobilesAgree'
    BY <1>0, <2>4 DEF AccountInv, MobilesAgree
  <2>6. UsernamesUnique' /\ WithdrawnNamesAreFree' /\ RegisteredAccountsComplete'
    BY <1>0, <1>2, <2>0 DEF AccountInv, UsernamesUnique, WithdrawnNamesAreFree,
                            RegisteredAccountsComplete
  <2>7. OneEmployeePerClient'
    BY <1>0, <2>4 DEF AccountInv, OneEmployeePerClient, Excused
  <2>. QED BY <2>1, <2>3, <2>5, <2>6, <2>7 DEF AccountInv
<1>. QED BY <1>1, <1>2 DEF SendEmail

(* The client of a withdrawn registration is removed.                      *)
LEMMA AccountRemoveClient ==
    ASSUME TypeInv, AccountInv, NEW t \in Thread, RemoveClient(t)
    PROVE  AccountInv'
<1>. USE IdTypes
<1>0. /\ UNCHANGED <<emps, seq, regs, mob>>
      /\ th[t].pc = "rmClient" /\ Registering(t) /\ HasRid(t)
      /\ \A x \in Thread : x # t => th'[x] = th[x]
      /\ \A x \in Thread : x # t => /\ Registering(x)' <=> Registering(x)
                                    /\ HasRid(x)' <=> HasRid(x)
  BY DEF RemoveClient, Registering, HasRid
<1>1. /\ th'[t].pc = "rmEmp" /\ th'[t].cid = th[t].cid /\ th'[t].rid = th[t].rid
      /\ Registering(t)' /\ HasRid(t)'
      /\ \/ /\ th'[t].failed = th[t].failed
            /\ DOMAIN clients' = DOMAIN clients \ {th[t].cid}
            /\ \A c \in DOMAIN clients' : clients'[c] = clients[c]
         \/ clients' = clients /\ th'[t].failed
  <2>1. th[t] \in ThreadState
    OBVIOUS
  <2>2. CASE /\ clients' = Without(clients, th[t].cid)
             /\ th' = [th EXCEPT ![t].pc = "rmEmp"]
    BY <2>1, <2>2 DEF Without, Registering, HasRid, ThreadState
  <2>3. CASE /\ th' = [th EXCEPT ![t].pc = "rmEmp", ![t].failed = TRUE]
             /\ UNCHANGED clients
    BY <2>1, <2>3 DEF Registering, HasRid, ThreadState
  <2>. QED BY <2>2, <2>3 DEF RemoveClient
<1>2. IdsGiven' /\ IdsOwned'
  BY <1>0, <1>1 DEF AccountInv, IdsGiven, IdsOwned
<1>3. UnderWay'
  <2>1. ASSUME NEW x \in Thread, x # t, th[x].pc \in {"save", "email"}, th[x].cid # NoCid
        PROVE  th[x].cid # th[t].cid
    BY <1>0, <2>1 DEF AccountInv, IdsOwned, Registering
  <2>. QED BY <1>0, <1>1, <2>1 DEF AccountInv, UnderWay, Registering, HasRid
<1>4. \A c : Excused(c) => Excused(c)'
  BY <1>0, <1>1 DEF Excused
<1>5. MobilesAgree'
  BY <1>0, <1>4 DEF AccountInv, MobilesAgree
<1>6. UsernamesUnique'
  BY <1>1 DEF AccountInv, UsernamesUnique
<1>7. WithdrawnNamesAreFree'
  BY <1>0, <1>1 DEF AccountInv, WithdrawnNamesAreFree
<1>8. RegisteredAccountsComplete'
  <2>1. ASSUME NEW g \in regs, g.cid \in DOMAIN clients
        PROVE  g.cid # th[t].cid
    BY <1>0, <2>1 DEF AccountInv, IdsOwned, NoCid
  <2>. QED BY <1>0, <1>1, <2>1 DEF AccountInv, RegisteredAccountsComplete
<1>9. OneEmployeePerClient'
  BY <1>0, <1>4 DEF AccountInv, OneEmployeePerClient, Excused
<1>. QED BY <1>2, <1>3, <1>5, <1>6, <1>7, <1>8, <1>9 DEF AccountInv

(* The employee of a withdrawn registration is removed.                    *)
LEMMA AccountRemoveEmployee ==
    ASSUME TypeInv, AccountInv, NEW t \in Thread, RemoveEmployee(t)
    PROVE  AccountInv'
<1>. USE IdTypes
<1>0. /\ UNCHANGED <<clients, seq, mob>>
      /\ th[t].pc = "rmEmp" /\ Registering(t) /\ HasRid(t)
      /\ ~Registering(t)' /\ ~HasRid(t)'
      /\ \A x \in Thread : x # t => th'[x] = th[x]
      /\ \A x \in Thread : x # t => /\ Registering(x)' <=> Registering(x)
                                    /\ HasRid(x)' <=> HasRid(x)
  BY DEF RemoveEmployee, Registering, HasRid, Quiet
<1>1. PICK h :
         /\ regs' = regs \cup {h}
         /\ h.cid = th[t].cid /\ h.rid = th[t].rid /\ h.res = "email"
         /\ th[t].failed => h.failed
         /\ \/ /\ DOMAIN emps' = DOMAIN emps \ {th[t].rid}
               /\ \A r \in DOMAIN emps' : emps'[r] = emps[r]
            \/ emps' = emps /\ h.failed
  <2>1. CASE /\ emps' = Without(emps, th[t].rid)
             /\ regs' = regs \cup {Answered(t, "email")}
    BY <2>1, AnsweredFields DEF Without
  <2>2. CASE /\ regs' = regs \cup {[Answered(t, "email") EXCEPT !.failed = TRUE]}
             /\ UNCHANGED emps
    <3>1. [Answered(t, "email") EXCEPT !.failed = TRUE].res = "email"
      BY DEF Answered
    <3>. QED BY <2>2, <3>1, AnsweredFields
  <2>. QED BY <2>1, <2>2 DEF RemoveEmployee
<1>2. /\ th[t].cid <= seq.cid /\ th[t].rid <= seq.rid /\ th[t].rid \in DOMAIN emps
      /\ emps[th[t].rid].cid = th[t].cid
      /\ ~th[t].failed => th[t].cid \notin DOMAIN clients
  BY <1>0 DEF AccountInv, IdsGiven, UnderWay
<1>3. \A x \in Thread : x # t /\ HasRid(x) => th[x].rid # th[t].rid
  BY <1>0 DEF AccountInv, IdsOwned
<1>4. IdsGiven'
  BY <1>0, <1>1, <1>2, <1>3 DEF AccountInv, IdsGiven
<1>5. IdsOwned'
  BY <1>0, <1>1 DEF AccountInv, IdsOwned
<1>6. UnderWay'
  <2>1. \A r \in DOMAIN emps' : r \in DOMAIN emps /\ emps'[r] = emps[r]
    BY <1>1
  <2>2. \A x \in Thread : HasRid(x)' => th[x].rid \in DOMAIN emps'
    BY <1>0, <1>1, <1>3 DEF AccountInv, IdsGiven
  <2>. QED BY <1>0, <2>1, <2>2 DEF AccountInv, UnderWay, Registering, HasRid
<1>7. \A c : Excused(c) => Excused(c)'
  BY <1>0, <1>1 DEF Excused
<1>8. \A c : c = th[t].cid => Excused(c)'
  BY <1>0, <1>1, <1>2 DEF Excused
<1>9. MobilesAgree'
  BY <1>0, <1>1, <1>2, <1>7, <1>8 DEF AccountInv, MobilesAgree
<1>10. UsernamesUnique'
  BY <1>0 DEF AccountInv, UsernamesUnique
<1>11. WithdrawnNamesAreFree'
  BY <1>0, <1>1, <1>2 DEF AccountInv, WithdrawnNamesAreFree
<1>12. RegisteredAccountsComplete'
  <2>1. \A g \in regs : g.rid # th[t].rid
    BY <1>0 DEF AccountInv, IdsOwned
  <2>. QED BY <1>0, <1>1, <2>1 DEF AccountInv, RegisteredAccountsComplete
<1>13. OneEmployeePerClient'
  BY <1>0, <1>1, <1>7 DEF AccountInv, OneEmployeePerClient, Excused
<1>. QED BY <1>4, <1>5, <1>6, <1>9, <1>10, <1>11, <1>12, <1>13 DEF AccountInv

(* The requests of mobiles.                                                *)
LEMMA AccountMobile ==
    ASSUME TypeInv, AccountInv, NEW m \in Mobile, MobileRequest(m)
    PROVE  AccountInv'
<1>. USE IdTypes
<1>0. /\ UNCHANGED <<clients, th, regs>>
      /\ \A n \in Mobile : n # m => mob'[n] = mob[n]
      /\ \A x \in Thread : /\ Registering(x)' <=> Registering(x)
                           /\ HasRid(x)' <=> HasRid(x)
  <2>1. UNCHANGED <<clients, th, regs>>
    BY DEF MobileRequest, ValidateMobileClient, UpdateLoginStsById,
           SendEmpProfileFromMobile, tables
  <2>2. \A n \in Mobile : n # m => mob'[n] = mob[n]
    BY DEF MobileRequest, ValidateMobileClient, UpdateLoginStsById,
           SendEmpProfileFromMobile
  <2>. QED BY <2>1, <2>2 DEF Registering, HasRid
<1>1. \A c : Excused(c) => Excused(c)'
  BY <1>0 DEF Excused
<1>2. UsernamesUnique' /\ WithdrawnNamesAreFree'
  BY <1>0 DEF AccountInv, UsernamesUnique, WithdrawnNamesAreFree
<1>3. ASSUME NEW u \in User, ValidateMobileClient(m, u)
      PROVE  AccountInv'
  <2>1. UNCHANGED <<emps, seq>>
    BY <1>3 DEF ValidateMobileClient, tables
  <2>2. \/ mob'[m].pc = "out"
        \/ /\ mob'[m].rid \in DOMAIN emps
           /\ mob'[m].cid = emps[mob'[m].rid].cid
    BY <1>3 DEF ValidateMobileClient, Found, LoggedOut
  <2>3. IdsGiven' /\ IdsOwned'
    BY <1>0, <2>1, <2>2 DEF AccountInv, IdsGiven, IdsOwned
  <2>4. UnderWay'
    BY <1>0, <2>1, <2>2 DEF AccountInv, UnderWay, Registering, HasRid
  <2>5. MobilesAgree'
    BY <1>0, <1>1, <2>1, <2>2 DEF AccountInv, MobilesAgree
  <2>6. RegisteredAccountsComplete' /\ OneEmployeePerClient'
    BY <1>0, <1>1, <2>1
       DEF AccountInv, RegisteredAccountsComplete, OneEmployeePerClient, Excused
  <2>. QED BY <1>2, <2>3, <2>4, <2>5, <2>6 DEF AccountInv
<1>4. ASSUME /\ DOMAIN emps' = DOMAIN emps
             /\ \A r \in DOMAIN emps : emps'[r].cid = emps[r].cid
             /\ UNCHANGED seq
             /\ mob[m].pc # "out" /\ mob'[m].cid = mob[m].cid
             /\ mob'[m].rid = mob[m].rid
      PROVE  AccountInv'
  <2>1. IdsGiven' /\ IdsOwned'
    BY <1>0, <1>4 DEF AccountInv, IdsGiven, IdsOwned
  <2>2. UnderWay'
    BY <1>0, <1>4 DEF AccountInv, UnderWay, IdsGiven, Registering, HasRid
  <2>3. MobilesAgree'
    BY <1>0, <1>1, <1>4 DEF AccountInv, MobilesAgree
  <2>4. RegisteredAccountsComplete' /\ OneEmployeePerClient'
    BY <1>0, <1>1, <1>4
       DEF AccountInv, RegisteredAccountsComplete, OneEmployeePerClient, Excused
  <2>. QED BY <1>2, <2>1, <2>2, <2>3, <2>4 DEF AccountInv
<1>5. CASE UpdateLoginStsById(m)
  <2>1. \A r \in DOMAIN emps : emps[r] \in EmpRow
    BY DEF TypeInv, AccountsTypeOK
  <2>2. /\ DOMAIN emps' = DOMAIN emps
        /\ \A r \in DOMAIN emps : emps'[r].cid = emps[r].cid
        /\ UNCHANGED seq
    BY <1>5, <2>1 DEF UpdateLoginStsById, EmpRow
  <2>3. mob[m].pc # "out" /\ mob'[m].cid = mob[m].cid /\ mob'[m].rid = mob[m].rid
    BY <1>5 DEF UpdateLoginStsById, MobileState
  <2>. QED BY <1>4, <2>2, <2>3
<1>6. CASE SendEmpProfileFromMobile(m)
  <2>0. mob[m].pc # "out" /\ UNCHANGED mob
    BY <1>6 DEF SendEmpProfileFromMobile
  <2>1. CASE mob[m].rid \in DOMAIN emps
    <3>1. emps[mob[m].rid] \in EmpRow /\ emps[mob[m].rid].cid = mob[m].cid
      BY <2>0, <2>1 DEF TypeInv, AccountsTypeOK, AccountInv, MobilesAgree
    <3>2. /\ emps' = [emps EXCEPT ![mob[m].rid] =
                [emps[mob[m].rid] EXCEPT !.user = mob[m].user, !.cid = mob[m].cid]]
          /\ UNCHANGED seq
      BY <1>6, <2>1 DEF SendEmpProfileFromMobile
    <3>3. /\ DOMAIN emps' = DOMAIN emps
          /\ \A r \in DOMAIN emps : emps'[r].cid = emps[r].cid
      BY <2>1, <3>1, <3>2 DEF EmpRow
    <3>. QED BY <1>4, <2>0, <3>2, <3>3
  <2>2. CASE mob[m].rid \notin DOMAIN emps
    <3>1. /\ emps' = WithRow(emps, seq.rid + 1, [user |-> mob[m].user,
                                cid |-> mob[m].cid, LoginSts |-> 0])
          /\ seq' = NextRid
      BY <1>6, <2>2 DEF SendEmpProfileFromMobile
    <3>2. seq'.rid = seq.rid + 1 /\ seq'.cid = seq.cid /\ seq.rid + 1 \notin DOMAIN emps
      BY <3>1 DEF NextRid, TypeInv, AccountsTypeOK
    <3>3. /\ DOMAIN emps' = DOMAIN emps \cup {seq.rid + 1}
          /\ emps'[seq.rid + 1].cid = mob[m].cid
          /\ \A r \in DOMAIN emps : emps'[r] = emps[r]
      BY <3>1, <3>2 DEF WithRow
    <3>4. /\ Excused(mob[m].cid) /\ mob[m].cid <= seq.cid
      BY <2>0, <2>2 DEF AccountInv, MobilesAgree, IdsGiven
    <3>5. IdsGiven' /\ IdsOwned'
      BY <1>0, <2>0, <3>2, <3>3, <3>4 DEF AccountInv, IdsGiven, IdsOwned
    <3>6. UnderWay'
      BY <1>0, <2>0, <3>3 DEF AccountInv, UnderWay, IdsGiven, Registering, HasRid
    <3>7. MobilesAgree'
      BY <1>0, <1>1, <2>0, <3>2, <3>3 DEF AccountInv, MobilesAgree, IdsGiven
    <3>8. RegisteredAccountsComplete'
      BY <1>0, <3>3 DEF AccountInv, RegisteredAccountsComplete
    <3>9. OneEmployeePerClient'
      <4>1. ASSUME NEW c, NEW q \in DOMAIN emps', NEW r \in DOMAIN emps', q # r,
                   emps'[q].cid = c, emps'[r].cid = c
            PROVE  Excused(c)'
        <5>1. CASE q \in DOMAIN emps /\ r \in DOMAIN emps
          <6>1. Excused(c)
            BY <3>3, <4>1, <5>1 DEF AccountInv, OneEmployeePerClient, Excused
          <6>. QED BY <1>1, <6>1
        <5>2. CASE q \notin DOMAIN emps \/ r \notin DOMAIN emps
          BY <1>1, <3>3, <3>4, <4>1, <5>2
        <5>. QED BY <5>1, <5>2
      <4>. QED BY <4>1 DEF OneEmployeePerClient, Excused
    <3>. QED BY <1>2, <3>5, <3>6, <3>7, <3>8, <3>9 DEF AccountInv
  <2>. QED BY <2>1, <2>2
<1>. QED BY <1>3, <1>5, <1>6 DEF MobileRequest

(* A stop of the server: what was under way is recorded as cut short.       *)
LEMMA AccountStop ==
    ASSUME TypeInv, AccountInv, ServerStops
    PROVE  AccountInv'
<1>. USE IdTypes
<1>0. /\ UNCHANGED <<clients, emps, seq>>
      /\ th' = [t \in Thread |-> Quiet]
      /\ mob' = [m \in Mobile |-> IF mob[m].pc = "sts" THEN LoggedOut ELSE mob[m]]
      /\ regs' = regs \cup {[Answered(t, "cut") EXCEPT !.failed = TRUE] :
                               t \in {x \in Thread : Registering(x)}}
  BY DEF ServerStops, tables
<1>1. \A t \in Thread : ~Registering(t)' /\ ~HasRid(t)'
  BY <1>0 DEF Registering, HasRid, Quiet
<1>2. /\ regs \subseteq regs'
      /\ \A g \in regs' : g \in regs \/ \E t \in Thread :
            Registering(t) /\ g.cid = th[t].cid /\ g.rid = th[t].rid /\ g.failed
      /\ \A t \in Thread : Registering(t) =>
            \E g \in regs' : g.cid = th[t].cid /\ g.failed
  <2>1. \A t \in Thread :
           LET h == [Answered(t, "cut") EXCEPT !.failed = TRUE]
           IN  h.cid = th[t].cid /\ h.rid = th[t].rid /\ h.failed
    BY AnsweredFields
  <2>. QED BY <1>0, <2>1
<1>3. \A m \in Mobile : mob'[m].pc # "out" => mob'[m] = mob[m]
  BY <1>0 DEF LoggedOut
<1>4. IdsGiven'
  BY <1>0, <1>1, <1>2, <1>3 DEF AccountInv, IdsGiven
<1>5. IdsOwned' /\ UnderWay'
  <2>1. \A t \in Thread : th'[t].pc = "idle"
    BY <1>0 DEF Quiet
  <2>. QED BY <1>1, <2>1 DEF IdsOwned, UnderWay
<1>6. \A c : Excused(c) => Excused(c)'
  BY <1>0, <1>2 DEF Excused
<1>7. MobilesAgree'
  BY <1>0, <1>3, <1>6 DEF AccountInv, MobilesAgree
<1>8. UsernamesUnique'
  BY <1>0 DEF AccountInv, UsernamesUnique
<1>9. WithdrawnNamesAreFree'
  <2>1. ASSUME NEW c \in DOMAIN clients
        PROVE  \E g \in regs' : g.cid = c /\ (g.res = "OK" \/ g.failed)
    <3>1. \/ \E t \in Thread : Registering(t) /\ th[t].cid = c
          \/ \E g \in regs : g.cid = c /\ (g.res = "OK" \/ g.failed)
      BY <2>1 DEF AccountInv, WithdrawnNamesAreFree
    <3>. QED BY <1>2, <3>1
  <2>. QED BY <1>0, <2>1 DEF WithdrawnNamesAreFree
<1>10. RegisteredAccountsComplete'
  BY <1>0, <1>2 DEF AccountInv, RegisteredAccountsComplete
<1>11. OneEmployeePerClient'
  <2>1. ASSUME NEW c, NEW q \in DOMAIN emps', NEW r \in DOMAIN emps', q # r,
               emps'[q].cid = c, emps'[r].cid = c
        PROVE  Excused(c)'
    <3>1. Excused(c)
      BY <1>0, <2>1 DEF AccountInv, OneEmployeePerClient, Excused
    <3>. QED BY <1>6, <3>1
  <2>. QED BY <2>1 DEF OneEmployeePerClient, Excused
<1>. QED BY <1>4, <1>5, <1>7, <1>8, <1>9, <1>10, <1>11 DEF AccountInv

(* Every step keeps the invariant of the accounts.                         *)
LEMMA AccountStep ==
    ASSUME TypeInv, AccountInv, [Next]_vars
    PROVE  AccountInv'
<1>0. th \in [Thread -> ThreadState]
  BY IdTypes
<1>1. ASSUME NEW t \in Thread,
             \/ \E u \in User : ValidateWebClient(t, u)
             \/ PushSession(t)
             \/ \E p \in pages : GetWebSession(t, p)
             \/ removeItemAtIndex(t)
      PROVE  AccountInv'
  <2>1. UNCHANGED <<tables, regs, mob>>
    BY <1>1 DEF ValidateWebClient, PushSession, GetWebSession, removeItemAtIndex
  <2>2. ~Registering(t) /\ ~Registering(t)'
    <3>1. ASSUME NEW u \in User, ValidateWebClient(t, u)
          PROVE  th[t].pc = "idle" /\ th'[t].pc = "push"
      BY <1>0, <3>1 DEF ValidateWebClient, Quiet
    <3>2. CASE PushSession(t)
      <4>1. th[t].pc = "push" /\ th'[t].pc = "idle"
        BY <1>0, <3>2 DEF PushSession, Quiet
      <4>. QED BY <4>1 DEF Registering
    <3>3. ASSUME NEW p \in pages, GetWebSession(t, p)
          PROVE  th[t].pc = "idle" /\ th'[t].pc = "erase"
      BY <1>0, <3>3 DEF GetWebSession, Quiet
    <3>4. CASE removeItemAtIndex(t)
      <4>1. th[t].pc = "erase" /\ th'[t] = Quiet
        BY <1>0, <3>4 DEF removeItemAtIndex
      <4>. QED BY <4>1 DEF Registering, Quiet
    <3>5. CASE (th[t].pc = "idle" /\ th'[t].pc \in {"push", "erase"})
      BY <3>5 DEF Registering
    <3>. QED BY <1>1, <3>1, <3>2, <3>3, <3>4, <3>5
  <2>3. ASSUME NEW x \in Thread, x # t, Registering(x) \/ Registering(x)'
        PROVE  th'[x] = th[x]
    <3>1. th[x] \in ThreadState
      BY <1>0
    <3>2. CASE removeItemAtIndex(t)
      BY <1>0, <2>3, <3>1, <3>2 DEF removeItemAtIndex, Registering, ThreadState
    <3>. QED BY <1>0, <1>1, <2>3, <3>2 DEF ValidateWebClient, PushSession, GetWebSession
  <2>. QED BY <2>1, <2>2, <2>3, AccountQuiet
<1>2. CASE UNCHANGED vars
  BY <1>2, AccountQuiet DEF vars
<1>. QED BY <1>1, <1>2, AccountInsert, AccountSave, AccountEmail, AccountRemoveClient,
            AccountRemoveEmployee, AccountMobile, AccountStop DEF Next, WebRequest

(* The accounts are in order from the start, and stay so.                  *)
LEMMA AccountInvariant == Spec => [](TypeInv /\ AccountInv)
<1>1. Init => AccountInv
  <2>. SUFFICES ASSUME Init PROVE AccountInv
    OBVIOUS
  <2>1. /\ DOMAIN clients = {} /\ DOMAIN emps = {} /\ regs = {}
        /\ \A t \in Thread : th[t].pc = "idle"
        /\ \A m \in Mobile : mob[m].pc = "out"
    BY DEF Init, EmptyTable, Quiet, LoggedOut
  <2>. QED BY <2>1
       DEF AccountInv, IdsGiven, IdsOwned, UnderWay, MobilesAgree, Registering, HasRid,
           UsernamesUnique, RegisteredAccountsComplete, WithdrawnNamesAreFree,
           OneEmployeePerClient
<1>. QED BY <1>1, TypeInit, TypeStep, AccountStep, PTL DEF Spec

(* A user name belongs to one client.                                      *)
THEOREM UsernameUniqueness == Spec => []UsernamesUnique
<1>1. AccountInv => UsernamesUnique
  BY DEF AccountInv
<1>. QED BY <1>1, AccountInvariant, PTL

(* A registration that was answered "OK" has its client and its employee.  *)
THEOREM RegistrationsComplete == Spec => []RegisteredAccountsComplete
<1>1. AccountInv => RegisteredAccountsComplete
  BY DEF AccountInv
<1>. QED BY <1>1, AccountInvariant, PTL

(* A withdrawn registration gives its user name back.                      *)
THEOREM NamesGivenBack == Spec => []WithdrawnNamesAreFree
<1>1. AccountInv => WithdrawnNamesAreFree
  BY DEF AccountInv
<1>. QED BY <1>1, AccountInvariant, PTL

(* A client has one employee row, unless a statement failed.               *)
THEOREM EmployeesUnique == Spec => []OneEmployeePerClient
<1>1. AccountInv => OneEmployeePerClient
  BY DEF AccountInv
<1>. QED BY <1>1, AccountInvariant, PTL
=============================================================================
