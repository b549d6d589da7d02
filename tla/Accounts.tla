------------------------------ MODULE Accounts ------------------------------
(***************************************************************************)
(* Accounts: the CLIENTS and EMPLOYEE tables of FleetEmployeeDB, the        *)
(* registration of PWebService.cpp that fills them in several steps, the    *)
(* login and the profile of the mobile (TCPLRequest.cpp), and the vector of *)
(* web sessions that the pages of the web server share.                    *)
(*                                                                         *)
(* Every function of FleetEmployeeDB runs under the database mutex and is   *)
(* one step; a handler is a thread that makes several of them, with the     *)
(* registration e-mail in between.  web_sessions has no mutex: a session is *)
(* looked up in one step and erased by its index in another, and additions  *)
(* that overlap may be lost.                                               *)
(*                                                                         *)
(* Ids are counted from the starting numbers of the two tables.  Passwords  *)
(* are left out: a wrong one is answered "NO" and changes nothing.         *)
(***************************************************************************)
EXTENDS Integers, Sequences, FiniteSets

CONSTANTS
    User,         \* user names people register
    Thread,       \* threads of the web server
    Mobile,       \* mobiles
    MaxReg,       \* bound on the registrations
    MaxSession,   \* bound on the logins of web pages
    MaxProfile,   \* bound on the profiles sent by mobiles
    MaxFail,      \* bound on the failing SQL statements
    MaxStop       \* bound on the stops of the server

ASSUME AccountBounds ==
    {MaxReg, MaxSession, MaxProfile, MaxFail, MaxStop} \subseteq Nat

NoCid == -1       \* Client::cid before an INSERT has given it a value

VARIABLES
    clients,       \* CLIENTS: the user name of each CID
    emps,          \* EMPLOYEE: user name, ClientID and LoginSts of each ID
    seq,           \* the AUTOINCREMENT counters of the two tables
    th,            \* what each thread of the web server is doing
    web_sessions,  \* the vector of sessions
    mob,           \* what each mobile knows of its account
    regs,          \* history: registrations that were answered or cut short
    pages,         \* history: the session ids given to pages, with their user
    gone,          \* history: session ids that an unload of their user took,
                   \* and those that a race on the vector took
    count          \* occurrences of the bounded events

tables == <<clients, emps, seq>>
vars == <<tables, th, web_sessions, mob, regs, pages, gone, count>>

Bounded == {"reg", "session", "profile", "fail", "stop"}
Use(b, max) == count[b] < max /\ count' = [count EXCEPT ![b] = @ + 1]

Quiet == [pc |-> "idle", user |-> "*", cid |-> NoCid, rid |-> -1,
          failed |-> FALSE, index |-> 0, raced |-> FALSE]
LoggedOut == [pc |-> "out", user |-> "*", cid |-> NoCid, rid |-> -1]

Without(table, i) == [j \in DOMAIN table \ {i} |-> table[j]]
WithRow(table, i, row) ==
    [j \in DOMAIN table \cup {i} |-> IF j = i THEN row ELSE table[j]]
EmptyTable == [i \in {} |-> 0]

Cids == Nat \cup {NoCid}
Rids == Nat \cup {-1}
EmpRow == [user : User, cid : Cids, LoginSts : {0, 1}]
Session == [id : Nat, user : User, cid : Nat]
ThreadState ==
    [pc : {"idle", "save", "email", "rmClient", "rmEmp", "push", "erase"},
     user : User \cup {"*"}, cid : Cids, rid : Rids,
     failed : BOOLEAN, index : Nat, raced : BOOLEAN]
MobileState ==
    [pc : {"out", "sts", "in"}, user : User \cup {"*"}, cid : Cids, rid : Rids]
Registration ==
    [user : User, cid : Cids, rid : Rids, res : {"OK", "email", "name", "cut"},
     failed : BOOLEAN]

AccountsTypeOK ==
    /\ DOMAIN clients \subseteq 1..seq.cid /\ clients \in [DOMAIN clients -> User]
    /\ DOMAIN emps \subseteq 1..seq.rid /\ emps \in [DOMAIN emps -> EmpRow]
    /\ seq \in [cid : Nat, rid : Nat]
    /\ th \in [Thread -> ThreadState]
    /\ web_sessions \in Seq(Session)
    /\ mob \in [Mobile -> MobileState]
    /\ regs \subseteq Registration
    /\ pages \subseteq Session
    /\ gone \in [unloaded : SUBSET Nat, raced : SUBSET Nat]
    /\ count \in [Bounded -> Nat]

Init ==
    /\ clients = EmptyTable
    /\ emps = EmptyTable
    /\ seq = [cid |-> 0, rid |-> 0]
    /\ th = [t \in Thread |-> Quiet]
    /\ web_sessions = <<>>
    /\ mob = [m \in Mobile |-> LoggedOut]
    /\ regs = {}
    /\ pages = {}
    /\ gone = [unloaded |-> {}, raced |-> {}]
    /\ count = [b \in Bounded |-> 0]

-----------------------------------------------------------------------------
(* Registration from the web page: processRegisterWS, one step for each     *)
(* call to the database and one for the e-mail.                            *)

Answered(t, res) ==
    [user |-> th[t].user, cid |-> th[t].cid, rid |-> th[t].rid, res |-> res,
     failed |-> th[t].failed]

(* The selected name is tested for being empty; User has no empty name.     *)
NotChecked(u) == FALSE                                              \* mutant
UsernameInUse(u) == \E i \in DOMAIN clients : clients[i] = u

(* A failed SELECT or INSERT returns 0 and leaves c.cid at -1; only a       *)
(* negative result, for a name in use, ends the registration.              *)
InsertNewClient(t, u) ==
    /\ th[t].pc = "idle"
    /\ count.reg < MaxReg
    /\ \/ /\ ~UsernameInUse(u)
          /\ clients' = WithRow(clients, seq.cid + 1, u)
          /\ seq' = [seq EXCEPT !.cid = @ + 1]
          /\ th' = [th EXCEPT ![t] = [Quiet EXCEPT !.pc = "save", !.user = u,
                                                   !.cid = seq.cid + 1]]
          /\ Use("reg", MaxReg)
       \/ /\ count.fail < MaxFail
          /\ th' = [th EXCEPT ![t] = [Quiet EXCEPT !.pc = "save", !.user = u,
                                                   !.failed = TRUE]]
          /\ count' = [count EXCEPT !.reg = @ + 1, !.fail = @ + 1]
          /\ UNCHANGED <<clients, seq>>
    /\ UNCHANGED <<emps, web_sessions, mob, regs, pages, gone>>

SameRid == seq                                                      \* mutant
NextRid == [seq EXCEPT !.rid = @ + 1]

(* SaveEmployee with id -1 inserts a row.  If that fails the answer is      *)
(* "Failed to create this username" and the CLIENTS row stays.             *)
SaveEmployee(t) ==
    /\ th[t].pc = "save"
    /\ \/ /\ emps' = WithRow(emps, seq.rid + 1, [user |-> th[t].user,
                                cid |-> th[t].cid, LoginSts |-> 0])
          /\ seq' = NextRid
          /\ th' = [th EXCEPT ![t].pc = "email", ![t].rid = seq.rid + 1]
          /\ UNCHANGED <<regs, count>>
       \/ /\ Use("fail", MaxFail)
          /\ regs' = regs \cup {[Answered(t, "name") EXCEPT !.failed = TRUE]}
          /\ th' = [th EXCEPT ![t] = Quiet]
          /\ UNCHANGED <<emps, seq>>
    /\ UNCHANGED <<clients, web_sessions, mob, pages, gone>>

(* The SMTP dialogue of main_send_register_email succeeds or not.           *)
SendEmail(t) ==
    /\ th[t].pc = "email"
    /\ \/ /\ regs' = regs \cup {Answered(t, "OK")}
          /\ th' = [th EXCEPT ![t] = Quiet]
       \/ /\ th' = [th EXCEPT ![t].pc = "rmClient"]
          /\ UNCHANGED regs
    /\ UNCHANGED <<tables, web_sessions, mob, pages, gone, count>>

RemoveLastClient(t) ==                                              \* mutant
    /\ th[t].pc = "rmClient"
    /\ clients' = Without(clients, seq.cid)
    /\ th' = [th EXCEPT ![t].pc = "rmEmp"]
    /\ UNCHANGED <<emps, seq, web_sessions, mob, regs, pages, gone, count>>
ClientStays(t) ==                                                   \* mutant
    /\ th[t].pc = "rmClient"
    /\ th' = [th EXCEPT ![t].pc = "rmEmp"]
    /\ UNCHANGED <<tables, web_sessions, mob, regs, pages, gone, count>>
RemoveClient(t) ==
    /\ th[t].pc = "rmClient"
    /\ \/ /\ clients' = Without(clients, th[t].cid)
          /\ th' = [th EXCEPT ![t].pc = "rmEmp"]
          /\ UNCHANGED count
       \/ /\ Use("fail", MaxFail)
          /\ th' = [th EXCEPT ![t].pc = "rmEmp", ![t].failed = TRUE]
          /\ UNCHANGED clients
    /\ UNCHANGED <<emps, seq, web_sessions, mob, regs, pages, gone>>

RemoveEmployee(t) ==
    /\ th[t].pc = "rmEmp"
    /\ \/ /\ emps' = Without(emps, th[t].rid)
          /\ regs' = regs \cup {Answered(t, "email")}
          /\ UNCHANGED count
       \/ /\ Use("fail", MaxFail)
          /\ regs' = regs \cup {[Answered(t, "email") EXCEPT !.failed = TRUE]}
          /\ UNCHANGED emps
    /\ th' = [th EXCEPT ![t] = Quiet]
    /\ UNCHANGED <<clients, seq, web_sessions, mob, pages, gone>>

-----------------------------------------------------------------------------
(* Web sessions *)

(* process_p_login: the credentials are checked against CLIENTS...          *)
ValidateWebClient(t, u) ==
    /\ th[t].pc = "idle"
    /\ Use("session", MaxSession)
    /\ \E c \in DOMAIN clients :
          /\ clients[c] = u
          /\ th' = [th EXCEPT ![t] = [Quiet EXCEPT !.pc = "push", !.user = u,
                                                   !.cid = c]]
    /\ UNCHANGED <<tables, web_sessions, mob, regs, pages, gone>>

(* The threads that are changing the vector at the same time.              *)
Overlapping(t) ==
    {x \in Thread \ {t} : th[x].pc \in {"push", "erase"}}

(* The session id is the address of the WebSession.  The objects are never  *)
(* deleted, so that one run of the server gives no address twice; that a    *)
(* later run may do so is left out, with the pages of the run before.      *)
NewSessionId == Cardinality(pages) + 1

(* ...and the new session is pushed on the vector, unless an overlapping    *)
(* change overwrites it.                                                   *)
PushSession(t) ==
    LET ws == [id |-> NewSessionId, user |-> th[t].user, cid |-> th[t].cid] IN
    /\ th[t].pc = "push"
    /\ \/ /\ web_sessions' = Append(web_sessions, ws)
          /\ UNCHANGED gone
       \/ /\ Overlapping(t) # {}
          /\ gone' = [gone EXCEPT !.raced = @ \cup {ws.id}]
          /\ UNCHANGED web_sessions
    /\ pages' = pages \cup {ws}
    /\ th' = [th EXCEPT ![t] = Quiet]
    /\ UNCHANGED <<tables, mob, regs, count>>

Matching(u, c) ==
    {i \in DOMAIN web_sessions : web_sessions[i].user = u /\ web_sessions[i].cid = c}
IndexAfter(u, c) ==                                                 \* mutant
    1 + CHOOSE i \in Matching(u, c) : \A j \in Matching(u, c) : i <= j
IndexOf(u, c) ==
    CHOOSE i \in Matching(u, c) : \A j \in Matching(u, c) : i <= j

(* process_web_page_onUnload: a page that is left sends its user and client *)
(* and the first session of that user is looked up...                      *)
GetWebSession(t, p) ==
    /\ th[t].pc = "idle"
    /\ Matching(p.user, p.cid) # {}
    /\ th' = [th EXCEPT ![t] = [Quiet EXCEPT !.pc = "erase", !.user = p.user,
                                    !.cid = p.cid, !.index = IndexOf(p.user, p.cid)]]
    /\ UNCHANGED <<tables, web_sessions, mob, regs, pages, gone, count>>

(* ...and erased by its index.  The index of another thread that is past    *)
(* the erased session, or at it, no longer means what was looked up.       *)
removeItemAtIndex(t) ==
    LET i == th[t].index
        taken == web_sessions[i]
    IN
    /\ th[t].pc = "erase"
    /\ IF i \in DOMAIN web_sessions
       THEN /\ web_sessions' = SubSeq(web_sessions, 1, i - 1) \o
                                  SubSeq(web_sessions, i + 1, Len(web_sessions))
            /\ gone' = IF <<taken.user, taken.cid>> = <<th[t].user, th[t].cid>>
                       THEN [gone EXCEPT !.unloaded = @ \cup {taken.id}]
                       ELSE IF th[t].raced
                       THEN [gone EXCEPT !.raced = @ \cup {taken.id}]
                       ELSE gone
            /\ th' = [x \in Thread |->
                        IF x = t THEN Quiet
                        ELSE IF th[x].pc = "erase" /\ th[x].index >= i
                        THEN [th[x] EXCEPT !.raced = TRUE]
                        ELSE th[x]]
       ELSE /\ th' = [th EXCEPT ![t] = Quiet]
            /\ UNCHANGED <<web_sessions, gone>>
    /\ UNCHANGED <<tables, mob, regs, pages, count>>

WebRequest(t) ==
    \/ \E u \in User : InsertNewClient(t, u) \/ ValidateWebClient(t, u)
    \/ SaveEmployee(t) \/ SendEmail(t) \/ RemoveClient(t) \/ RemoveEmployee(t)
    \/ PushSession(t)
    \/ \E p \in pages : GetWebSession(t, p)
    \/ removeItemAtIndex(t)

-----------------------------------------------------------------------------
(* The mobile *)

(* ValidateMobileClient: the first employee of that name; a mobile that has *)
(* logged in before names its employee id instead.                         *)
Found(m, u) ==
    IF mob[m].rid > 0
    THEN {mob[m].rid} \cap DOMAIN emps
    ELSE {r \in DOMAIN emps :
            /\ emps[r].user = u
            /\ \A q \in DOMAIN emps : emps[q].user = u => r <= q}

ValidateMobileClient(m, u) ==
    /\ mob[m].pc # "sts"
    /\ mob[m].rid > 0 => mob[m].user = u
    /\ \/ \E r \in Found(m, u) :
             mob' = [mob EXCEPT ![m] = [pc |-> "sts", user |-> u,
                                        cid |-> emps[r].cid, rid |-> r]]
       \/ /\ Found(m, u) = {}
          /\ mob' = [mob EXCEPT ![m] = LoggedOut]
    /\ UNCHANGED <<tables, th, web_sessions, regs, pages, gone, count>>

(* The login status is read and set; it is never set back.                  *)
UpdateLoginStsById(m) ==
    /\ mob[m].pc = "sts"
    /\ emps' = [r \in DOMAIN emps |->
                  IF r = mob[m].rid THEN [emps[r] EXCEPT !.LoginSts = 1] ELSE emps[r]]
    /\ mob' = [mob EXCEPT ![m].pc = "in"]
    /\ UNCHANGED <<clients, seq, th, web_sessions, regs, pages, gone, count>>

(* SendEmpProfileFromMobile: SaveEmployee updates the row with that id or,  *)
(* when there is none, inserts one; the mobile is not told the new id.     *)
ProfileInserted(m) ==                                               \* mutant
    /\ mob[m].pc = "in"
    /\ Use("profile", MaxProfile)
    /\ emps' = WithRow(emps, seq.rid + 1, [user |-> mob[m].user,
                                           cid |-> mob[m].cid, LoginSts |-> 0])
    /\ seq' = NextRid
    /\ UNCHANGED <<clients, th, web_sessions, mob, regs, pages, gone>>
SendEmpProfileFromMobile(m) ==
    /\ mob[m].pc = "in"
    /\ Use("profile", MaxProfile)
    /\ IF mob[m].rid \in DOMAIN emps
       THEN /\ emps' = [emps EXCEPT ![mob[m].rid] =
                          [@ EXCEPT !.user = mob[m].user, !.cid = mob[m].cid]]
            /\ UNCHANGED seq
       ELSE /\ emps' = WithRow(emps, seq.rid + 1,
                              [user |-> mob[m].user, cid |-> mob[m].cid,
                               LoginSts |-> 0])
            /\ seq' = NextRid
    /\ UNCHANGED <<clients, th, web_sessions, mob, regs, pages, gone>>

-----------------------------------------------------------------------------
(* The server stops and starts again: the tables remain.  Pages of the run  *)
(* before are not followed any further.                                    *)
Registering(t) == th[t].pc \in {"save", "email", "rmClient", "rmEmp"}

ServerStops ==
    /\ Use("stop", MaxStop)
    /\ regs' = regs \cup {[Answered(t, "cut") EXCEPT !.failed = TRUE] :
                             t \in {x \in Thread : Registering(x)}}
    /\ th' = [t \in Thread |-> Quiet]
    /\ mob' = [m \in Mobile |-> IF mob[m].pc = "sts" THEN LoggedOut ELSE mob[m]]
    /\ web_sessions' = <<>>
    /\ pages' = {}
    /\ gone' = [unloaded |-> {}, raced |-> {}]
    /\ UNCHANGED tables

MobileRequest(m) ==
    \/ \E u \in User : ValidateMobileClient(m, u)
    \/ UpdateLoginStsById(m)
    \/ SendEmpProfileFromMobile(m)

Next ==
    \/ \E t \in Thread : WebRequest(t)
    \/ \E m \in Mobile : MobileRequest(m)
    \/ ServerStops

Spec == Init /\ [][Next]_vars

-----------------------------------------------------------------------------
(* Properties *)

(* "Username is already in use": however registrations of the same name,    *)
(* their withdrawals and failures are interleaved, a user name belongs to   *)
(* one client, so that ValidateWebClient finds exactly one row.            *)
UsernamesUnique ==
    \A c, d \in DOMAIN clients : clients[c] = clients[d] => c = d

(* A registration that was answered "OK", with no statement failing, has    *)
(* its client and its employee, and the employee names the client: no       *)
(* withdrawal of another registration and no profile of a mobile takes them *)
(* away.                                                                   *)
RegisteredAccountsComplete ==
    \A g \in regs : g.res = "OK" /\ ~g.failed =>
        /\ g.cid \in DOMAIN clients /\ clients[g.cid] = g.user
        /\ g.rid \in DOMAIN emps /\ emps[g.rid].cid = g.cid

(* A user name is held only by a registration that is under way or was      *)
(* answered "OK", or by one that a failing statement or a stop of the       *)
(* server cut short: a registration withdrawn because its e-mail could not  *)
(* be sent gives the name back.                                            *)
WithdrawnNamesAreFree ==
    \A c \in DOMAIN clients :
        \/ \E t \in Thread : Registering(t) /\ th[t].cid = c
        \/ \E g \in regs : g.cid = c /\ (g.res = "OK" \/ g.failed)

(* A client has at most one employee row, also when its mobile sends its    *)
(* profile while the registration is being withdrawn, unless a statement    *)
(* failed: profiles are inserted only for accounts that are gone.          *)
OneEmployeePerClient ==
    \A q, r \in DOMAIN emps :
        /\ q # r
        /\ emps[q].cid = emps[r].cid
        => \/ emps[q].cid \notin DOMAIN clients
           \/ \E g \in regs : g.cid = emps[q].cid /\ g.failed
           \/ \E t \in Thread : Registering(t) /\ th[t].cid = emps[q].cid
                                             /\ th[t].failed

(* A page keeps its session until a page of the same user and client is     *)
(* left, except when two threads change the vector at the same time.       *)
PagesKeepTheirSession ==
    \A p \in pages :
        \/ \E i \in DOMAIN web_sessions : web_sessions[i].id = p.id
        \/ p.id \in gone.unloaded \cup gone.raced
=============================================================================
