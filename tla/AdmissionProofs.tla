--------------------------- MODULE AdmissionProofs ---------------------------
(***************************************************************************)
(* What holds of the two components that decide whether a request comes    *)
(* in.  Of Authentication, for every number of requests in flight,         *)
(* accounts and attempts, and every length of a lock; of RateLimiter, for  *)
(* every number of requests in flight and keys, every limit and window.    *)
(***************************************************************************)
EXTENDS Authentication, RateLimiter, FiniteSetTheorems, TLAPS

\* Every request is about an email.
HasEmail == \A c \in Clients : op[c].pc # "off" => op[c].email \in Emails

\* Signups that may still insert when there is an account had counted when
\* there was none.
InsertOverlaps ==
  /\ first \subseteq users
  /\ users # {} => \A c \in Clients : op[c].pc = "insert" => op[c].email \in overlapped

\* Logins that compare the password of e, and so may count one more.
Comparing(e) == {c \in Clients : op[c].pc = "compare" /\ op[c].email = e}

\* A login compares only after it saw or made the counter zero.
ComparesFromZero ==
  /\ \A c \in Clients : op[c].pc = "compare" => op[c].failed = 0
  /\ \A e \in Emails :
       row[e].failed + Cardinality(Comparing(e)) <= Cardinality(Clients)

\* A lock ends no later than it would if it were set now, and none of the logins
\* that go on while there is one has read it.
LockUnread ==
  /\ \A e \in Emails : row[e].locked <= now + Lockout
  /\ \A c \in Clients :
       op[c].pc \in {"reset", "compare"} /\ Locked(op[c].email) => c \in outdated

\* Login (auth.go:119) locks from the counter that a login compares with, which
\* is zero: only a limit of one attempt is ever reached.
LocksOnlyAtOne == maxAttempts # 1 => \A e \in Emails : row[e].locked = 0

\* The inductive invariant.
IInv ==
  /\ TypeOK /\ HasEmail /\ InsertOverlaps /\ OneAdmin
  /\ ComparesFromZero /\ LockUnread /\ LocksOnlyAtOne /\ LockIsEarned

-----------------------------------------------------------------------------
\* The smaller of two numbers, as the cap of the counter uses it.
LEMMA MinOfTwo ==
  ASSUME NEW m \in Nat, NEW n \in Nat
  PROVE  Min({m, n}) = IF m <= n THEN m ELSE n
<1> DEFINE k == IF m <= n THEN m ELSE n
<1>1. k \in {m, n} /\ (\A y \in {m, n} : k <= y) /\ k \in Nat
  OBVIOUS
<1>2. \A x \in {m, n} : (\A y \in {m, n} : x <= y) => x = k
  BY <1>1
<1> HIDE DEF k
<1>3. Min({m, n}) = k
  BY <1>1, <1>2 DEF Min
<1> QED BY <1>3 DEF k

\* Whoever compares is one of the clients.
LEMMA ComparingFinite ==
  ASSUME NEW e
  PROVE  /\ IsFiniteSet(Comparing(e)) /\ Cardinality(Comparing(e)) \in Nat
         /\ Cardinality(Comparing(e)) <= Cardinality(Clients)
         /\ Cardinality(Clients) \in Nat
BY AuthAssumption, FS_Subset, FS_CardinalityType DEF Comparing

\* A server that has just started satisfies the invariant.
LEMMA InitIInv == Init => IInv
<1> SUFFICES ASSUME Init PROVE IInv
  OBVIOUS
<1> USE AuthAssumption DEF Init, Off
<1>1. TypeOK
  <2>1. \A n \in Nat : 0 \in 0..n
    OBVIOUS
  <2>2. maxAttempts \in Nat
    OBVIOUS
  <2> QED BY <2>1, <2>2 DEF TypeOK
<1>2. HasEmail /\ InsertOverlaps /\ OneAdmin /\ LockUnread /\ LocksOnlyAtOne /\ LockIsEarned
  BY DEF HasEmail, InsertOverlaps, OneAdmin, LockUnread, LocksOnlyAtOne, LockIsEarned
<1>3. ComparesFromZero
  <2>1. \A e \in Emails : row[e].failed = 0
    OBVIOUS
  <2> QED BY <2>1, ComparingFinite DEF ComparesFromZero
<1> QED BY <1>1, <1>2, <1>3 DEF IInv

\* What Done leaves of the requests.
LEMMA DoneType ==
  ASSUME TypeOK, NEW c \in Clients, Done(c)
  PROVE  /\ op' \in [Clients ->
              [pc : {"off", "read", "reset", "compare", "count", "insert"},
               email : Emails \cup {"none"}, failed : Nat]]
         /\ outdated' \subseteq Clients
         /\ op'[c] = Off /\ \A b \in Clients \ {c} : op'[b] = op[b]
BY DEF TypeOK, Done, Off

\* Every statement keeps the types, and a login that has read its row its email.
LEMMA TypeStep == TypeOK /\ HasEmail /\ [Next]_vars => TypeOK' /\ HasEmail'
<1> SUFFICES ASSUME TypeOK, HasEmail, [Next]_vars PROVE TypeOK' /\ HasEmail'
  OBVIOUS
<1> USE AuthAssumption
<1> DEFINE Ops == [Clients ->
              [pc : {"off", "read", "reset", "compare", "count", "insert"},
               email : Emails \cup {"none"}, failed : Nat]]
<1>0. 0 \in 0..(MaxTime + Lockout) /\ 0 \in 0..maxAttempts /\ maxAttempts \in Nat
  BY DEF TypeOK
\* A request that goes on, for the same email.
<1>a. ASSUME NEW c \in Clients, op[c].pc # "off",
             NEW q \in {"off", "read", "reset", "compare", "count", "insert"}, NEW n \in Nat,
             op' = [op EXCEPT ![c].pc = q, ![c].failed = n] \/ op' = [op EXCEPT ![c].pc = q]
      PROVE  op' \in Ops /\ HasEmail'
  <2>1. op' \in Ops
    BY <1>a, SMTT(60) DEF TypeOK
  <2>2. op'[c].email = op[c].email /\ \A b \in Clients \ {c} : op'[b] = op[b]
    BY <1>a DEF TypeOK
  <2> QED BY <1>a, <2>1, <2>2 DEF HasEmail
<1>1. CASE Tick
  BY <1>1 DEF Tick, TypeOK, HasEmail
<1>2. ASSUME NEW c \in Clients, NEW e \in Emails, AskSignup(c, e) \/ AskLogin(c, e)
      PROVE  TypeOK' /\ HasEmail'
  <2>1. op' \in Ops /\ HasEmail'
    <3> PICK q \in {"read", "count"} :
           op' = [op EXCEPT ![c] = [Off EXCEPT !.pc = q, !.email = e]]
      BY <1>2 DEF AskSignup, AskLogin
    <3>1. op' \in Ops
      BY DEF TypeOK, Off
    <3>2. op'[c].email = e /\ \A b \in Clients \ {c} : op'[b] = op[b]
      BY DEF TypeOK, Off
    <3> QED BY <3>1, <3>2 DEF HasEmail
  <2> QED BY <1>2, <2>1 DEF AskSignup, AskLogin, TypeOK
<1>3. ASSUME NEW c \in Clients, CountUsers(c) PROVE TypeOK' /\ HasEmail'
  <2>1. op' \in Ops /\ outdated' \subseteq Clients /\ HasEmail'
    <3>1. CASE NoAdminYet
      BY <1>3, <1>a, <3>1 DEF CountUsers, Step, TypeOK
    <3>2. CASE ~NoAdminYet
      BY <1>3, <3>2, DoneType DEF CountUsers, HasEmail, Off
    <3> QED BY <3>1, <3>2
  <2> QED BY <1>3, <2>1 DEF CountUsers, TypeOK
<1>4. ASSUME NEW c \in Clients, InsertUser(c) PROVE TypeOK' /\ HasEmail'
  <2>1. op' \in Ops /\ outdated' \subseteq Clients /\ HasEmail'
    BY <1>4, DoneType DEF InsertUser, HasEmail, Off
  <2>2. users' \subseteq Emails /\ first' \subseteq Emails /\ overlapped' \subseteq Emails
    BY <1>4 DEF InsertUser, TypeOK, HasEmail
  <2> QED BY <1>4, <2>1, <2>2 DEF InsertUser, TypeOK
<1>5. ASSUME NEW c \in Clients, ReadUser(c) PROVE TypeOK' /\ HasEmail'
  <2>1. op' \in Ops /\ outdated' \subseteq Clients /\ HasEmail'
    <3>1. CASE Done(c)
      BY <3>1, DoneType DEF HasEmail, Off
    <3>2. CASE ~Done(c)
      <4>1. op[c].email \in Emails /\ row[op[c].email].failed \in Nat
        BY <1>5 DEF ReadUser, HasEmail, TypeOK
      <4>2. PICK q \in {"reset", "compare"} :
              op' = [op EXCEPT ![c].pc = q, ![c].failed = row[op[c].email].failed]
        BY <1>5, <3>2, <4>1, Zenon DEF ReadUser
      <4>3. outdated' = outdated /\ op[c].pc # "off"
        BY <1>5, <3>2 DEF ReadUser
      <4> QED BY <1>a, <4>1, <4>2, <4>3 DEF TypeOK
    <3> QED BY <3>1, <3>2
  <2> QED BY <1>5, <2>1 DEF ReadUser, TypeOK
<1>6. ASSUME NEW c \in Clients, ResetCounter(c) PROVE TypeOK' /\ HasEmail'
  <2>1. op' \in Ops /\ HasEmail'
    BY <1>6, <1>a, ZenonT(60) DEF ResetCounter
  <2>2. row' \in [Emails -> [failed : Nat, locked : 0..(MaxTime + Lockout)]]
    BY <1>0, <1>6 DEF ResetCounter, ResetRow, TypeOK
  <2> QED BY <1>6, <2>1, <2>2 DEF ResetCounter, TypeOK
<1>7. ASSUME NEW c \in Clients, WrongPassword(c) PROVE TypeOK' /\ HasEmail'
  <2>1. op[c].email \in Emails
    BY <1>7 DEF WrongPassword, HasEmail
  <2>2. op' \in Ops /\ HasEmail'
    BY <1>7 DEF WrongPassword, TypeOK, HasEmail, Off
  <2>3. row' \in [Emails -> [failed : Nat, locked : 0..(MaxTime + Lockout)]]
    BY <1>7, <2>1 DEF WrongPassword, TypeOK, LockEnd
  <2>4. misses' \in [Emails -> 0..maxAttempts]
    <3>1. maxAttempts \in Nat /\ misses[op[c].email] \in 0..maxAttempts
      BY <2>1 DEF TypeOK
    <3>2. Min({maxAttempts, misses[op[c].email] + 1}) \in 0..maxAttempts
      BY <3>1, MinOfTwo
    <3> QED BY <1>7, <3>2 DEF WrongPassword, TypeOK
  <2>5. outdated' \subseteq Clients
    BY <1>7 DEF WrongPassword, TypeOK
  <2> QED BY <1>7, <2>2, <2>3, <2>4, <2>5, ZenonT(60) DEF WrongPassword, TypeOK
<1>8. ASSUME NEW c \in Clients, LoggedIn(c) PROVE TypeOK' /\ HasEmail'
  <2>1. op' \in Ops /\ outdated' \subseteq Clients /\ HasEmail'
    BY <1>8, DoneType DEF LoggedIn, HasEmail, Off
  <2>2. row' \in [Emails -> [failed : Nat, locked : 0..(MaxTime + Lockout)]]
    BY <1>0, <1>8 DEF LoggedIn, ResetRow, TypeOK
  <2>3. misses' \in [Emails -> 0..maxAttempts]
    BY <1>0, <1>8 DEF LoggedIn, TypeOK
  <2> QED BY <1>8, <2>1, <2>2, <2>3 DEF LoggedIn, TypeOK
<1>9. ASSUME NEW c \in Clients, RequestFails(c) PROVE TypeOK' /\ HasEmail'
  <2>1. op' \in Ops /\ outdated' \subseteq Clients /\ HasEmail'
    BY <1>9, DoneType DEF RequestFails, HasEmail, Off
  <2> QED BY <1>9, <2>1 DEF RequestFails, TypeOK
<1>10. CASE UNCHANGED vars
  BY <1>10 DEF vars, TypeOK, HasEmail
<1> QED BY <1>1, <1>2, <1>3, <1>4, <1>5, <1>6, <1>7, <1>8, <1>9, <1>10
        DEF Next, LoginStep

-----------------------------------------------------------------------------
(* Signup.                                                                 *)

\* A signup that inserts in addition to another one had counted before it.
LEMMA SignupStep ==
  TypeOK /\ InsertOverlaps /\ OneAdmin /\ [Next]_vars => InsertOverlaps' /\ OneAdmin'
<1> SUFFICES ASSUME TypeOK, InsertOverlaps, OneAdmin, [Next]_vars
             PROVE  InsertOverlaps' /\ OneAdmin'
  OBVIOUS
\* Nobody comes to insert while there is an account.
<1>1. ASSUME UNCHANGED <<users, first, overlapped>>,
             \A b \in Clients : users # {} /\ op'[b].pc = "insert" => op'[b] = op[b]
      PROVE  InsertOverlaps' /\ OneAdmin'
  BY <1>1 DEF InsertOverlaps, OneAdmin
<1>2. CASE Tick
  BY <1>1, <1>2 DEF Tick
<1>3. ASSUME NEW c \in Clients, NEW e \in Emails, AskSignup(c, e) \/ AskLogin(c, e)
      PROVE  InsertOverlaps' /\ OneAdmin'
  BY <1>1, <1>3, ZenonT(60) DEF AskSignup, AskLogin, Off, TypeOK
<1>4. ASSUME NEW c \in Clients, CountUsers(c) PROVE InsertOverlaps' /\ OneAdmin'
  <2>1. UNCHANGED <<users, first, overlapped>>
    BY <1>4 DEF CountUsers
  <2>2. ASSUME users # {} PROVE \A b \in Clients : op'[b].pc = "insert" => op'[b] = op[b]
    BY <1>4, <2>2, DoneType DEF CountUsers, NoAdminYet, Off
  <2> QED BY <1>1, <2>1, <2>2
<1>5. ASSUME NEW c \in Clients, InsertUser(c) PROVE InsertOverlaps' /\ OneAdmin'
  <2>1. op'[c] = Off /\ \A b \in Clients \ {c} : op'[b] = op[b]
    BY <1>5, DoneType DEF InsertUser
  <2>2. users' = users \cup {op[c].email} /\ op[c].pc = "insert"
    BY <1>5 DEF InsertUser
  <2>3. \A b \in Clients : op'[b].pc = "insert" => op[b].pc = "insert" /\ op'[b] = op[b]
    BY <2>1 DEF Off
  <2>4. CASE users = {}
    <3>1. /\ first' = users'
          /\ \A b \in Clients : op[b].pc = "insert" => op[b].email \in overlapped'
      BY <1>5, <2>4 DEF InsertUser
    <3> QED BY <2>3, <3>1 DEF InsertOverlaps, OneAdmin
  <2>5. CASE users # {}
    <3>1. UNCHANGED <<first, overlapped>> /\ op[c].email \in overlapped
      BY <1>5, <2>2, <2>5 DEF InsertUser, InsertOverlaps
    <3> QED BY <2>2, <2>3, <2>5, <3>1 DEF InsertOverlaps, OneAdmin
  <2> QED BY <2>4, <2>5
<1>6. ASSUME NEW c \in Clients, LoginStep(c) \/ RequestFails(c)
      PROVE  InsertOverlaps' /\ OneAdmin'
  <2>1. UNCHANGED <<users, first, overlapped>>
    BY <1>6 DEF LoginStep, ReadUser, ResetCounter, WrongPassword, LoggedIn, RequestFails
  <2>2. \A b \in Clients \ {c} : op'[b] = op[b]
    BY <1>6 DEF LoginStep, ReadUser, ResetCounter, WrongPassword, LoggedIn, RequestFails,
                Done, TypeOK
  <2>3. op'[c].pc # "insert"
    BY <1>6 DEF LoginStep, ReadUser, ResetCounter, WrongPassword, LoggedIn, RequestFails,
                Done, Off, TypeOK
  <2> QED BY <1>1, <2>1, <2>2, <2>3
<1>7. CASE UNCHANGED vars
  BY <1>1, <1>7 DEF vars
<1> QED BY <1>2, <1>3, <1>4, <1>5, <1>6, <1>7 DEF Next, LoginStep

-----------------------------------------------------------------------------
(* The counter and the lock.                                               *)

\* A step that leaves every row as it is and brings nobody to the comparison.
LEMMA CountKept ==
  ASSUME TypeOK, ComparesFromZero, row' = row,
         \A b \in Clients : op'[b].pc = "compare" => op'[b] = op[b]
  PROVE  ComparesFromZero'
<1>1. \A e \in Emails : Comparing(e)' \in SUBSET Comparing(e)
  BY DEF Comparing
<1>2. \A e \in Emails : /\ Cardinality(Comparing(e)') <= Cardinality(Comparing(e))
                        /\ Cardinality(Comparing(e)') \in Nat
  BY <1>1, ComparingFinite, FS_Subset, FS_CardinalityType
<1>3. \A e \in Emails : row[e].failed \in Nat
  BY DEF TypeOK
<1> QED BY <1>2, <1>3, ComparingFinite DEF ComparesFromZero

\* One login more compares, and has seen or made its counter zero.
LEMMA CountsFromZero ==
  ASSUME TypeOK, ComparesFromZero, NEW c \in Clients, op'[c].failed = 0,
         op'[c].email = op[c].email, row'[op[c].email].failed = 0,
         \A b \in Clients \ {c} : op'[b] = op[b],
         \A e \in Emails \ {op[c].email} : row'[e] = row[e]
  PROVE  ComparesFromZero'
<1>1. ASSUME NEW e \in Emails \ {op[c].email}
      PROVE  row'[e].failed + Cardinality(Comparing(e)') <= Cardinality(Clients)
  <2>1. Comparing(e)' = Comparing(e)
    BY DEF Comparing
  <2> QED BY <2>1 DEF ComparesFromZero
<1>2. /\ Cardinality(Comparing(op[c].email)') \in Nat
      /\ Cardinality(Comparing(op[c].email)') <= Cardinality(Clients)
  <2>1. Comparing(op[c].email)' \in SUBSET Clients
    BY DEF Comparing
  <2> QED BY <2>1, AuthAssumption, FS_Subset, FS_CardinalityType
<1>3. \A e \in Emails : row'[e].failed + Cardinality(Comparing(e)') <= Cardinality(Clients)
  <2> TAKE e \in Emails
  <2>1. CASE e = op[c].email
    BY <1>2, <2>1
  <2> QED BY <1>1, <2>1
<1>4. \A b \in Clients : op'[b].pc = "compare" => op'[b].failed = 0
  BY DEF ComparesFromZero
<1> QED BY <1>3, <1>4 DEF ComparesFromZero

\* A password is compared only after the counter was reset, if it was to be.
LEMMA CountStep ==
  TypeOK /\ HasEmail /\ ComparesFromZero /\ [Next]_vars => ComparesFromZero'
<1> SUFFICES ASSUME TypeOK, HasEmail, ComparesFromZero, [Next]_vars PROVE ComparesFromZero'
  OBVIOUS
<1>1. CASE Tick \/ UNCHANGED vars
  BY <1>1, CountKept DEF Tick, vars
<1>2. ASSUME NEW c \in Clients, NEW e \in Emails, AskSignup(c, e) \/ AskLogin(c, e)
      PROVE  ComparesFromZero'
  BY <1>2, CountKept DEF AskSignup, AskLogin, Off, TypeOK
<1>3. ASSUME NEW c \in Clients, CountUsers(c) \/ InsertUser(c) \/ RequestFails(c)
      PROVE  ComparesFromZero'
  <2>1. row' = row /\ (Done(c) \/ op' = [op EXCEPT ![c].pc = "insert"])
    BY <1>3 DEF CountUsers, InsertUser, RequestFails, Step
  <2>2. \A b \in Clients : op'[b].pc = "compare" => op'[b] = op[b]
    BY <2>1 DEF Done, Off, TypeOK
  <2> QED BY <2>1, <2>2, CountKept
<1>4. ASSUME NEW c \in Clients, ReadUser(c) PROVE ComparesFromZero'
  <2>1. row' = row
    BY <1>4 DEF ReadUser
  <2>2. CASE op'[c].pc # "compare"
    <3>1. \A b \in Clients : op'[b].pc = "compare" => op'[b] = op[b]
      BY <1>4, <2>2 DEF ReadUser, Done, TypeOK
    <3> QED BY <2>1, <3>1, CountKept
  <2>3. CASE op'[c].pc = "compare"
    <3> DEFINE e == op[c].email
    <3>1. ~Done(c)
      BY <2>3 DEF Done, Off, TypeOK
    <3>2. /\ e \in users /\ ~Locked(e)
          /\ op' = [op EXCEPT ![c].pc = IF ResetDue(row[e]) THEN "reset" ELSE "compare",
                              ![c].failed = row[e].failed]
      BY <1>4, <3>1 DEF ReadUser, SeenLocked
    <3>3. /\ ~ResetDue(row[e]) /\ op'[c].failed = row[e].failed /\ op'[c].email = e
          /\ \A b \in Clients \ {c} : op'[b] = op[b]
      BY <2>3, <3>2 DEF TypeOK
    <3>4. /\ row[e].failed \in Nat /\ row[e].locked \in Nat /\ now \in Nat
      BY <3>2, AuthAssumption DEF TypeOK
    <3>5. row[e].failed = 0
      BY <3>2, <3>3, <3>4 DEF ResetDue, Locked
    <3> QED BY <2>1, <3>3, <3>5, CountsFromZero
  <2> QED BY <2>2, <2>3
<1>5. ASSUME NEW c \in Clients, ResetCounter(c) PROVE ComparesFromZero'
  <2>1. op[c].email \in Emails
    BY <1>5 DEF ResetCounter, HasEmail
  <2>2. /\ op'[c].failed = 0 /\ op'[c].email = op[c].email
        /\ \A b \in Clients \ {c} : op'[b] = op[b]
    BY <1>5 DEF ResetCounter, TypeOK
  <2>3. /\ row'[op[c].email].failed = 0
        /\ \A e \in Emails \ {op[c].email} : row'[e] = row[e]
    BY <1>5, <2>1 DEF ResetCounter, ResetRow, TypeOK
  <2> QED BY <2>2, <2>3, CountsFromZero
\* The counter goes up by one, and one login less compares.
<1>6. ASSUME NEW c \in Clients, WrongPassword(c) PROVE ComparesFromZero'
  <2>1. op[c].email \in Emails /\ op[c].pc = "compare"
    BY <1>6 DEF WrongPassword, HasEmail
  <2>2. op'[c] = Off /\ \A b \in Clients \ {c} : op'[b] = op[b]
    BY <1>6 DEF WrongPassword, TypeOK
  <2>3. /\ row'[op[c].email].failed = row[op[c].email].failed + 1
        /\ \A e \in Emails \ {op[c].email} : row'[e] = row[e]
    BY <1>6, <2>1 DEF WrongPassword, TypeOK
  <2>4. \A e : Comparing(e)' = Comparing(e) \ {c}
    BY <2>2 DEF Comparing, Off
  <2>5. \A e : Cardinality(Comparing(e)') = IF c \in Comparing(e)
                                              THEN Cardinality(Comparing(e)) - 1
                                              ELSE Cardinality(Comparing(e))
    BY <2>4, ComparingFinite, FS_RemoveElement
  <2>6. \A e \in Emails : row[e].failed \in Nat /\ (c \in Comparing(e) <=> e = op[c].email)
    BY <2>1 DEF TypeOK, Comparing
  <2>7. ASSUME NEW e \in Emails
        PROVE  row'[e].failed + Cardinality(Comparing(e)') <= Cardinality(Clients)
    <3>1. row[e].failed + Cardinality(Comparing(e)) <= Cardinality(Clients)
      BY DEF ComparesFromZero
    <3>2. Cardinality(Comparing(e)) \in Nat /\ Cardinality(Clients) \in Nat
      BY ComparingFinite
    <3>3. CASE e = op[c].email
      BY <2>3, <2>5, <2>6, <3>1, <3>2, <3>3
    <3>4. CASE e # op[c].email
      BY <2>3, <2>5, <2>6, <3>1, <3>2, <3>4
    <3> QED BY <3>3, <3>4
  <2>8. \A b \in Clients : op'[b].pc = "compare" => op'[b].failed = 0
    BY <2>2 DEF ComparesFromZero, Off
  <2> QED BY <2>7, <2>8 DEF ComparesFromZero
<1>7. ASSUME NEW c \in Clients, LoggedIn(c) PROVE ComparesFromZero'
  <2>1. op[c].email \in Emails
    BY <1>7 DEF LoggedIn, HasEmail
  <2>2. op'[c] = Off /\ \A b \in Clients \ {c} : op'[b] = op[b]
    BY <1>7, DoneType DEF LoggedIn
  <2>3. \A e \in Emails : row'[e].failed <= row[e].failed /\ row'[e].failed \in Nat
    BY <1>7, <2>1 DEF LoggedIn, ResetRow, TypeOK
  <2>4. \A e \in Emails : Comparing(e)' \in SUBSET Comparing(e)
    BY <2>2 DEF Comparing, Off
  <2>5. \A e \in Emails : /\ Cardinality(Comparing(e)') <= Cardinality(Comparing(e))
                          /\ Cardinality(Comparing(e)') \in Nat
    BY <2>4, ComparingFinite, FS_Subset, FS_CardinalityType
  <2>6. \A e \in Emails : row[e].failed \in Nat
    BY DEF TypeOK
  <2> QED BY <2>2, <2>3, <2>5, <2>6, ComparingFinite DEF ComparesFromZero, Off
<1> QED BY <1>1, <1>2, <1>3, <1>4, <1>5, <1>6, <1>7 DEF Next, LoginStep

\* What the rows and the requests of a lock have to do with a step: the rows
\* change in three ways, by a reset of one, by one wrong password, or not at all.
LEMMA RowsChange ==
  ASSUME TypeOK, HasEmail, [Next]_vars
  PROVE  \/ UNCHANGED <<row, misses>>
         \/ \E c \in Clients : ResetCounter(c) \/ WrongPassword(c) \/ LoggedIn(c)
BY DEF Next, LoginStep, Tick, AskSignup, AskLogin, CountUsers, InsertUser, ReadUser,
       RequestFails, vars

\* What IncrementFailedAttempts leaves in the rows: one count more, and the lock at
\* the maximum of one only.
LEMMA WrongPasswordRow ==
  ASSUME TypeOK, HasEmail, ComparesFromZero, NEW c \in Clients, WrongPassword(c)
  PROVE  LET e == op[c].email IN
         /\ e \in Emails
         /\ row'[e].locked = IF maxAttempts = 1 THEN now + Lockout ELSE row[e].locked
         /\ misses'[e] = IF misses[e] < maxAttempts THEN misses[e] + 1 ELSE maxAttempts
         /\ \A d \in Emails \ {e} : row'[d] = row[d] /\ misses'[d] = misses[d]
<1> DEFINE e == op[c].email
<1>1. e \in Emails /\ op[c].failed = 0
  BY DEF WrongPassword, HasEmail, ComparesFromZero
<1>2. maxAttempts \in Nat \ {0} /\ misses[e] \in 0..maxAttempts
  BY <1>1, AuthAssumption DEF TypeOK
<1>3. Reached(op[c].failed + 1) <=> maxAttempts = 1
  BY <1>1, <1>2 DEF Reached
<1>4. Min({maxAttempts, misses[e] + 1})
        = IF misses[e] < maxAttempts THEN misses[e] + 1 ELSE maxAttempts
  BY <1>2, MinOfTwo
<1>5. row'[e].locked = IF Reached(op[c].failed + 1) THEN LockEnd ELSE row[e].locked
  BY <1>1 DEF WrongPassword, TypeOK
<1>6. misses'[e] = Min({maxAttempts, misses[e] + 1})
  BY <1>1 DEF WrongPassword, TypeOK
<1>7. \A d \in Emails \ {e} : row'[d] = row[d] /\ misses'[d] = misses[d]
  BY <1>1 DEF WrongPassword, TypeOK
<1> QED BY <1>1, <1>3, <1>4, <1>5, <1>6, <1>7 DEF LockEnd

\* What a reset and a successful login leave in the rows.
LEMMA ResetRows ==
  ASSUME TypeOK, HasEmail, NEW c \in Clients, ResetCounter(c) \/ LoggedIn(c)
  PROVE  LET e == op[c].email IN
         /\ e \in Emails /\ row'[e].locked = 0
         /\ \A d \in Emails \ {e} : row'[d] = row[d] /\ misses'[d] = misses[d]
         /\ ResetCounter(c) => misses' = misses
         /\ LoggedIn(c) => misses'[e] = 0
BY DEF HasEmail, ResetCounter, LoggedIn, ResetRow, TypeOK

\* Every statement keeps what is said of locks: they are earned, and come at a
\* maximum of one.
LEMMA LockStep ==
  TypeOK /\ HasEmail /\ ComparesFromZero /\ LocksOnlyAtOne /\ LockIsEarned /\ [Next]_vars
    => LocksOnlyAtOne' /\ LockIsEarned'
<1> SUFFICES ASSUME TypeOK, HasEmail, ComparesFromZero, LocksOnlyAtOne, LockIsEarned,
                    [Next]_vars
             PROVE  LocksOnlyAtOne' /\ LockIsEarned'
  OBVIOUS
<1>0. maxAttempts' = maxAttempts /\ maxAttempts \in Nat \ {0}
      /\ \A e \in Emails : misses[e] \in 0..maxAttempts
  BY AuthAssumption DEF Next, LoginStep, Tick, AskSignup, AskLogin, CountUsers, InsertUser,
     ReadUser, ResetCounter, WrongPassword, LoggedIn, RequestFails, vars, TypeOK
<1>1. CASE UNCHANGED <<row, misses>>
  BY <1>0, <1>1 DEF LocksOnlyAtOne, LockIsEarned
<1>2. ASSUME NEW c \in Clients, ResetCounter(c) \/ LoggedIn(c)
      PROVE  LocksOnlyAtOne' /\ LockIsEarned'
  BY <1>0, <1>2, ResetRows DEF LocksOnlyAtOne, LockIsEarned
<1>3. ASSUME NEW c \in Clients, WrongPassword(c) PROVE LocksOnlyAtOne' /\ LockIsEarned'
  <2> DEFINE e == op[c].email
  <2>1. /\ e \in Emails
        /\ row'[e].locked = IF maxAttempts = 1 THEN now + Lockout ELSE row[e].locked
        /\ misses'[e] = IF misses[e] < maxAttempts THEN misses[e] + 1 ELSE maxAttempts
        /\ \A d \in Emails \ {e} : row'[d] = row[d] /\ misses'[d] = misses[d]
    BY <1>3, WrongPasswordRow
  <2>2. LocksOnlyAtOne'
    BY <1>0, <2>1 DEF LocksOnlyAtOne
  <2>3. ASSUME row'[e].locked # 0 PROVE misses'[e] = maxAttempts
    <3>1. CASE maxAttempts = 1
      BY <1>0, <2>1, <3>1
    <3>2. CASE maxAttempts # 1
      <4>1. misses[e] = maxAttempts
        BY <2>1, <2>3, <3>2 DEF LockIsEarned
      <4> QED BY <1>0, <2>1, <4>1
    <3> QED BY <3>1, <3>2
  <2>4. LockIsEarned'
    BY <1>0, <2>1, <2>3 DEF LockIsEarned
  <2> QED BY <2>2, <2>4
<1> QED BY <1>1, <1>2, <1>3, RowsChange

\* A lock that stands is not lifted by a login that has read it.
LEMMA UnreadStep ==
  TypeOK /\ HasEmail /\ ComparesFromZero /\ LockUnread /\ [Next]_vars => LockUnread'
<1> SUFFICES ASSUME TypeOK, HasEmail, ComparesFromZero, LockUnread, [Next]_vars
             PROVE  LockUnread'
  OBVIOUS
<1>0. /\ now \in Nat /\ Lockout \in Nat /\ \A e \in Emails : row[e].locked \in Nat
      /\ (now' = now \/ now' = now + 1)
  <2>1. now \in Nat /\ Lockout \in Nat /\ \A e \in Emails : row[e].locked \in Nat
    BY AuthAssumption DEF TypeOK
  <2>2. now' = now \/ now' = now + 1
    BY DEF Next, LoginStep, Tick, AskSignup, AskLogin, CountUsers, InsertUser, ReadUser,
           ResetCounter, WrongPassword, LoggedIn, RequestFails, vars
  <2> QED BY <2>1, <2>2
\* A step that sets no lock, brings nobody past the row but when there is no lock,
\* and drops from outdated only a request that is over.
<1>1. ASSUME \A e \in Emails : row'[e].locked = row[e].locked \/ row'[e].locked = 0,
             \A b \in Clients :
               op'[b].pc \in {"reset", "compare"} =>
                 /\ op'[b].email = op[b].email
                 /\ b \in outdated => b \in outdated'
                 /\ op[b].pc \in {"reset", "compare"} \/ (op[b].pc = "read" /\ ~Locked(op[b].email))
      PROVE  LockUnread'
  <2>1. \A e \in Emails : row'[e].locked <= now' + Lockout
    BY <1>0, <1>1 DEF LockUnread
  <2>2. \A e \in Emails : row'[e].locked > now' => Locked(e)
    BY <1>0, <1>1 DEF Locked
  <2>3. ASSUME NEW b \in Clients, op'[b].pc \in {"reset", "compare"},
               row'[op'[b].email].locked > now'
        PROVE  b \in outdated'
    <3>1. /\ op'[b].email = op[b].email /\ (b \in outdated => b \in outdated')
          /\ \/ op[b].pc \in {"reset", "compare"}
             \/ (op[b].pc = "read" /\ ~Locked(op[b].email))
      BY <1>1, <2>3
    <3>2. op[b].email \in Emails
      BY <3>1 DEF HasEmail
    <3>3. Locked(op[b].email)
      BY <2>2, <2>3, <3>1, <3>2
    <3> QED BY <3>1, <3>3 DEF LockUnread
  <2> QED BY <2>1, <2>3 DEF LockUnread, Locked
<1>2. CASE Tick \/ UNCHANGED vars
  BY <1>1, <1>2 DEF Tick, vars
<1>3. ASSUME NEW c \in Clients, NEW e \in Emails, AskSignup(c, e) \/ AskLogin(c, e)
      PROVE  LockUnread'
  <2>1. row' = row /\ outdated' = outdated
    BY <1>3 DEF AskSignup, AskLogin
  <2>2. ASSUME NEW b \in Clients
        PROVE  op'[b] = op[b] \/ op'[b].pc \in {"count", "read"}
    BY <1>1, <1>3, ZenonT(60) DEF AskSignup, AskLogin, Off, TypeOK
  <2> QED BY <1>1, <2>1, <2>2
<1>4. ASSUME NEW c \in Clients, CountUsers(c) \/ InsertUser(c) \/ RequestFails(c)
      PROVE  LockUnread'
  <2>1. row' = row /\ (Done(c) \/ (op' = [op EXCEPT ![c].pc = "insert"] /\ outdated' = outdated))
    BY <1>4 DEF CountUsers, InsertUser, RequestFails, Step
  <2>2. CASE Done(c)
    BY <1>1, <2>1, <2>2, DoneType DEF Done, Off
  <2>3. CASE op' = [op EXCEPT ![c].pc = "insert"] /\ outdated' = outdated
    BY <1>1, <2>1, <2>3 DEF TypeOK
  <2> QED BY <2>1, <2>2, <2>3
<1>5. ASSUME NEW c \in Clients, ReadUser(c) PROVE LockUnread'
  <2>1. row' = row /\ op[c].pc = "read"
    BY <1>5 DEF ReadUser
  <2>2. CASE Done(c)
    BY <1>1, <2>1, <2>2, DoneType DEF Done, Off
  <2>3. CASE ~Done(c)
    <3>1. ~Locked(op[c].email) /\ outdated' = outdated
      BY <1>5, <2>3 DEF ReadUser, SeenLocked
    <3>2. op'[c].email = op[c].email /\ \A b \in Clients \ {c} : op'[b] = op[b]
      BY <1>5, <2>3 DEF ReadUser, TypeOK
    <3> QED BY <1>1, <2>1, <3>1, <3>2
  <2> QED BY <2>2, <2>3
<1>6. ASSUME NEW c \in Clients, ResetCounter(c) PROVE LockUnread'
  <2>1. \A e \in Emails : row'[e].locked = row[e].locked \/ row'[e].locked = 0
    BY <1>6, ResetRows
  <2>2. /\ op'[c].email = op[c].email /\ op[c].pc = "reset" /\ outdated' = outdated
        /\ \A b \in Clients \ {c} : op'[b] = op[b]
    BY <1>6 DEF ResetCounter, TypeOK
  <2> QED BY <1>1, <2>1, <2>2
<1>7. ASSUME NEW c \in Clients, LoggedIn(c) PROVE LockUnread'
  <2>1. \A e \in Emails : row'[e].locked = row[e].locked \/ row'[e].locked = 0
    BY <1>7, ResetRows
  <2>2. /\ op'[c] = Off /\ outdated' = outdated \ {c}
        /\ \A b \in Clients \ {c} : op'[b] = op[b]
    BY <1>7, DoneType DEF LoggedIn, Done
  <2> QED BY <1>1, <2>1, <2>2 DEF Off
\* A lock that is set now is news to everybody who goes on.
<1>8. ASSUME NEW c \in Clients, WrongPassword(c) PROVE LockUnread'
  <2> DEFINE e == op[c].email
  <2>1. /\ e \in Emails
        /\ row'[e].locked = IF maxAttempts = 1 THEN now + Lockout ELSE row[e].locked
        /\ \A d \in Emails \ {e} : row'[d] = row[d]
    BY <1>8, WrongPasswordRow
  <2>2. op'[c] = Off /\ now' = now /\ \A b \in Clients \ {c} : op'[b] = op[b]
    BY <1>8 DEF WrongPassword, TypeOK
  <2>3. /\ outdated \ {c} \subseteq outdated'
        /\ maxAttempts = 1 => \A b \in Clients \ {c} :
             op[b].pc \in {"reset", "compare"} /\ op[b].email = e => b \in outdated'
    <3>1. op[c].failed = 0 /\ maxAttempts \in Nat \ {0}
      BY <1>8, AuthAssumption DEF WrongPassword, ComparesFromZero, TypeOK
    <3>2. maxAttempts = 1 => Reached(op[c].failed + 1)
      BY <3>1 DEF Reached
    <3> QED BY <1>8, <3>2 DEF WrongPassword
  <2>4. \A d \in Emails : row'[d].locked <= now' + Lockout
    BY <1>0, <2>1, <2>2 DEF LockUnread
  <2>5. ASSUME NEW b \in Clients, op'[b].pc \in {"reset", "compare"},
               row'[op'[b].email].locked > now'
        PROVE  b \in outdated'
    <3>1. b # c /\ op'[b] = op[b]
      BY <2>2, <2>5 DEF Off
    <3>2. op[b].email \in Emails
      BY <2>5, <3>1 DEF HasEmail
    <3>3. CASE op[b].email = e /\ maxAttempts = 1
      BY <2>3, <2>5, <3>1, <3>3
    <3>4. CASE ~(op[b].email = e /\ maxAttempts = 1)
      <4>1. row'[op[b].email].locked = row[op[b].email].locked
        BY <2>1, <3>2, <3>4
      <4>2. Locked(op[b].email)
        BY <2>2, <2>5, <3>1, <4>1 DEF Locked
      <4> QED BY <2>3, <2>5, <3>1, <4>2 DEF LockUnread
    <3> QED BY <3>3, <3>4
  <2> QED BY <2>4, <2>5 DEF LockUnread, Locked
<1> QED BY <1>2, <1>3, <1>4, <1>5, <1>6, <1>7, <1>8 DEF Next, LoginStep

-----------------------------------------------------------------------------
\* Rows and requests keep their types, every login compares from a counter of
\* zero, and no login that goes on has seen a lock (internal/service/auth.go).
THEOREM Inductive == Spec => []IInv
<1>1. IInv /\ [Next]_vars => IInv'
  BY TypeStep, SignupStep, CountStep, LockStep, UnreadStep DEF IInv
<1> QED BY InitIInv, <1>1, PTL DEF Spec

\* Signup (auth.go:60): however many signups overlap, a second account comes only
\* from one that had counted before the first was inserted.
THEOREM SecondNeedsOverlap == Spec => []OneAdmin
<1>1. IInv => OneAdmin
  BY DEF IInv
<1> QED BY Inductive, <1>1, PTL

\* Login (auth.go:107): whatever the limit, the counter never exceeds the number
\* of requests that can be in flight at once.
THEOREM CounterCountsOverlap == Spec => []CounterForgets
<1>1. IInv => CounterForgets
  <2> SUFFICES ASSUME IInv, NEW e \in Emails PROVE row[e].failed <= Cardinality(Clients)
    BY DEF CounterForgets
  <2>1. row[e].failed \in Nat
        /\ row[e].failed + Cardinality(Comparing(e)) <= Cardinality(Clients)
    BY DEF IInv, TypeOK, ComparesFromZero
  <2> QED BY <2>1, ComparingFinite
<1> QED BY Inductive, <1>1, PTL

\* Login (auth.go:119): a lock is set only after the maximum of wrong passwords,
\* and with a maximum above one there is none, whatever comes: the counter that
\* a login compares with was reset before.
THEOREM NoLockAboveOne == Spec => [](LockIsEarned /\ LocksOnlyAtOne)
<1>1. IInv => LockIsEarned /\ LocksOnlyAtOne
  BY DEF IInv
<1> QED BY Inductive, <1>1, PTL

\* Login (auth.go:97): a lock is lifted, or the right password accepted in spite
\* of it, only by a login that had read the row before the lock was set.
THEOREM LockHoldsForReaders == Spec => LockIsKept
<1>1. IInv /\ [Next]_vars =>
        [\A e \in Emails :
           (Locked(e) /\ (row'[e].locked < row[e].locked \/ misses'[e] < misses[e]))
             => \E c \in outdated : op[c].email = e /\ op'[c] # op[c]]_vars
  <2> SUFFICES ASSUME IInv, [Next]_vars, NEW e \in Emails, Locked(e),
                      row'[e].locked < row[e].locked \/ misses'[e] < misses[e]
               PROVE  \E c \in outdated : op[c].email = e /\ op'[c] # op[c]
    OBVIOUS
  <2> USE DEF IInv
  <2>0. /\ now \in Nat /\ Lockout \in Nat /\ row[e].locked \in Nat
        /\ maxAttempts \in Nat /\ misses[e] \in 0..maxAttempts
        /\ row[e].locked <= now + Lockout
    BY AuthAssumption DEF TypeOK, LockUnread
  <2>1. CASE UNCHANGED <<row, misses>>
    BY <2>0, <2>1
  <2>2. ASSUME NEW c \in Clients, ResetCounter(c) \/ LoggedIn(c)
        PROVE  \E b \in outdated : op[b].email = e /\ op'[b] # op[b]
    <3>1. op[c].email = e
      BY <2>0, <2>2, ResetRows
    <3>2. op[c].pc \in {"reset", "compare"} /\ op'[c].pc # op[c].pc
      BY <2>2 DEF ResetCounter, LoggedIn, Done, Off, TypeOK
    <3>3. c \in outdated
      BY <3>1, <3>2 DEF LockUnread
    <3> QED BY <3>1, <3>2, <3>3
  <2>3. ASSUME NEW c \in Clients, WrongPassword(c) PROVE FALSE
    BY <2>0, <2>3, WrongPasswordRow
  <2> QED BY <2>1, <2>2, <2>3, RowsChange
<1> QED BY Inductive, <1>1, PTL DEF Spec, LockIsKept

-----------------------------------------------------------------------------
(* The rate limiter.                                                       *)

\* The requests of key k that passed at x or later, in the last window.
Since(k, x) == {p \in passed[k] : p.at >= x}

\* Whether one of them opened its window by the clock as it was.
OnTime(P) == IF \E p \in P : p.opens = "on time" THEN 1 ELSE 0

\* The part of its present window that a key has used; what an earlier window
\* has let through is forgotten with it, but was never more than the limit.
InWindow(b) == IF b.reset = 0 THEN Limit ELSE b.count

\* Of the windows that let the requests P through the last is b; every other one
\* was opened within them, or is the one before.
Within(P, b) ==
  Cardinality(P) <= (Cardinality(LateOpenings(P)) + OnTime(P)) * Limit + InWindow(b)

\* The history holds the passes of one window's length.
PassesAreRecent ==
  \A k \in Keys : /\ IsFiniteSet(passed[k])
                  /\ \A p \in passed[k] : p.at <= clock /\ clock < p.at + Window

\* Passes at the same time are numbered.
PassesAreNumbered ==
  \A k \in Keys : \A p \in passed[k] :
    p.n <= Cardinality({q \in passed[k] : q.at = p.at})

\* A window that was opened by the clock as it was lasts its full length.
OpenersAreCurrent ==
  \A k \in Keys : \A p \in passed[k] :
    p.opens = "on time" => buckets[k].reset = p.at + Window

\* The budget holds of every later part of the last window's length too.
BudgetFromThen == \A k \in Keys, x \in Nat : Within(Since(k, x), buckets[k])

\* Retry-After named the end of the window that is still the key's.
PromiseIsReset ==
  \A k \in Keys : promise[k] # 0 => buckets[k].reset \in {0, promise[k]}

\* Readings of the clock are of the past.
ReadingsArePast ==
  /\ lastPrune <= clock
  /\ \A c \in Callers : asked[c] # NotAsked => asked[c].at <= clock

\* The inductive invariant.
LimiterIInv ==
  /\ LimiterTypeOK /\ PassesAreRecent /\ PassesAreNumbered /\ OpenersAreCurrent
  /\ BudgetFromThen /\ PromiseIsReset /\ ReadingsArePast /\ ExpiredAreSwept

\* A window's worth more is the product with one more.
LEMMA OneMoreWindow ==
  ASSUME NEW n \in Nat
  PROVE  n * Limit \in Nat /\ (n + 1) * Limit = n * Limit + Limit
BY LimiterAssumption, SMT

\* Counting the passes that opened a window.
LEMMA CountingOpenings ==
  ASSUME NEW P, IsFiniteSet(P)
  PROVE  /\ IsFiniteSet(LateOpenings(P))
         /\ Cardinality(P) \in Nat /\ Cardinality(LateOpenings(P)) \in Nat
         /\ OnTime(P) \in {0, 1}
<1>1. LateOpenings(P) \in SUBSET P
  BY DEF LateOpenings
<1> QED BY <1>1, FS_Subset, FS_CardinalityType DEF OnTime

\* A sweep takes nothing from the budget.
LEMMA SweptWithin ==
  ASSUME NEW P, IsFiniteSet(P), NEW b \in Bucket, Within(P, b)
  PROVE  Within(P, Fresh)
<1> DEFINE n == Cardinality(LateOpenings(P)) + OnTime(P)
<1>1. n \in Nat /\ Cardinality(P) \in Nat
  BY CountingOpenings
<1>2. InWindow(b) \in Nat /\ InWindow(b) <= Limit /\ InWindow(Fresh) = Limit
  BY LimiterAssumption DEF InWindow, Bucket, Fresh
<1>3. n * Limit \in Nat
  BY <1>1, OneMoreWindow
<1>4. Cardinality(P) <= n * Limit + InWindow(b)
  BY DEF Within
<1> HIDE DEF n
<1>5. Cardinality(P) <= n * Limit + InWindow(Fresh)
  BY <1>1, <1>2, <1>3, <1>4, LimiterAssumption
<1> QED BY <1>5 DEF Within, n

\* A request that finds room in the window.
LEMMA RoomWithin ==
  ASSUME NEW P, IsFiniteSet(P), NEW b \in Bucket, Within(P, b), b.reset # 0,
         NEW e \in Bucket, e.reset = b.reset, e.count = b.count + 1,
         NEW p, p.opens = "no"
  PROVE  Within(P \cup {p}, e)
<1>1. LateOpenings(P \cup {p}) = LateOpenings(P) /\ OnTime(P \cup {p}) = OnTime(P)
  BY DEF LateOpenings, OnTime
<1>2. /\ IsFiniteSet(P \cup {p}) /\ Cardinality(P \cup {p}) \in Nat
      /\ Cardinality(P \cup {p}) <= Cardinality(P) + 1 /\ Cardinality(P) \in Nat
  <2>1. /\ IsFiniteSet(P \cup {p})
        /\ Cardinality(P \cup {p}) = IF p \in P THEN Cardinality(P) ELSE Cardinality(P) + 1
    BY FS_AddElement
  <2>2. Cardinality(P \cup {p}) \in Nat /\ Cardinality(P) \in Nat
    BY <2>1, FS_CardinalityType
  <2> QED BY <2>1, <2>2
<1> DEFINE n == Cardinality(LateOpenings(P)) + OnTime(P)
<1>3. n \in Nat
  BY CountingOpenings
<1>4. n * Limit \in Nat
  BY <1>3, OneMoreWindow
<1>5. InWindow(e) = InWindow(b) + 1 /\ InWindow(b) \in Nat
  BY LimiterAssumption DEF InWindow, Bucket
<1>6. Cardinality(P) <= n * Limit + InWindow(b)
  BY DEF Within
<1> HIDE DEF n
<1>7. Cardinality(P \cup {p}) <= n * Limit + InWindow(e)
  BY <1>2, <1>4, <1>5, <1>6
<1> QED BY <1>1, <1>7 DEF Within, n

\* A window that p opens by the clock as it was is the first such one after P.
OpensAfter(p, P) == p.opens = "late" \/ (p.opens = "on time" /\ OnTime(P) = 0)

\* A request that opens a window: what the one before has let through is at
\* most the limit.
LEMMA OpeningWithin ==
  ASSUME NEW P, IsFiniteSet(P), Within(P, Fresh),
         NEW e \in Bucket, e.reset # 0, e.count = 1,
         NEW p, p \notin P,
         OpensAfter(p, P)
  PROVE  Within(P \cup {p}, e)
<1> DEFINE Q == P \cup {p}
           k == Cardinality(P)
           l == Cardinality(LateOpenings(P))
           o == OnTime(P)
<1>1. IsFiniteSet(LateOpenings(P)) /\ k \in Nat /\ l \in Nat /\ o \in {0, 1}
  BY CountingOpenings
<1>2. Cardinality(Q) = k + 1
  BY FS_AddElement
<1>3. k <= (l + o) * Limit + Limit
  BY DEF Within, InWindow, Fresh
<1>4. InWindow(e) = 1
  BY DEF InWindow
<1>5. \/ Cardinality(LateOpenings(Q)) = l + 1 /\ OnTime(Q) = o
      \/ Cardinality(LateOpenings(Q)) = l /\ OnTime(Q) = 1 /\ o = 0
  <2>1. CASE p.opens = "late"
    <3>1. LateOpenings(Q) = LateOpenings(P) \cup {p} /\ p \notin LateOpenings(P)
      BY <2>1 DEF LateOpenings
    <3>2. Cardinality(LateOpenings(P) \cup {p}) =
            IF p \in LateOpenings(P) THEN l ELSE l + 1
      BY <1>1, FS_AddElement
    <3>3. OnTime(Q) = o
      BY <2>1 DEF OnTime
    <3> QED BY <3>1, <3>2, <3>3
  <2>2. CASE p.opens = "on time" /\ OnTime(P) = 0
    <3>1. LateOpenings(Q) = LateOpenings(P) /\ OnTime(Q) = 1
      BY <2>2 DEF LateOpenings, OnTime
    <3> QED BY <2>2, <3>1
  <2> QED BY <2>1, <2>2 DEF OpensAfter
<1> HIDE DEF k, l, o
<1>6. l + o \in Nat /\ ((l + o) + 1) * Limit = (l + o) * Limit + Limit
      /\ (l + o) * Limit \in Nat
  <2>1. l + o \in Nat
    BY <1>1
  <2> QED BY <2>1, OneMoreWindow
<1>7. Cardinality(LateOpenings(Q)) + OnTime(Q) = (l + o) + 1
  BY <1>1, <1>5
<1>8. k + 1 <= ((l + o) + 1) * Limit + 1
  BY <1>1, <1>3, <1>6, LimiterAssumption
<1> QED BY <1>2, <1>4, <1>7, <1>8 DEF Within

\* What a pass holds.
LEMMA PassFacts == \A p \in Pass : p.at \in Time /\ p.at \in Nat /\ p.n \in Nat
<1>1. Time \subseteq Nat
  BY LimiterAssumption DEF Time
<1>2. \A p \in Pass : p.at \in Time /\ p.n \in Nat
  BY DEF Pass
<1> QED BY <1>1, <1>2

\* Nothing has passed: any window will do.
LEMMA EmptyWithin == \A b \in Bucket : Within({}, b)
<1> SUFFICES ASSUME NEW b \in Bucket PROVE Within({}, b)
  OBVIOUS
<1>1. /\ IsFiniteSet({}) /\ Cardinality({}) = 0
      /\ LateOpenings({}) = {} /\ OnTime({}) = 0
  BY FS_EmptySet DEF LateOpenings, OnTime
<1>2. 0 * Limit = 0 /\ InWindow(b) \in Nat
  BY LimiterAssumption DEF InWindow, Bucket
<1>3. 0 <= (0 + 0) * Limit + InWindow(b)
  BY <1>2
<1> QED BY <1>1, <1>3 DEF Within

\* The first state.
LEMMA InitLimiterIInv == LimiterInit => LimiterIInv
<1> SUFFICES ASSUME LimiterInit PROVE LimiterIInv
  OBVIOUS
<1> USE LimiterAssumption
<1>1. Fresh \in Bucket
  BY DEF Fresh, Bucket
<1>2. LimiterTypeOK
  BY <1>1 DEF LimiterInit, LimiterTypeOK, Time
<1>3. PassesAreRecent /\ PassesAreNumbered /\ OpenersAreCurrent
  BY FS_EmptySet DEF LimiterInit, PassesAreRecent, PassesAreNumbered, OpenersAreCurrent
<1>4. BudgetFromThen
  <2>1. \A k \in Keys, x \in Nat : Since(k, x) = {} /\ buckets[k] = Fresh
    BY DEF LimiterInit, Since
  <2> QED BY <1>1, <2>1, EmptyWithin DEF BudgetFromThen
<1>5. PromiseIsReset /\ ReadingsArePast /\ ExpiredAreSwept
  BY DEF LimiterInit, PromiseIsReset, ReadingsArePast, ExpiredAreSwept
<1> QED BY <1>2, <1>3, <1>4, <1>5 DEF LimiterIInv

\* What a sweep makes of the windows.
LEMMA PrunedFacts ==
  ASSUME LimiterTypeOK, NEW t \in Time
  PROVE  /\ Pruned(t) \in [Keys -> Bucket] /\ Fresh \in Bucket
         /\ \A k \in Keys : \/ Pruned(t)[k] = buckets[k]
                            \/ Pruned(t)[k] = Fresh /\ buckets[k].reset <= t
<1>1. Fresh \in Bucket /\ buckets \in [Keys -> Bucket]
  BY LimiterAssumption DEF Fresh, Bucket, LimiterTypeOK
<1>2. \A k \in Keys : Expired(buckets[k], t) => buckets[k].reset <= t
  BY <1>1, LimiterAssumption DEF Expired, Bucket, Time
<1> QED BY <1>1, <1>2 DEF Pruned

\* What a request brings to the mutex.
LEMMA AskedFacts ==
  ASSUME LimiterTypeOK, ReadingsArePast, NEW c \in Callers, asked[c] # NotAsked
  PROVE  /\ asked[c].key \in Keys /\ asked[c].at \in Time /\ asked[c].at \in Nat
         /\ asked[c].at <= clock /\ clock \in Nat
BY LimiterAssumption DEF LimiterTypeOK, ReadingsArePast, Time

\* A request of key k that read t passes as p and leaves the window e.
LetIn(k, t, e, p) ==
  /\ buckets' = [Pruned(t) EXCEPT ![k] = e] /\ e \in Bucket
  /\ passed' = [passed EXCEPT ![k] = passed[k] \cup {p}]
  /\ p \in Pass /\ p.at = clock
  /\ p.n = Cardinality({q \in passed[k] : q.at = clock}) + 1

\* It opens the window ...
Opening(k, t, e, p) ==
  /\ LetIn(k, t, e, p)
  /\ Expired(Pruned(t)[k], t)
  /\ e.count = 1 /\ e.reset = t + Window
  /\ p.opens = (IF t < clock THEN "late" ELSE "on time")
  /\ late' = IF t < clock THEN StillLate(t) \cup {k} ELSE StillLate(t) \ {k}

\* ... or finds room in it.
FindingRoom(k, t, e, p) ==
  /\ LetIn(k, t, e, p)
  /\ Pruned(t)[k].reset # 0
  /\ e.reset = Pruned(t)[k].reset /\ e.count = Pruned(t)[k].count + 1
  /\ p.opens = "no"
  /\ late' = StillLate(t)

\* These are the ways a request passes.
LEMMA AllowOutcome ==
  ASSUME LimiterIInv, NEW c \in Callers, Allow(c)
  PROVE  LET k == asked[c].key   t == asked[c].at
         IN  \E e \in Bucket, p \in Pass : Opening(k, t, e, p) \/ FindingRoom(k, t, e, p)
<1> DEFINE k == asked[c].key
           t == asked[c].at
           b == Pruned(t)[k]
           n == Cardinality({q \in passed[k] : q.at = clock}) + 1
<1>0. LimiterTypeOK /\ ReadingsArePast /\ PassesAreRecent /\ asked[c] # NotAsked
  BY DEF LimiterIInv, Allow
<1>1. /\ k \in Keys /\ t \in Time /\ t \in Nat /\ t <= clock /\ clock \in Nat /\ clock \in Time
      /\ passed[k] \subseteq Pass /\ passed \in [Keys -> SUBSET Pass]
  BY <1>0, AskedFacts DEF LimiterTypeOK
<1>2. Pruned(t) \in [Keys -> Bucket] /\ b \in Bucket
  BY <1>0, <1>1, PrunedFacts
<1>3. n \in Nat
  <2>1. {q \in passed[k] : q.at = clock} \in SUBSET passed[k] /\ IsFiniteSet(passed[k])
    BY <1>0, <1>1 DEF PassesAreRecent
  <2> QED BY <2>1, FS_Subset, FS_CardinalityType
<1>4. CASE /\ b.reset = 0 \/ Expired(b, t)
           /\ buckets' = [Pruned(t) EXCEPT ![k] = [count |-> 1, reset |-> t + Window]]
           /\ Passes(k, IF t < clock THEN "late" ELSE "on time")
           /\ late' = IF t < clock THEN StillLate(t) \cup {k} ELSE StillLate(t) \ {k}
  <2> DEFINE e == [count |-> 1, reset |-> t + Window]
             o == IF t < clock THEN "late" ELSE "on time"
             p == [at |-> clock, opens |-> o, n |-> n]
  <2>1. e \in Bucket
    BY <1>1, LimiterAssumption DEF Bucket, Time
  <2>2. p \in Pass /\ p.at = clock /\ p.n = n /\ p.opens = o
    BY <1>1, <1>3 DEF Pass
  <2>3. passed' = [passed EXCEPT ![k] = passed[k] \cup {p}]
    BY <1>1, <1>4 DEF Passes
  <2>4. Expired(b, t)
    <3>1. b.reset = 0 => t >= b.reset
      BY <1>1
    <3> QED BY <1>4, <3>1 DEF Expired
  <2> QED BY <1>4, <2>1, <2>2, <2>3, <2>4 DEF Opening, LetIn
<1>5. CASE /\ b.reset # 0 /\ ~Expired(b, t)
           /\ Room(b)
           /\ buckets' = [Pruned(t) EXCEPT ![k].count = b.count + 1]
           /\ Passes(k, "no")
           /\ late' = StillLate(t)
  <2> DEFINE e == [b EXCEPT !.count = b.count + 1]
             p == [at |-> clock, opens |-> "no", n |-> n]
  <2>1. e \in Bucket /\ e.reset = b.reset /\ e.count = b.count + 1
    BY <1>2, <1>5, LimiterAssumption DEF Bucket, Room
  <2>2. buckets' = [Pruned(t) EXCEPT ![k] = e]
    BY <1>1, <1>2, <1>5
  <2>3. p \in Pass /\ p.at = clock /\ p.n = n /\ p.opens = "no"
    BY <1>1, <1>3 DEF Pass
  <2>4. passed' = [passed EXCEPT ![k] = passed[k] \cup {p}]
    BY <1>1, <1>5 DEF Passes
  <2> QED BY <1>5, <2>1, <2>2, <2>3, <2>4 DEF FindingRoom, LetIn
<1> QED BY <1>4, <1>5 DEF Allow

\* What every sweep leaves has not ended, or an old reading has opened it since.
LEMMA SweepLeaves ==
  ASSUME LimiterTypeOK, ReadingsArePast, ExpiredAreSwept,
         NEW t \in Time, t <= clock, Sweep(t)
  PROVE  /\ \A k \in Keys : \/ Pruned(t)[k] = Fresh
                            \/ Pruned(t)[k].reset > lastPrune'
                            \/ k \in StillLate(t)
         /\ lastPrune' \in 0..MaxClock /\ lastPrune' <= clock
<1>0. /\ t \in Nat /\ clock \in Nat /\ lastPrune \in 0..MaxClock /\ lastPrune <= clock
      /\ t \in 0..MaxClock /\ buckets \in [Keys -> Bucket]
  BY LimiterAssumption DEF LimiterTypeOK, ReadingsArePast, Time
<1>1. CASE lastPrune # 0 /\ t < lastPrune + Window
  <2>1. lastPrune' = lastPrune /\ Pruned(t) = buckets
    BY <1>1 DEF Sweep, Pruned
  <2> QED BY <1>0, <2>1 DEF ExpiredAreSwept, StillLate
<1>2. CASE ~(lastPrune # 0 /\ t < lastPrune + Window)
  <2>1. /\ lastPrune' = t
        /\ Pruned(t) = [k \in Keys |-> IF Expired(buckets[k], t) THEN Fresh ELSE buckets[k]]
    BY <1>2 DEF Sweep, Pruned
  <2>2. \A k \in Keys : ~Expired(buckets[k], t) => buckets[k].reset > t
    BY <1>0, LimiterAssumption DEF Expired, Bucket
  <2> QED BY <1>0, <2>1, <2>2
<1> QED BY <1>1, <1>2

\* A window that was opened by the clock as it was is not over before its time.
LEMMA OpenersStay ==
  ASSUME LimiterTypeOK, PassesAreRecent, OpenersAreCurrent,
         NEW t \in Time, t <= clock, NEW k \in Keys
  PROVE  /\ (\E q \in passed[k] : q.opens = "on time") =>
              /\ Pruned(t)[k] = buckets[k]
              /\ buckets[k].reset # 0 /\ ~Expired(Pruned(t)[k], t)
         /\ Pruned(t)[k].reset # 0 => Pruned(t)[k] = buckets[k]
<1>0. /\ t \in Nat /\ clock \in Nat /\ buckets[k] \in Bucket /\ passed[k] \subseteq Pass
      /\ \/ Pruned(t)[k] = buckets[k]
         \/ Pruned(t)[k] = Fresh /\ buckets[k].reset <= t
  <2>1. /\ t \in Nat /\ clock \in Nat /\ buckets[k] \in Bucket /\ passed[k] \subseteq Pass
    BY LimiterAssumption DEF LimiterTypeOK, Time
  <2> QED BY <2>1, PrunedFacts
<1>1. ASSUME NEW q \in passed[k], q.opens = "on time"
      PROVE  buckets[k].reset > t /\ buckets[k].reset # 0
  <2>1. q \in Pass
    BY <1>0, <1>1
  <2>2. q.at \in Nat
    BY <2>1, PassFacts
  <2>3. clock < q.at + Window /\ buckets[k].reset = q.at + Window
    BY <1>1 DEF PassesAreRecent, OpenersAreCurrent
  <2> QED BY <1>0, <2>2, <2>3, LimiterAssumption
<1>2. buckets[k].reset \in Nat
  BY <1>0, LimiterAssumption DEF Bucket
<1>3. buckets[k].reset > t => ~Expired(buckets[k], t) /\ ~(buckets[k].reset <= t)
  BY <1>0, <1>2 DEF Expired
<1>4. ASSUME NEW q \in passed[k], q.opens = "on time"
      PROVE  /\ Pruned(t)[k] = buckets[k] /\ buckets[k].reset # 0
             /\ ~Expired(Pruned(t)[k], t)
  <2>1. buckets[k].reset > t /\ buckets[k].reset # 0
    BY <1>1, <1>4
  <2>2. ~Expired(buckets[k], t) /\ Pruned(t)[k] = buckets[k]
    BY <1>0, <1>3, <2>1
  <2> QED BY <2>1, <2>2
<1>5. Pruned(t)[k].reset # 0 => Pruned(t)[k] = buckets[k]
  BY <1>0 DEF Fresh
<1> QED BY <1>4, <1>5

\* The requests that pass are as the budget counts them.
LEMMA AllowBudget ==
  ASSUME LimiterIInv, NEW k \in Keys, NEW t \in Time, t <= clock,
         NEW e \in Bucket, NEW p \in Pass,
         Opening(k, t, e, p) \/ FindingRoom(k, t, e, p), clock' = clock
  PROVE  /\ PassesAreRecent' /\ PassesAreNumbered' /\ OpenersAreCurrent'
         /\ BudgetFromThen'
<1>0. /\ LimiterTypeOK /\ PassesAreRecent /\ PassesAreNumbered /\ OpenersAreCurrent
      /\ BudgetFromThen /\ clock \in Nat /\ t \in Nat
      /\ passed \in [Keys -> SUBSET Pass] /\ buckets \in [Keys -> Bucket]
  BY LimiterAssumption DEF LimiterIInv, LimiterTypeOK, Time
<1>1. LetIn(k, t, e, p)
  BY DEF Opening, FindingRoom
<1>2. /\ passed'[k] = passed[k] \cup {p} /\ buckets'[k] = e
      /\ \A j \in Keys : j # k => passed'[j] = passed[j] /\ buckets'[j] = Pruned(t)[j]
  BY <1>0, <1>1, PrunedFacts DEF LetIn
<1>3. /\ \A j \in Keys : IsFiniteSet(passed[j])
      /\ \A j \in Keys : \A q \in passed[j] : q.at \in Nat /\ q.n \in Nat /\ q.at <= clock
  <2> QED BY <1>0, PassFacts DEF PassesAreRecent
<1>4. \A j \in Keys : \A x : /\ IsFiniteSet({q \in passed[j] : q.at = x})
                             /\ Cardinality({q \in passed[j] : q.at = x}) \in Nat
  <2> SUFFICES ASSUME NEW j \in Keys, NEW x
               PROVE  /\ IsFiniteSet({q \in passed[j] : q.at = x})
                      /\ Cardinality({q \in passed[j] : q.at = x}) \in Nat
    OBVIOUS
  <2>1. {q \in passed[j] : q.at = x} \in SUBSET passed[j]
    OBVIOUS
  <2> QED BY <1>3, <2>1, FS_Subset, FS_CardinalityType
<1>5. p \notin passed[k] /\ p.at = clock
  <2>1. p.at = clock /\ p.n = Cardinality({q \in passed[k] : q.at = clock}) + 1
    BY <1>1 DEF LetIn
  <2>2. p \in passed[k] => p.n <= Cardinality({q \in passed[k] : q.at = clock})
    BY <1>0, <2>1 DEF PassesAreNumbered
  <2>3. Cardinality({q \in passed[k] : q.at = clock}) \in Nat
    BY <1>4
  <2> QED BY <2>1, <2>2, <2>3
<1>6. PassesAreRecent'
  <2>1. IsFiniteSet(passed[k] \cup {p})
    BY <1>3, FS_AddElement
  <2>2. p.at <= clock /\ clock < p.at + Window
    BY <1>0, <1>5, LimiterAssumption
  <2>3. ASSUME NEW j \in Keys
        PROVE  /\ IsFiniteSet(passed'[j])
               /\ \A q \in passed'[j] : q.at <= clock /\ clock < q.at + Window
    BY <1>0, <1>2, <2>1, <2>2 DEF PassesAreRecent
  <2> QED BY <2>3 DEF PassesAreRecent
<1>7. PassesAreNumbered'
  <2> DEFINE At(j, x)  == {q \in passed[j] : q.at = x}
             Now(j, x) == {q \in passed'[j] : q.at = x}
  <2>1. ASSUME NEW j \in Keys, j # k, NEW q \in passed'[j]
        PROVE  q.n <= Cardinality(Now(j, q.at))
    BY <1>0, <1>2, <2>1 DEF PassesAreNumbered
  <2>2. /\ Now(k, clock) = At(k, clock) \cup {p} /\ p \notin At(k, clock)
        /\ \A x : x # clock => Now(k, x) = At(k, x)
    BY <1>2, <1>5
  <2>3. Cardinality(Now(k, clock)) = Cardinality(At(k, clock)) + 1
    <3>1. IsFiniteSet(At(k, clock))
      BY <1>4
    <3> HIDE DEF At, Now
    <3> QED BY <2>2, <3>1, FS_AddElement
  <2>4. p.n = Cardinality(At(k, clock)) + 1
    BY <1>1 DEF LetIn
  <2>5. ASSUME NEW q \in passed[k] PROVE q.n <= Cardinality(At(k, q.at))
    BY <1>0 DEF PassesAreNumbered
  <2>6. \A x : Cardinality(At(k, x)) \in Nat
    BY <1>4
  <2> HIDE DEF At, Now
  <2>7. ASSUME NEW q \in passed[k] PROVE q.n <= Cardinality(Now(k, q.at))
    <3>1. CASE q.at = clock
      <4>1. q.n <= Cardinality(At(k, clock)) /\ q.n \in Nat /\ Cardinality(At(k, clock)) \in Nat
        BY <1>3, <2>5, <2>6, <3>1
      <4> QED BY <2>3, <3>1, <4>1
    <3>2. CASE q.at # clock
      BY <2>2, <2>5, <3>2
    <3> QED BY <3>1, <3>2
  <2>8. p.n <= Cardinality(Now(k, p.at))
    BY <1>5, <2>3, <2>4, <2>6
  <2>9. ASSUME NEW j \in Keys, NEW q \in passed'[j]
        PROVE  q.n <= Cardinality(Now(j, q.at))
    BY <1>2, <2>1, <2>7, <2>8
  <2> USE DEF Now
  <2> QED BY <2>9 DEF PassesAreNumbered
<1>8. /\ Opening(k, t, e, p) => \A q \in passed[k] : q.opens # "on time"
      /\ FindingRoom(k, t, e, p) => /\ Pruned(t)[k] = buckets[k] /\ buckets[k].reset # 0
                                    /\ e.reset = buckets[k].reset
                                    /\ e.count = buckets[k].count + 1
  BY <1>0, OpenersStay DEF Opening, FindingRoom
<1>9. OpenersAreCurrent'
  <2>1. ASSUME NEW j \in Keys, j # k, NEW q \in passed'[j], q.opens = "on time"
        PROVE  buckets'[j].reset = q.at + Window
    BY <1>0, <1>2, <2>1, OpenersStay DEF OpenersAreCurrent
  <2>2. ASSUME NEW q \in passed'[k], q.opens = "on time"
        PROVE  buckets'[k].reset = q.at + Window
    <3>1. CASE Opening(k, t, e, p)
      <4>1. q = p
        BY <1>2, <1>8, <2>2, <3>1
      <4>2. p.opens = (IF t < clock THEN "late" ELSE "on time") /\ e.reset = t + Window
        BY <3>1 DEF Opening
      <4>3. ~(t < clock)
        BY <2>2, <4>1, <4>2
      <4>4. t = clock
        BY <1>0, <4>3
      <4> QED BY <1>2, <1>5, <4>1, <4>2, <4>4
    <3>2. CASE FindingRoom(k, t, e, p)
      <4>1. q \in passed[k]
        BY <1>2, <2>2, <3>2 DEF FindingRoom
      <4> QED BY <1>0, <1>2, <1>8, <2>2, <3>2, <4>1 DEF OpenersAreCurrent
    <3> QED BY <3>1, <3>2
  <2> QED BY <2>1, <2>2 DEF OpenersAreCurrent
<1>10. BudgetFromThen'
  <2>1. ASSUME NEW j \in Keys, NEW x \in Nat
        PROVE  IsFiniteSet(Since(j, x)) /\ Within(Since(j, x), buckets[j])
               /\ Within(Since(j, x), Fresh)
    <3>1. Since(j, x) \in SUBSET passed[j]
      BY DEF Since
    <3>2. IsFiniteSet(Since(j, x)) /\ Within(Since(j, x), buckets[j])
      BY <1>0, <1>3, <3>1, FS_Subset DEF BudgetFromThen
    <3> QED BY <1>0, <3>2, SweptWithin
  <2>2. ASSUME NEW j \in Keys, j # k, NEW x \in Nat
        PROVE  Within({q \in passed'[j] : q.at >= x}, buckets'[j])
    <3>1. {q \in passed'[j] : q.at >= x} = Since(j, x)
      BY <1>2, <2>2 DEF Since
    <3>2. buckets'[j] \in {buckets[j], Fresh}
      BY <1>0, <1>2, <2>2, PrunedFacts
    <3> QED BY <2>1, <3>1, <3>2
  <2>3. ASSUME NEW x \in Nat
        PROVE  Within({q \in passed'[k] : q.at >= x}, e)
    <3>1. CASE x <= clock
      <4>1. {q \in passed'[k] : q.at >= x} = Since(k, x) \cup {p}
        BY <1>0, <1>2, <1>5, <3>1 DEF Since
      <4>2. p \notin Since(k, x)
        BY <1>5 DEF Since
      <4>3. CASE Opening(k, t, e, p)
        <5>1. OnTime(Since(k, x)) = 0
          BY <1>8, <4>3 DEF OnTime, Since
        <5>2. OpensAfter(p, Since(k, x))
          BY <4>3, <5>1 DEF Opening, OpensAfter
        <5>3. e.reset # 0 /\ e.count = 1
          <6>1. e.reset = t + Window /\ e.count = 1
            BY <4>3 DEF Opening
          <6> QED BY <1>0, <6>1, LimiterAssumption
        <5>4. Within(Since(k, x) \cup {p}, e)
          BY <2>1, <4>2, <5>2, <5>3, OpeningWithin
        <5> QED BY <4>1, <5>4
      <4>4. CASE FindingRoom(k, t, e, p)
        <5>1. p.opens = "no"
          BY <4>4 DEF FindingRoom
        <5>2. buckets[k] \in Bucket
          BY <1>0
        <5>3. Within(Since(k, x) \cup {p}, e)
          BY <1>8, <2>1, <4>4, <5>1, <5>2, RoomWithin
        <5> QED BY <4>1, <5>3
      <4> QED BY <4>3, <4>4
    <3>2. CASE x > clock
      <4>1. {q \in passed'[k] : q.at >= x} = {}
        BY <1>0, <1>2, <1>3, <1>5, <3>2
      <4> QED BY <4>1, EmptyWithin
    <3> QED BY <1>0, <3>1, <3>2
  <2> QED BY <1>2, <2>2, <2>3 DEF BudgetFromThen, Since
<1> QED BY <1>6, <1>7, <1>9, <1>10

\* A step that lets a request pass keeps the invariant.
LEMMA AllowStep == LimiterIInv /\ (\E c \in Callers : Allow(c)) => LimiterIInv'
<1> SUFFICES ASSUME LimiterIInv, NEW c \in Callers, Allow(c) PROVE LimiterIInv'
  OBVIOUS
<1> DEFINE k == asked[c].key
           t == asked[c].at
<1>0. /\ LimiterTypeOK /\ ReadingsArePast /\ PassesAreRecent /\ OpenersAreCurrent
      /\ PromiseIsReset /\ ExpiredAreSwept
      /\ asked[c] # NotAsked /\ Sweep(t) /\ clock' = clock
      /\ asked' = [asked EXCEPT ![c] = NotAsked]
      /\ promise' = [promise EXCEPT ![k] = 0]
  BY DEF LimiterIInv, Allow
<1>1. k \in Keys /\ t \in Time /\ t \in Nat /\ t <= clock /\ clock \in Nat
  BY <1>0, AskedFacts
<1> HIDE DEF k, t
<1>2. PICK e \in Bucket, p \in Pass : Opening(k, t, e, p) \/ FindingRoom(k, t, e, p)
  BY AllowOutcome DEF k, t
<1>3. PassesAreRecent' /\ PassesAreNumbered' /\ OpenersAreCurrent' /\ BudgetFromThen'
  BY <1>0, <1>1, <1>2, AllowBudget
<1>4. LetIn(k, t, e, p)
  BY <1>2 DEF Opening, FindingRoom
<1>5. /\ Pruned(t) \in [Keys -> Bucket] /\ buckets' \in [Keys -> Bucket]
      /\ buckets'[k] = e /\ \A j \in Keys : j # k => buckets'[j] = Pruned(t)[j]
  BY <1>0, <1>1, <1>4, PrunedFacts DEF LetIn
<1>6. /\ \A j \in Keys : \/ Pruned(t)[j] = Fresh
                         \/ Pruned(t)[j].reset > lastPrune'
                         \/ j \in StillLate(t)
      /\ lastPrune' \in 0..MaxClock /\ lastPrune' <= clock
  BY <1>0, <1>1, SweepLeaves
<1>7. LimiterTypeOK'
  <2>1. clock' \in Time /\ asked' \in [Callers -> [key : Keys, at : Time] \cup {NotAsked}]
    BY <1>0 DEF LimiterTypeOK
  <2>2. passed' \in [Keys -> SUBSET Pass]
    BY <1>0, <1>1, <1>4 DEF LetIn, LimiterTypeOK
  <2>3. late' \subseteq Keys
    <3>1. StillLate(t) \subseteq Keys
      BY <1>0 DEF StillLate, LimiterTypeOK
    <3> QED BY <1>1, <1>2, <3>1 DEF Opening, FindingRoom
  <2>4. promise' \in [Keys -> 0..(MaxClock + Window)]
    <3>1. 0 \in 0..(MaxClock + Window)
      BY LimiterAssumption
    <3> QED BY <1>0, <1>1, <3>1 DEF LimiterTypeOK
  <2> QED BY <1>5, <1>6, <2>1, <2>2, <2>3, <2>4 DEF LimiterTypeOK
<1>8. PromiseIsReset'
  <2>1. promise'[k] = 0 /\ \A j \in Keys : j # k => promise'[j] = promise[j]
    BY <1>0, <1>1 DEF LimiterTypeOK
  <2>2. \A j \in Keys : j # k => buckets'[j] = buckets[j] \/ buckets'[j].reset = 0
    BY <1>0, <1>1, <1>5, PrunedFacts DEF Fresh
  <2>3. ASSUME NEW j \in Keys, promise'[j] # 0 PROVE buckets'[j].reset \in {0, promise'[j]}
    BY <1>0, <2>1, <2>2, <2>3 DEF PromiseIsReset
  <2> QED BY <2>3 DEF PromiseIsReset
<1>9. ReadingsArePast'
  BY <1>0, <1>6 DEF ReadingsArePast, LimiterTypeOK
<1>10. ExpiredAreSwept'
  <2>1. ASSUME NEW j \in Keys, j # k
        PROVE  buckets'[j] = Fresh \/ buckets'[j].reset > lastPrune' \/ j \in late'
    <3>1. j \in StillLate(t) => j \in late'
      BY <1>2, <2>1 DEF Opening, FindingRoom
    <3> QED BY <1>5, <1>6, <2>1, <3>1
  <2>2. e.reset > lastPrune' \/ k \in late'
    <3>1. CASE Opening(k, t, e, p)
      <4>1. t < clock => k \in late'
        BY <3>1 DEF Opening
      <4>2. e.reset = t + Window
        BY <3>1 DEF Opening
      <4> QED BY <1>1, <1>6, <4>1, <4>2, LimiterAssumption
    <3>2. CASE FindingRoom(k, t, e, p)
      <4>1. Pruned(t)[k] # Fresh /\ e.reset = Pruned(t)[k].reset /\ late' = StillLate(t)
        BY <3>2 DEF FindingRoom, Fresh
      <4> QED BY <1>1, <1>6, <4>1
    <3> QED BY <1>2, <3>1, <3>2
  <2> QED BY <1>5, <2>1, <2>2 DEF ExpiredAreSwept
<1> QED BY <1>3, <1>7, <1>8, <1>9, <1>10 DEF LimiterIInv

\* A step that refuses a request keeps the invariant.
LEMMA RefuseStep == LimiterIInv /\ (\E c \in Callers : Refuse(c)) => LimiterIInv'
<1> SUFFICES ASSUME LimiterIInv, NEW c \in Callers, Refuse(c) PROVE LimiterIInv'
  OBVIOUS
<1> DEFINE k == asked[c].key
           t == asked[c].at
<1>0. /\ LimiterTypeOK /\ ReadingsArePast /\ PassesAreRecent /\ PassesAreNumbered
      /\ OpenersAreCurrent /\ BudgetFromThen /\ PromiseIsReset /\ ExpiredAreSwept
      /\ asked[c] # NotAsked /\ Sweep(t) /\ clock' = clock /\ passed' = passed
      /\ asked' = [asked EXCEPT ![c] = NotAsked]
      /\ late' = StillLate(t)
  BY DEF LimiterIInv, Refuse
<1>1. k \in Keys /\ t \in Time /\ t \in Nat /\ t <= clock /\ clock \in Nat
  BY <1>0, AskedFacts
<1>2. /\ buckets' = [Pruned(t) EXCEPT ![k] = Pruned(t)[k]] /\ Pruned(t)[k].reset # 0
      /\ promise' = [promise EXCEPT ![k] = Pruned(t)[k].reset]
  BY DEF Refuse, Refused
<1> HIDE DEF k, t
<1>3. Pruned(t) \in [Keys -> Bucket]
  BY <1>0, <1>1, PrunedFacts
<1>4. buckets' = Pruned(t)
  BY <1>1, <1>2, <1>3
<1>5. \A j \in Keys : buckets'[j] = buckets[j] \/ buckets'[j] = Fresh
  BY <1>0, <1>1, <1>4, PrunedFacts
<1>6. /\ \A j \in Keys : \/ Pruned(t)[j] = Fresh
                         \/ Pruned(t)[j].reset > lastPrune'
                         \/ j \in StillLate(t)
      /\ lastPrune' \in 0..MaxClock /\ lastPrune' <= clock
  BY <1>0, <1>1, SweepLeaves
<1>7. LimiterTypeOK'
  <2>1. late' \subseteq Keys
    BY <1>0 DEF StillLate, LimiterTypeOK
  <2>2. Pruned(t)[k].reset \in 0..(MaxClock + Window)
    BY <1>1, <1>3 DEF Bucket
  <2>3. promise' \in [Keys -> 0..(MaxClock + Window)]
    BY <1>0, <1>1, <1>2, <2>2 DEF LimiterTypeOK
  <2>4. asked' \in [Callers -> [key : Keys, at : Time] \cup {NotAsked}]
    BY <1>0 DEF LimiterTypeOK
  <2> QED BY <1>0, <1>3, <1>4, <1>6, <2>1, <2>3, <2>4 DEF LimiterTypeOK
<1>8. PassesAreRecent' /\ PassesAreNumbered'
  BY <1>0 DEF PassesAreRecent, PassesAreNumbered
<1>9. OpenersAreCurrent'
  <2>1. ASSUME NEW j \in Keys, NEW q \in passed[j], q.opens = "on time"
        PROVE  buckets'[j].reset = q.at + Window
    BY <1>0, <1>1, <1>4, <2>1, OpenersStay DEF OpenersAreCurrent
  <2> QED BY <1>0, <2>1 DEF OpenersAreCurrent
<1>10. BudgetFromThen'
  <2>1. ASSUME NEW j \in Keys, NEW x \in Nat PROVE Within(Since(j, x), buckets'[j])
    <3>1. Since(j, x) \in SUBSET passed[j] /\ IsFiniteSet(passed[j]) /\ buckets[j] \in Bucket
      BY <1>0 DEF Since, PassesAreRecent, LimiterTypeOK
    <3>2. IsFiniteSet(Since(j, x))
      BY <3>1, FS_Subset
    <3>3. Within(Since(j, x), buckets[j])
      BY <1>0 DEF BudgetFromThen
    <3>4. Within(Since(j, x), Fresh)
      BY <3>1, <3>2, <3>3, SweptWithin
    <3> QED BY <1>5, <3>3, <3>4
  <2> QED BY <1>0, <2>1 DEF BudgetFromThen, Since
<1>11. PromiseIsReset'
  <2>1. /\ promise'[k] = buckets'[k].reset
        /\ \A j \in Keys : j # k => promise'[j] = promise[j]
    BY <1>0, <1>1, <1>2, <1>4 DEF LimiterTypeOK
  <2>2. \A j \in Keys : buckets'[j] = buckets[j] \/ buckets'[j].reset = 0
    BY <1>5 DEF Fresh
  <2>3. ASSUME NEW j \in Keys, promise'[j] # 0 PROVE buckets'[j].reset \in {0, promise'[j]}
    BY <1>0, <2>1, <2>2, <2>3 DEF PromiseIsReset
  <2> QED BY <2>3 DEF PromiseIsReset
<1>12. ReadingsArePast'
  BY <1>0, <1>6 DEF ReadingsArePast, LimiterTypeOK
<1>13. ExpiredAreSwept'
  BY <1>0, <1>4, <1>6 DEF ExpiredAreSwept
<1> QED BY <1>7, <1>8, <1>9, <1>10, <1>11, <1>12, <1>13 DEF LimiterIInv

\* The clock ticks: the passes of a window's length ago are forgotten.
LEMMA ClockStep == LimiterIInv /\ ClockTicks => LimiterIInv'
<1> SUFFICES ASSUME LimiterIInv, ClockTicks PROVE LimiterIInv'
  OBVIOUS
<1> USE LimiterAssumption
<1> DEFINE Left(j) == {p \in passed[j] : p.at + Window > clock + 1}
<1>0. /\ LimiterTypeOK /\ ReadingsArePast /\ PassesAreRecent /\ PassesAreNumbered
      /\ OpenersAreCurrent /\ BudgetFromThen /\ PromiseIsReset /\ ExpiredAreSwept
      /\ clock' = clock + 1 /\ clock < MaxClock /\ clock \in Nat /\ clock >= 1
      /\ UNCHANGED <<buckets, lastPrune, asked, late, promise>>
  BY DEF LimiterIInv, ClockTicks, LimiterTypeOK, Time
<1>1. /\ passed' = [j \in Keys |-> Left(j)]
      /\ \A j \in Keys : passed[j] \subseteq Pass /\ Left(j) \subseteq passed[j]
  BY <1>0 DEF ClockTicks, LimiterTypeOK
<1>2. \A j \in Keys : \A p \in passed[j] : p.at \in Nat /\ p.n \in Nat /\ p.at <= clock
  BY <1>0, <1>1, PassFacts DEF PassesAreRecent
<1>3. \A j \in Keys : \A S \in SUBSET passed[j] : IsFiniteSet(S)
  BY <1>0, FS_Subset DEF PassesAreRecent
<1>4. LimiterTypeOK' /\ ReadingsArePast'
  <2>1. clock' \in Time /\ passed' \in [Keys -> SUBSET Pass]
    BY <1>0, <1>1 DEF Time
  <2>2. \A s \in Nat : s <= clock => s <= clock + 1
    BY <1>0
  <2>3. lastPrune \in Nat
    BY <1>0 DEF LimiterTypeOK
  <2>4. \A c \in Callers : asked[c] # NotAsked => asked[c].at \in Nat
    BY <1>0, AskedFacts
  <2>5. ReadingsArePast'
    BY <1>0, <2>2, <2>3, <2>4 DEF ReadingsArePast
  <2> QED BY <1>0, <2>1, <2>5 DEF LimiterTypeOK
<1>5. PassesAreRecent'
  <2>1. ASSUME NEW j \in Keys, NEW p \in Left(j)
        PROVE  p.at <= clock + 1 /\ clock + 1 < p.at + Window
    BY <1>0, <1>1, <1>2
  <2>2. \A j \in Keys : IsFiniteSet(Left(j))
    BY <1>1, <1>3
  <2> HIDE DEF Left
  <2> QED BY <1>0, <1>1, <2>1, <2>2 DEF PassesAreRecent
<1>6. PassesAreNumbered'
  <2>1. ASSUME NEW j \in Keys, NEW p \in Left(j)
        PROVE  p.n <= Cardinality({q \in Left(j) : q.at = p.at})
    <3>1. {q \in Left(j) : q.at = p.at} = {q \in passed[j] : q.at = p.at}
      OBVIOUS
    <3> QED BY <1>0, <1>1, <2>1, <3>1 DEF PassesAreNumbered
  <2> HIDE DEF Left
  <2> QED BY <1>0, <1>1, <2>1 DEF PassesAreNumbered
<1>7. OpenersAreCurrent' /\ PromiseIsReset' /\ ExpiredAreSwept'
  <2>1. OpenersAreCurrent'
    BY <1>0, <1>1 DEF OpenersAreCurrent
  <2> QED BY <1>0, <2>1 DEF PromiseIsReset, ExpiredAreSwept
<1>8. BudgetFromThen'
  <2> SUFFICES ASSUME NEW j \in Keys, NEW x \in Nat
               PROVE  Within({p \in Left(j) : p.at >= x}, buckets[j])
    BY <1>0, <1>1 DEF BudgetFromThen, Since
  <2>1. ASSUME NEW y \in Nat, \A p \in passed[j] : p.at >= y <=> p \in Left(j) /\ p.at >= x
        PROVE  Within({p \in Left(j) : p.at >= x}, buckets[j])
    <3>1. {p \in Left(j) : p.at >= x} = Since(j, y)
      BY <2>1 DEF Since
    <3> QED BY <1>0, <3>1 DEF BudgetFromThen
  <2>2. CASE clock + 2 <= Window + x
    <3>1. \A p \in passed[j] : p.at >= x => p.at + Window > clock + 1
      BY <1>0, <1>2, <2>2
    <3> QED BY <2>1, <3>1
  <2>3. CASE ~(clock + 2 <= Window + x)
    <3> DEFINE y == clock + 2 - Window
    <3>1. y \in Nat /\ y >= x
      BY <1>0, <2>3
    <3>2. \A p \in passed[j] : p.at >= y <=> p.at + Window > clock + 1 /\ p.at >= x
      BY <1>0, <1>2, <2>3, <3>1
    <3> QED BY <2>1, <3>1, <3>2
  <2> QED BY <2>2, <2>3
<1> QED BY <1>4, <1>5, <1>6, <1>7, <1>8 DEF LimiterIInv

\* A request reads the clock, or nothing happens.
LEMMA ReadStep ==
  LimiterIInv /\ ((\E c \in Callers, k \in Keys : ReadClock(c, k)) \/ UNCHANGED limiterVars)
    => LimiterIInv'
<1>1. ASSUME LimiterIInv, NEW c \in Callers, NEW k \in Keys, ReadClock(c, k)
      PROVE  LimiterIInv'
  <2>0. /\ LimiterIInv /\ UNCHANGED <<clock, buckets, lastPrune, passed, late, promise>>
        /\ asked' = [asked EXCEPT ![c] = [key |-> k, at |-> clock]]
        /\ clock \in Time /\ clock \in Nat
    BY <1>1, LimiterAssumption DEF ReadClock, LimiterIInv, LimiterTypeOK, Time
  <2>1. LimiterTypeOK'
    BY <2>0 DEF LimiterIInv, LimiterTypeOK
  <2>2. ReadingsArePast'
    <3>1. \A b \in Callers : asked'[b] # NotAsked => asked'[b].at <= clock
      BY <2>0 DEF LimiterIInv, LimiterTypeOK, ReadingsArePast
    <3> QED BY <2>0, <3>1 DEF LimiterIInv, ReadingsArePast
  <2>3. PassesAreRecent' /\ PassesAreNumbered' /\ OpenersAreCurrent' /\ BudgetFromThen'
    BY <2>0 DEF LimiterIInv, PassesAreRecent, PassesAreNumbered, OpenersAreCurrent,
                BudgetFromThen, Since
  <2>4. PromiseIsReset' /\ ExpiredAreSwept'
    BY <2>0 DEF LimiterIInv, PromiseIsReset, ExpiredAreSwept
  <2> QED BY <2>1, <2>2, <2>3, <2>4 DEF LimiterIInv
<1>2. ASSUME LimiterIInv, UNCHANGED limiterVars PROVE LimiterIInv'
  BY <1>2 DEF limiterVars, LimiterIInv, LimiterTypeOK, PassesAreRecent, PassesAreNumbered,
              OpenersAreCurrent, BudgetFromThen, Since, PromiseIsReset, ReadingsArePast,
              ExpiredAreSwept
<1> QED BY <1>1, <1>2

\* RateLimiter: the invariant of the limiter.
THEOREM LimiterInductive == LimiterSpec => []LimiterIInv
<1>1. LimiterInit => LimiterIInv
  BY InitLimiterIInv
<1>2. LimiterIInv /\ [LimiterNext]_limiterVars => LimiterIInv'
  BY AllowStep, RefuseStep, ClockStep, ReadStep DEF LimiterNext
<1> QED BY <1>1, <1>2, PTL DEF LimiterSpec

\* RateLimiter.allow (middleware.go:78): for any number of requests in flight,
\* any limit and any window, in no stretch of one window's length do more
\* requests of a key pass than two windows let through, and one more window's
\* worth for each window that was opened in it on an old reading of the clock.
THEOREM BudgetHolds == LimiterSpec => []WindowBudget
<1>1. LimiterIInv => WindowBudget
  <2> SUFFICES ASSUME LimiterIInv, NEW k \in Keys
               PROVE  Cardinality(passed[k])
                        <= (2 + Cardinality(LateOpenings(passed[k]))) * Limit
    BY DEF WindowBudget
  <2> DEFINE n == Cardinality(passed[k])
             l == Cardinality(LateOpenings(passed[k]))
             o == OnTime(passed[k])
             w == InWindow(buckets[k])
  <2>1. IsFiniteSet(passed[k]) /\ passed[k] \subseteq Pass /\ buckets[k] \in Bucket
    BY DEF LimiterIInv, PassesAreRecent, LimiterTypeOK
  <2>2. Since(k, 0) = passed[k]
    BY <2>1, PassFacts DEF Since
  <2>3. n \in Nat /\ l \in Nat /\ o \in {0, 1}
    BY <2>1, CountingOpenings
  <2>4. w \in Nat /\ w <= Limit
    BY <2>1, LimiterAssumption DEF InWindow, Bucket
  <2>5. n <= (l + o) * Limit + w
    BY <2>2 DEF LimiterIInv, BudgetFromThen, Within
  <2> HIDE DEF n, l, o, w
  <2>6. l * Limit \in Nat /\ (l + 1) * Limit = l * Limit + Limit
    BY <2>3, OneMoreWindow
  <2>7. l + 1 \in Nat /\ (2 + l) * Limit = (l + 1) * Limit + Limit
    <3>1. l + 1 \in Nat /\ (l + 1) + 1 = 2 + l
      BY <2>3
    <3> QED BY <3>1, OneMoreWindow
  <2>8. (l + o) * Limit <= (l + 1) * Limit /\ (l + o) * Limit \in Nat
    <3>1. CASE o = 0
      <4>1. l + o = l
        BY <2>3, <3>1
      <4> QED BY <2>6, <4>1, LimiterAssumption
    <3>2. CASE o = 1
      BY <2>3, <2>6, <3>2, LimiterAssumption
    <3> QED BY <2>3, <3>1, <3>2
  <2>9. n <= (2 + l) * Limit
    BY <2>3, <2>4, <2>5, <2>6, <2>7, <2>8, LimiterAssumption
  <2> QED BY <2>9 DEF n, l
<1> QED BY LimiterInductive, <1>1, PTL

\* Retry-After (middleware.go:96): whoever comes back when it was told to is
\* refused only if another request of its key has passed since.
THEOREM RetryAfterHolds == LimiterSpec => RetryHonoured
<1>1. LimiterIInv /\ [LimiterNext]_limiterVars =>
        [\A c \in Callers :
           LET k == asked[c].key IN
           (Refuse(c) /\ promise[k] # 0) => asked[c].at < promise[k]]_limiterVars
  <2> SUFFICES ASSUME LimiterIInv, NEW c \in Callers, Refuse(c), promise[asked[c].key] # 0
               PROVE  asked[c].at < promise[asked[c].key]
    OBVIOUS
  <2> DEFINE k == asked[c].key
             t == asked[c].at
  <2>1. /\ LimiterTypeOK /\ ReadingsArePast /\ PromiseIsReset /\ asked[c] # NotAsked
        /\ Pruned(t)[k].reset # 0 /\ ~Expired(Pruned(t)[k], t) /\ promise[k] # 0
    BY DEF LimiterIInv, Refuse
  <2>2. k \in Keys /\ t \in Time /\ t \in Nat
    BY <2>1, AskedFacts
  <2> HIDE DEF k, t
  <2>3. Pruned(t)[k] = buckets[k]
    BY <2>1, <2>2, PrunedFacts DEF Fresh
  <2>4. buckets[k].reset = promise[k]
    BY <2>1, <2>2, <2>3 DEF PromiseIsReset
  <2>5. ~(t >= promise[k]) /\ promise[k] \in Nat
    BY <2>1, <2>2, <2>3, <2>4, LimiterAssumption DEF Expired, LimiterTypeOK
  <2>6. t < promise[k]
    BY <2>2, <2>5
  <2> QED BY <2>6 DEF k, t
<1> QED BY LimiterInductive, <1>1, PTL DEF LimiterSpec, RetryHonoured

\* pruneExpired (middleware.go:104): the map forgets the windows that have
\* ended, for any number of keys.
THEOREM SweepHolds == LimiterSpec => [](LimiterTypeOK /\ ExpiredAreSwept)
<1>1. LimiterIInv => LimiterTypeOK /\ ExpiredAreSwept
  BY DEF LimiterIInv
<1> QED BY LimiterInductive, <1>1, PTL

=============================================================================
