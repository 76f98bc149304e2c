--------------------------- MODULE Authentication ---------------------------
(***************************************************************************)
(* Signup and login (internal/service/auth.go over repository/user.go) of  *)
(* concurrent requests.  Every SQL statement is a step of its own; a       *)
(* request decides from the row it read.  The limiters in front of both    *)
(* routes are RateLimiter's.                                               *)
(*                                                                         *)
(* Not kept: passwords (the comparison comes out one way or the other),   *)
(* the session token (success is the end of the request), the audit log.   *)
(* first, overlapped, misses and outdated are history: no action reads     *)
(* them.                                                                   *)
(***************************************************************************)
EXTENDS Naturals, FiniteSets, FiniteSetsExt

CONSTANTS
  Clients,         \* requests that can be in flight at once
  Emails,
  AttemptLimits,   \* values of LOGIN_MAX_ATTEMPTS to consider
  Lockout,         \* LOGIN_LOCKOUT_MINUTES, in ticks
  MaxTime          \* bound: the clock stops here

ASSUME AuthAssumption ==
  /\ IsFiniteSet(Clients)
  /\ AttemptLimits \subseteq Nat \ {0}
  /\ Lockout \in Nat \ {0}
  /\ MaxTime \in Nat \ {0}

VARIABLES
  now,           \* the clock
  maxAttempts,   \* the deployment's LOGIN_MAX_ATTEMPTS
  users,         \* emails with an account
  row,           \* failed_attempts and locked_until (0: NULL) of each
  op,            \* the request of each client
  first,         \* the first account's email, or none
  overlapped,    \* signups that had counted no user when it was inserted
  misses,        \* wrong passwords since the last login, up to maxAttempts
  outdated       \* logins that read their row before its lock was set

vars == <<now, maxAttempts, users, row, op, first, overlapped, misses, outdated>>

Off == [pc |-> "off", email |-> "none", failed |-> 0]

Locked(e) == row[e].locked > now

\* Every row and every request has the values it may have.
TypeOK ==
  /\ now \in 1..MaxTime
  /\ maxAttempts \in AttemptLimits
  /\ users \subseteq Emails
  /\ row \in [Emails -> [failed : Nat, locked : 0..(MaxTime + Lockout)]]
  /\ op \in [Clients ->
              [pc : {"off", "read", "reset", "compare", "count", "insert"},
               email : Emails \cup {"none"}, failed : Nat]]
  /\ first \subseteq Emails
  /\ overlapped \subseteq Emails
  /\ misses \in [Emails -> 0..maxAttempts]
  /\ outdated \subseteq Clients

\* A new installation, or one whose administrator has signed up.
Init ==
  /\ now = 1
  /\ maxAttempts \in AttemptLimits
  /\ users \in {{}} \cup {{e} : e \in Emails}
  /\ first = users
  /\ row = [e \in Emails |-> [failed |-> 0, locked |-> 0]]
  /\ op = [c \in Clients |-> Off]
  /\ overlapped = {}
  /\ misses = [e \in Emails |-> 0]
  /\ outdated = {}

Step(c, pc) == op' = [op EXCEPT ![c].pc = pc]
Done(c)     == op' = [op EXCEPT ![c] = Off] /\ outdated' = outdated \ {c}

-----------------------------------------------------------------------------
(* Signup.                                                                 *)

AskSignup(c, e) ==
  /\ op[c].pc = "off"
  /\ op' = [op EXCEPT ![c] = [Off EXCEPT !.pc = "count", !.email = e]]
  /\ UNCHANGED <<now, maxAttempts, users, row, first, overlapped,
                 misses, outdated>>

\* mutant: the first count is not looked at
AnyNumber == TRUE

\* HasUsers and Signup go on only without an account.
NoAdminYet == users = {}

\* SELECT COUNT(*) FROM users; the password is hashed next.
CountUsers(c) ==
  /\ op[c].pc = "count"
  /\ IF NoAdminYet THEN Step(c, "insert") /\ UNCHANGED outdated ELSE Done(c)
  /\ UNCHANGED <<now, maxAttempts, users, row, first, overlapped, misses>>

\* INSERT INTO users, refused for an email that is there (UNIQUE).
InsertUser(c) ==
  /\ op[c].pc = "insert"
  /\ Done(c)
  /\ users' = users \cup {op[c].email}
  /\ IF users = {}
     THEN /\ first' = users'
          /\ overlapped' = {op[b].email : b \in {b \in Clients : op[b].pc = "insert"}}
     ELSE UNCHANGED <<first, overlapped>>
  /\ UNCHANGED <<now, maxAttempts, row, misses>>

-----------------------------------------------------------------------------
(* Login.                                                                  *)

AskLogin(c, e) ==
  /\ op[c].pc = "off"
  /\ op' = [op EXCEPT ![c] = [Off EXCEPT !.pc = "read", !.email = e]]
  /\ UNCHANGED <<now, maxAttempts, users, row, first, overlapped, misses, outdated>>

\* mutant: the counter is reset only after a lock that has ended
ResetAfterLock(u) == u.failed > 0 /\ u.locked # 0 /\ u.locked <= now

\* "Auto-reset counter": whenever the account is not locked.
ResetDue(u) == u.failed > 0 /\ u.locked <= now

\* mutant: the lock is not looked at
NeverLocked(e) == FALSE

\* GetByEmail returned a locked row.
SeenLocked(e) == Locked(e)

\* GetByEmail, and the decisions made from the row it returns.
ReadUser(c) ==
  LET e == op[c].email IN
  /\ op[c].pc = "read"
  /\ \/ /\ e \notin users \/ SeenLocked(e)
        /\ Done(c)
     \/ /\ e \in users /\ ~SeenLocked(e)
        /\ op' = [op EXCEPT ![c].pc = IF ResetDue(row[e]) THEN "reset" ELSE "compare",
                            ![c].failed = row[e].failed]
        /\ UNCHANGED outdated
  /\ UNCHANGED <<now, maxAttempts, users, row, first, overlapped, misses>>

ResetRow(e) == row' = [row EXCEPT ![e] = [failed |-> 0, locked |-> 0]]

\* ResetFailedAttempts before the password is compared.
ResetCounter(c) ==
  /\ op[c].pc = "reset"
  /\ ResetRow(op[c].email)
  /\ op' = [op EXCEPT ![c].pc = "compare", ![c].failed = 0]
  /\ UNCHANGED <<now, maxAttempts, users, first, overlapped, misses, outdated>>

\* newFailedAttempts >= maxAttempts
Reached(n) == n >= maxAttempts

LockEnd == now + Lockout

\* IncrementFailedAttempts, with a lock or without, after a wrong password.
WrongPassword(c) ==
  LET e == op[c].email   lock == Reached(op[c].failed + 1) IN
  /\ op[c].pc = "compare"
  /\ row' = [row EXCEPT ![e].failed = @ + 1,
                        ![e].locked = IF lock THEN LockEnd ELSE @]
  /\ misses' = [misses EXCEPT ![e] = Min({maxAttempts, @ + 1})]
  /\ op' = [op EXCEPT ![c] = Off]
  /\ outdated' = (IF lock THEN outdated \cup
                    {b \in Clients : /\ op[b].pc \in {"reset", "compare"}
                                     /\ op[b].email = e}
                  ELSE outdated) \ {c}
  /\ UNCHANGED <<now, maxAttempts, users, first, overlapped>>

\* ResetFailedAttempts after the right one, and a session.
LoggedIn(c) ==
  LET e == op[c].email IN
  /\ op[c].pc = "compare"
  /\ ResetRow(e)
  /\ misses' = [misses EXCEPT ![e] = 0]
  /\ Done(c)
  /\ UNCHANGED <<now, maxAttempts, users, first, overlapped>>

\* A statement of the request fails: the request ends and has changed nothing.
RequestFails(c) ==
  /\ op[c].pc \in {"count", "insert", "read", "reset", "compare"}
  /\ Done(c)
  /\ UNCHANGED <<now, maxAttempts, users, row, first, overlapped, misses>>

Tick ==
  /\ now < MaxTime
  /\ now' = now + 1
  /\ UNCHANGED <<maxAttempts, users, row, op, first, overlapped, misses, outdated>>

LoginStep(c) ==
  ReadUser(c) \/ ResetCounter(c) \/ WrongPassword(c) \/ LoggedIn(c)

Next ==
  \/ Tick
  \/ \E c \in Clients :
       \/ \E e \in Emails : AskSignup(c, e) \/ AskLogin(c, e)
       \/ CountUsers(c)
       \/ InsertUser(c)
       \/ LoginStep(c)
       \/ RequestFails(c)

Spec == Init /\ [][Next]_vars

-----------------------------------------------------------------------------
\* Signup (auth.go:60): a signup that begins when there is an account never
\* creates another one.  Only a signup that had counted before the first INSERT
\* does.
OneAdmin == users \ first \subseteq overlapped

\* Login (auth.go:107): every attempt that finds a counter resets it first, so
\* the counter never gets further than the attempts that overlap, whatever the
\* limit: it does not count the attempts one makes after another.
CounterForgets == \A e \in Emails : row[e].failed <= Cardinality(Clients)

\* Login (auth.go:119): nobody is locked out before maxAttempts wrong passwords.
LockIsEarned ==
  \A e \in Emails : row[e].locked # 0 => misses[e] = maxAttempts

\* Login (auth.go:97): while an account is locked, the lock is lifted and the
\* right password accepted only for an attempt that had read the row before the
\* lock was set.
LockIsKept ==
  [][\A e \in Emails :
       (Locked(e) /\ (row'[e].locked < row[e].locked \/ misses'[e] < misses[e]))
         => \E c \in outdated : op[c].email = e /\ op'[c] # op[c]]_vars

\* "lock if max exceeded" (auth.go:116; .env.example:18): an account is locked
\* once maxAttempts wrong passwords came in a row.
LocksAtMaximum ==
  [][\A e \in Emails :
       misses[e] # maxAttempts /\ misses'[e] = maxAttempts => row'[e].locked # 0]_vars
=============================================================================
