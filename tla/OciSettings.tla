----------------------------- MODULE OciSettings -----------------------------
(***************************************************************************)
(* The OCI credentials: the row of settings that administrators edit       *)
(* (internal/handler/settings.go, internal/repository/settings.go) and the *)
(* service that takes them over when it is first used after a start and    *)
(* keeps a client of the cloud for each region (init, getOrCreateClients   *)
(* and clientProvider of internal/service/oci.go), for the worker and for  *)
(* every request that reaches the cloud.                                   *)
(*                                                                         *)
(* Of the settings the fingerprint and the private key are kept: save      *)
(* number n may bring the key n, whose fingerprint is n, or one of them.   *)
(* The other fields are copied as the fingerprint is.                      *)
(* A definition marked "mutant" is a wrong variant of the one after it,    *)
(* which Spec does not use.                                                *)
(***************************************************************************)
EXTENDS Naturals, FiniteSets

CONSTANTS
  Admins,       \* administrators with the settings form open
  Callers,      \* the worker and requests that use the cloud
  Regions,
  MaxSaves,     \* bound: saves, altogether
  MaxRestarts   \* bound: restarts of the process

ASSUME OciSettingsAssumption == MaxSaves \in Nat /\ MaxRestarts \in Nat

\* What was never entered.
Empty == 0

Key == 0..MaxSaves

Credentials == [fp : Key, key : Key]

Nothing == [fp |-> Empty, key |-> Empty]

VARIABLES
  row,       \* the row of settings
  form,      \* each administrator's form, and then the request that saves it
  saves,     \* saves so far
  service,   \* the service: initialized, and what it took over
  clients,   \* the clients it keeps, by region
  caller,    \* what each caller is doing, or the region it wants a client of
  restarts,  \* restarts so far
  held,      \* history: every value the row has had
  stale,     \* history: a form has been saved over settings it did not show
  halved     \* history: half of a new pair has been saved

vars == <<row, form, saves, service, clients, caller, restarts, held, stale, halved>>

Off == [pc |-> "off", fp |-> Empty, key |-> Empty, half |-> FALSE, seen |-> Nothing]

Down == [initialized |-> FALSE, cred |-> Nothing]

\* The row, the forms, the service and its callers have the values they may.
TypeOK ==
  /\ row \in Credentials
  /\ form \in [Admins -> [pc : {"off", "open", "save", "write"}, fp : Key,
                          key : Key, half : BOOLEAN, seen : Credentials]]
  /\ saves \in 0..MaxSaves
  /\ service \in [initialized : BOOLEAN, cred : Credentials]
  /\ clients \in [Regions -> Credentials]
  /\ caller \in [Callers -> {"off", "init"} \cup Regions]
  /\ restarts \in 0..MaxRestarts
  /\ held \subseteq Credentials
  /\ stale \in BOOLEAN
  /\ halved \in BOOLEAN

Init ==
  /\ row = Nothing
  /\ form = [a \in Admins |-> Off]
  /\ saves = 0
  /\ service = Down
  /\ clients = [r \in Regions |-> Nothing]
  /\ caller = [c \in Callers |-> "off"]
  /\ restarts = 0
  /\ held = {Nothing}
  /\ stale = FALSE
  /\ halved = FALSE

-----------------------------------------------------------------------------
(* The row.                                                                *)

\* HandleGetSettings: the form shows the fingerprint, and a mask for the key.
Open(a) ==
  /\ form[a].pc = "off"
  /\ form' = [form EXCEPT ![a] = [Off EXCEPT !.pc = "open", !.fp = row.fp, !.seen = row]]
  /\ UNCHANGED <<row, saves, service, clients, caller, restarts, held, stale, halved>>

\* A key without its fingerprint, or another fingerprint for a key that is kept.
Half(fp, key, seen) ==
  \/ key # Empty /\ key # fp
  \/ key = Empty /\ fp # seen.fp /\ seen.key # Empty

\* The form is sent, with a new fingerprint or the one it showed, and with a new key
\* or the mask.  The handler refuses it without a fingerprint.
Send(a) ==
  /\ form[a].pc = "open"
  /\ saves < MaxSaves
  /\ saves' = saves + 1
  /\ \E fp \in {form[a].fp, saves + 1}, key \in {Empty, saves + 1} :
       form' = [form EXCEPT ![a] =
                  IF fp = Empty
                    THEN Off
                    ELSE [pc |-> "save", fp |-> fp, key |-> key,
                          half |-> Half(fp, key, @.seen), seen |-> @.seen]]
  /\ UNCHANGED <<row, service, clients, caller, restarts, held, stale, halved>>

\* mutant: nothing is kept
KeySent(f) == f.key

\* A key that was not sent is kept.
KeySaved(f) == IF f.key = Empty THEN row.key ELSE f.key

\* HandleUpdateSettings reads the row, which has the key to be kept, or fails.
Read(a) ==
  /\ form[a].pc = "save"
  /\ \/ form' = [form EXCEPT ![a].pc = "write", ![a].key = KeySaved(form[a])]
     \/ form' = [form EXCEPT ![a] = Off]
  /\ UNCHANGED <<row, saves, service, clients, caller, restarts, held, stale, halved>>

\* Update, or it fails.
Write(a) ==
  /\ form[a].pc = "write"
  /\ \/ /\ row' = [fp |-> form[a].fp, key |-> form[a].key]
        /\ stale' = (stale \/ form[a].seen # row)
        /\ halved' = (halved \/ form[a].half)
        /\ held' = held \cup {row'}
     \/ UNCHANGED <<row, held, stale, halved>>
  /\ form' = [form EXCEPT ![a] = Off]
  /\ UNCHANGED <<saves, service, clients, caller, restarts>>

-----------------------------------------------------------------------------
(* The service.                                                            *)

Call(c) ==
  /\ caller[c] = "off"
  /\ caller' = [caller EXCEPT ![c] = "init"]
  /\ UNCHANGED <<row, form, saves, service, clients, restarts, held, stale, halved>>

Initialized == service.initialized

\* mutant: the fingerprint is enough
FingerprintComplete == row.fp # Empty

Complete == row.fp # Empty /\ row.key # Empty

\* init, under the mutex: the settings are read once, if they are complete.
InitService(c) ==
  /\ caller[c] = "init"
  /\ \/ /\ Initialized \/ Complete
        /\ service' = IF Initialized THEN service
                                     ELSE [initialized |-> TRUE, cred |-> row]
        /\ \E r \in Regions : caller' = [caller EXCEPT ![c] = r]
     \/ /\ ~Initialized   \* incomplete, or the database fails
        /\ caller' = [caller EXCEPT ![c] = "off"]
        /\ UNCHANGED service
  /\ UNCHANGED <<row, form, saves, clients, restarts, held, stale, halved>>

\* clientProvider.
NewClient(r) == service.cred

\* getOrCreateClients, under the mutex again.
GetClients(c) ==
  /\ caller[c] \in Regions
  /\ LET r == caller[c] IN
     \/ clients[r] # Nothing /\ UNCHANGED clients
     \/ clients[r] = Nothing /\ clients' = [clients EXCEPT ![r] = NewClient(r)]
     \/ clients[r] = Nothing /\ UNCHANGED clients   \* it cannot be made
  /\ caller' = [caller EXCEPT ![c] = "off"]
  /\ UNCHANGED <<row, form, saves, service, restarts, held, stale, halved>>

\* The process dies and starts: forms stay open, requests end.
Restart ==
  /\ restarts < MaxRestarts
  /\ restarts' = restarts + 1
  /\ service' = Down
  /\ clients' = [r \in Regions |-> Nothing]
  /\ caller' = [c \in Callers |-> "off"]
  /\ form' = [a \in Admins |-> IF form[a].pc \in {"save", "write"} THEN Off ELSE form[a]]
  /\ UNCHANGED <<row, saves, held, stale, halved>>

Next ==
  \/ \E a \in Admins : Open(a) \/ Send(a) \/ Read(a) \/ Write(a)
  \/ \E c \in Callers : Call(c) \/ InitService(c) \/ GetClients(c)
  \/ Restart

Spec == Init /\ [][Next]_vars

-----------------------------------------------------------------------------
(* What should hold.                                                       *)

\* Once a key was entered the settings have one, and it belongs to their
\* fingerprint, also when forms are saved with the key masked: the handler keeps the
\* key of the row, not the one of the form.  Two things break this, and nothing else:
\* a form that is saved over settings it did not show, and one that brings half of a
\* new pair, which the handler accepts (a new fingerprint with the masked key, or a
\* new key with the old fingerprint).
RowIsPaired ==
  ~stale /\ ~halved => row.fp = row.key \/ \A c \in held : c.key = Empty

\* However callers and saves interleave, every client that is kept, of whatever
\* region and however late it was made, has the credentials that the service
\* took over, and these were all in the row at one moment, none of them missing:
\* it does not start on settings that are half there, which would be for good.
ClientsAgree ==
  /\ \A r \in Regions : clients[r] \in {Nothing, service.cred}
  /\ service.initialized =>
       service.cred \in held /\ Empty \notin {service.cred.fp, service.cred.key}

\* Settings that are saved while the service runs change nothing before the next
\* start, so that the calls of one provisioning, or of one rollback, are all
\* made with the same credentials.
KeptUntilRestart ==
  [][service.initialized /\ service' # service => ~service'.initialized]_service
=============================================================================
