------------------------- MODULE OciSettingsProofs -------------------------
(***************************************************************************)
(* What holds of OciSettings for every number of administrators, callers,  *)
(* regions, saves and restarts.  The service and the row are independent   *)
(* but for what the service takes over: each has an invariant of its own.  *)
(***************************************************************************)
EXTENDS OciSettings, TLAPS

\* A service that has not been initialized has no credentials, and the row is
\* among the values the row has had.
ServiceInv ==
  /\ row \in held
  /\ ~service.initialized => service = Down
  /\ ClientsAgree

\* A new key with its fingerprint.
NewPair(f) == f.fp = f.key /\ f.key # Empty /\ f.seen.key <= f.key

\* What the form showed, or a new fingerprint where there was no key.
AsShown(f) == f.fp = f.seen.fp \/ f.seen.key = Empty

\* What a form can bring, whoever else saves.
FormShape(f) ==
  /\ f.seen.key <= saves /\ f.key <= saves
  /\ f.pc = "open" => f.fp = f.seen.fp /\ f.key = Empty
  /\ f.pc = "save" => f.half \/ NewPair(f) \/ (AsShown(f) /\ f.key = Empty)
  /\ f.pc = "write" => f.half \/ NewPair(f) \/ AsShown(f)

\* While no form was saved over settings it did not show, keys are only ever
\* replaced by newer ones: a form showed no key that is newer than the row's,
\* and the one that the handler has filled in is between these two, if the form
\* does not bring half a pair.
KeysGrow ==
  \A a \in Admins :
    LET f == form[a] IN
    /\ f.seen.key <= row.key
    /\ f.pc = "write" => \/ f.half
                         \/ NewPair(f)
                         \/ AsShown(f) /\ f.seen.key <= f.key /\ f.key <= row.key

\* Without such a save the row is paired, or there has never been a key.
Paired ==
  /\ row.key = Empty => \A c \in held : c.key = Empty
  /\ row.key # Empty => row.fp = row.key

RowInv ==
  /\ row.key <= saves
  /\ \A a \in Admins : FormShape(form[a])
  /\ ~stale /\ ~halved => KeysGrow /\ Paired

\* The inductive invariant.
IInv == TypeOK /\ ServiceInv /\ RowInv

-----------------------------------------------------------------------------
\* A service that has not read its settings satisfies the invariant.
LEMMA InitIInv == Init => IInv
<1> SUFFICES ASSUME Init PROVE IInv
  OBVIOUS
<1> USE OciSettingsAssumption DEF Init, Nothing, Down, Off, Credentials, Key, Empty
<1>1. TypeOK
  <2>1. row \in Credentials /\ held \subseteq Credentials
    OBVIOUS
  <2>2. form \in [Admins -> [pc : {"off", "open", "save", "write"}, fp : Key,
                             key : Key, half : BOOLEAN, seen : Credentials]]
    OBVIOUS
  <2>3. clients \in [Regions -> Credentials]
    OBVIOUS
  <2>4. service \in [initialized : BOOLEAN, cred : Credentials]
    <3>1. Nothing \in Credentials
      OBVIOUS
    <3> QED BY <3>1, Zenon
  <2>5. stale \in BOOLEAN /\ halved \in BOOLEAN
    BY Zenon
  <2>6. /\ saves \in 0..MaxSaves /\ restarts \in 0..MaxRestarts
        /\ caller \in [Callers -> {"off", "init"} \cup Regions]
    OBVIOUS
  <2> QED BY <2>1, <2>2, <2>3, <2>4, <2>5, <2>6, Zenon DEF TypeOK
<1>2. ServiceInv
  BY DEF ServiceInv, ClientsAgree
<1>3. RowInv
  BY DEF RowInv, FormShape, NewPair, AsShown, KeysGrow, Paired
<1> QED BY <1>1, <1>2, <1>3 DEF IInv

\* The records of forms.
FormRecord == [pc : {"off", "open", "save", "write"}, fp : Key, key : Key,
               half : BOOLEAN, seen : Credentials]

\* A form in each of its states is such a record.
LEMMA Forms ==
  /\ Empty \in Key /\ Nothing \in Credentials /\ Off \in FormRecord
  /\ \A c \in Credentials :
       /\ c.fp \in Key /\ c.key \in Key
       /\ [Off EXCEPT !.pc = "open", !.fp = c.fp, !.seen = c] \in FormRecord
  /\ \A fp, key \in Key, c \in Credentials :
       /\ Half(fp, key, c) \in BOOLEAN
       /\ [pc |-> "save", fp |-> fp, key |-> key, half |-> Half(fp, key, c), seen |-> c]
            \in FormRecord
  /\ \A f \in FormRecord, key \in Key :
       /\ f.seen \in Credentials /\ f.fp \in Key /\ f.key \in Key
       /\ [f EXCEPT !.pc = "write", !.key = key] \in FormRecord
<1> USE OciSettingsAssumption
<1>1. Empty \in Key
  BY DEF Empty, Key
<1>2. Nothing \in Credentials
  BY <1>1 DEF Nothing, Credentials
<1>3. Off \in FormRecord
  BY <1>1, <1>2, Zenon DEF Off, FormRecord
<1>4. ASSUME NEW c \in Credentials
      PROVE  /\ c.fp \in Key /\ c.key \in Key
             /\ [Off EXCEPT !.pc = "open", !.fp = c.fp, !.seen = c] \in FormRecord
  <2>1. c.fp \in Key /\ c.key \in Key
    BY DEF Credentials
  <2>2. [Off EXCEPT !.pc = "open", !.fp = c.fp, !.seen = c] \in FormRecord
    BY <1>3, <2>1, Zenon DEF FormRecord
  <2> QED BY <2>1, <2>2
<1>5. ASSUME NEW fp \in Key, NEW key \in Key, NEW c \in Credentials
      PROVE  /\ Half(fp, key, c) \in BOOLEAN
             /\ [pc |-> "save", fp |-> fp, key |-> key, half |-> Half(fp, key, c), seen |-> c]
                  \in FormRecord
  <2>1. Half(fp, key, c) \in BOOLEAN
    BY Zenon DEF Half
  <2> QED BY <2>1, Zenon DEF FormRecord
<1>6. ASSUME NEW f \in FormRecord, NEW key \in Key
      PROVE  /\ f.seen \in Credentials /\ f.fp \in Key /\ f.key \in Key
             /\ [f EXCEPT !.pc = "write", !.key = key] \in FormRecord
  BY Zenon DEF FormRecord
<1> QED BY <1>1, <1>2, <1>3, <1>4, <1>5, <1>6

\* Every step keeps the types.
LEMMA TypeStep == TypeOK /\ [Next]_vars => TypeOK'
<1> SUFFICES ASSUME TypeOK, [Next]_vars PROVE TypeOK'
  OBVIOUS
<1>f. form \in [Admins -> FormRecord] /\ row \in Credentials /\ saves \in 0..MaxSaves
  BY DEF TypeOK, FormRecord
<1>1. ASSUME NEW a \in Admins, Open(a) PROVE TypeOK'
  <2>1. form' \in [Admins -> FormRecord]
    BY <1>f, <1>1, Forms, Zenon DEF Open
  <2> QED BY <1>1, <2>1, Zenon DEF Open, TypeOK, FormRecord
<1>2. ASSUME NEW a \in Admins, Send(a) PROVE TypeOK'
  <2>1. saves + 1 \in Key /\ saves' \in 0..MaxSaves
    BY <1>f, <1>2, OciSettingsAssumption DEF Send, Key
  <2>2. PICK fp \in {form[a].fp, saves + 1}, key \in {Empty, saves + 1} :
          form' = [form EXCEPT ![a] =
                     IF fp = Empty
                       THEN Off
                       ELSE [pc |-> "save", fp |-> fp, key |-> key,
                             half |-> Half(fp, key, form[a].seen), seen |-> form[a].seen]]
    BY <1>f, <1>2, Zenon DEF Send
  <2>3. fp \in Key /\ key \in Key /\ form[a].seen \in Credentials
    BY <1>f, <2>1, <2>2, Forms, Zenon
  <2>4. form' \in [Admins -> FormRecord]
    BY <1>f, <2>2, <2>3, Forms, Zenon
  <2> QED BY <1>2, <2>1, <2>4, Zenon DEF Send, TypeOK, FormRecord
<1>3. ASSUME NEW a \in Admins, Read(a) PROVE TypeOK'
  <2>1. KeySaved(form[a]) \in Key
    BY <1>f, Forms, Zenon DEF KeySaved
  <2>2. CASE form' = [form EXCEPT ![a].pc = "write", ![a].key = KeySaved(form[a])]
    <3>1. form' = [form EXCEPT ![a] = [form[a] EXCEPT !.pc = "write", !.key = KeySaved(form[a])]]
      <4> HIDE DEF FormRecord
      <4> QED BY <1>f, <2>2
    <3>2. [form[a] EXCEPT !.pc = "write", !.key = KeySaved(form[a])] \in FormRecord
      BY <1>f, <2>1, Forms, Zenon
    <3>3. form' \in [Admins -> FormRecord]
      BY <1>f, <3>1, <3>2, Zenon
    <3> QED BY <1>3, <3>3, Zenon DEF Read, TypeOK, FormRecord
  <2>3. CASE form' = [form EXCEPT ![a] = Off]
    <3>1. form' \in [Admins -> FormRecord]
      BY <1>f, <2>3, Forms, Zenon
    <3> QED BY <1>3, <3>1, Zenon DEF Read, TypeOK, FormRecord
  <2> QED BY <1>3, <2>2, <2>3 DEF Read
<1> USE OciSettingsAssumption DEF TypeOK, Credentials, Key, Empty, Nothing, Off, Down
<1>4. ASSUME NEW a \in Admins, Write(a) PROVE TypeOK'
  <2>1. form' \in [Admins -> [pc : {"off", "open", "save", "write"}, fp : Key,
                              key : Key, half : BOOLEAN, seen : Credentials]]
    BY <1>4 DEF Write
  <2>2. row' \in Credentials /\ held' \subseteq Credentials
    BY <1>4 DEF Write
  <2>3. stale' \in BOOLEAN /\ halved' \in BOOLEAN
    BY <1>4, Zenon DEF Write
  <2> QED BY <1>4, <2>1, <2>2, <2>3 DEF Write
<1>5. ASSUME NEW c \in Callers, Call(c) PROVE TypeOK'
  BY <1>5 DEF Call
<1>6. ASSUME NEW c \in Callers, InitService(c) PROVE TypeOK'
  <2>1. service' = service \/ service' = [initialized |-> TRUE, cred |-> row]
    BY <1>6, Zenon DEF InitService, Initialized
  <2>2. [initialized |-> TRUE, cred |-> row] \in [initialized : BOOLEAN, cred : Credentials]
    OBVIOUS
  <2>3. service' \in [initialized : BOOLEAN, cred : Credentials]
    BY <2>1, <2>2, Zenon
  <2>4. caller' \in [Callers -> {"off", "init"} \cup Regions]
    BY <1>6 DEF InitService
  <2> QED BY <1>6, <2>3, <2>4 DEF InitService
<1>7. ASSUME NEW c \in Callers, GetClients(c) PROVE TypeOK'
  BY <1>7 DEF GetClients, NewClient
<1>8. CASE Restart
  BY <1>8 DEF Restart
<1>9. CASE UNCHANGED vars
  BY <1>9 DEF vars
<1> QED BY <1>1, <1>2, <1>3, <1>4, <1>5, <1>6, <1>7, <1>8, <1>9 DEF Next

\* Every step keeps the clients to the credentials that the service took over.
LEMMA ServiceStep == TypeOK /\ ServiceInv /\ [Next]_vars => ServiceInv'
<1> SUFFICES ASSUME TypeOK, ServiceInv, [Next]_vars PROVE ServiceInv'
  OBVIOUS
<1> USE DEF ServiceInv, ClientsAgree
<1>1. CASE UNCHANGED <<row, service, clients, held>>
  BY <1>1
<1>2. ASSUME NEW a \in Admins, Write(a) PROVE ServiceInv'
  BY <1>2 DEF Write
<1>3. ASSUME NEW c \in Callers, InitService(c) PROVE ServiceInv'
  BY <1>3 DEF InitService, Initialized, Complete, Down, TypeOK
<1>4. ASSUME NEW c \in Callers, GetClients(c) PROVE ServiceInv'
  BY <1>4 DEF GetClients, NewClient, TypeOK
<1>5. CASE Restart
  BY <1>5 DEF Restart, Down, Nothing
<1> QED BY <1>1, <1>2, <1>3, <1>4, <1>5 DEF Next, Open, Send, Read, Call, vars

\* What is in a form that is sent.
LEMMA SentFields ==
  ASSUME NEW f, NEW fp, NEW key, NEW c,
         f = [pc |-> "save", fp |-> fp, key |-> key, half |-> Half(fp, key, c), seen |-> c]
  PROVE  /\ f.pc = "save" /\ f.fp = fp /\ f.key = key /\ f.seen = c
         /\ f.half \/ ~Half(fp, key, c)
<1>1. f.pc = "save" /\ f.fp = fp /\ f.key = key /\ f.seen = c
  OBVIOUS
<1> DEFINE h == Half(fp, key, c)
<1>2. f.half = h
  <2>1. f = [pc |-> "save", fp |-> fp, key |-> key, half |-> h, seen |-> c]
    OBVIOUS
  <2> HIDE DEF h
  <2> QED BY <2>1
<1>3. f.half \/ ~h
  <2> HIDE DEF h
  <2> QED BY <1>2, Zenon
<1> QED BY <1>1, <1>3

\* Every step keeps the key of the row, of the forms and of the saves with its fingerprint.
LEMMA RowStep == TypeOK /\ RowInv /\ [Next]_vars => RowInv'
<1> SUFFICES ASSUME TypeOK, RowInv, [Next]_vars PROVE RowInv'
  OBVIOUS
<1> USE OciSettingsAssumption DEF TypeOK, RowInv, NewPair, AsShown,
       Credentials, Key, Empty, Nothing, Off
<1>1. ASSUME NEW a \in Admins, Open(a) PROVE RowInv'
  BY <1>1 DEF Open, FormShape, KeysGrow, Paired
<1>2. ASSUME NEW a \in Admins, Send(a) PROVE RowInv'
  <2>1. /\ UNCHANGED <<row, held, stale, halved>> /\ saves' = saves + 1
        /\ \A b \in Admins \ {a} : form'[b] = form[b]
    BY <1>2 DEF Send
  <2>2. /\ form[a].pc = "open" /\ FormShape(form[a])
        /\ form'[a] = Off \/ (form'[a].pc = "save" /\ form'[a].seen = form[a].seen)
    BY <1>2 DEF Send
  <2>3. FormShape(form[a])'
    <3>1. PICK fp \in {form[a].fp, saves + 1}, key \in {Empty, saves + 1} :
            form'[a] = IF fp = Empty
                         THEN Off
                         ELSE [pc |-> "save", fp |-> fp, key |-> key,
                               half |-> Half(fp, key, form[a].seen), seen |-> form[a].seen]
      <4> HIDE DEF Off, Empty
      <4> QED BY <1>2, Zenon DEF Send
    <3>2. CASE form'[a] = Off
      BY <2>1, <3>2 DEF FormShape
    <3>3. CASE /\ form'[a].pc = "save" /\ form'[a].fp = fp /\ form'[a].key = key
               /\ form'[a].seen = form[a].seen
               /\ form'[a].half \/ ~Half(fp, key, form[a].seen)
      <4>1. form'[a].half \/ NewPair(form'[a]) \/ (AsShown(form'[a]) /\ form'[a].key = Empty)
        <5>1. CASE form'[a].half
          BY <5>1, Zenon
        <5>2. CASE ~Half(fp, key, form[a].seen)
          BY <2>2, <3>1, <3>3, <5>2 DEF Half, FormShape
        <5> QED BY <3>3, <5>1, <5>2
      <4>2. form'[a].seen.key <= saves' /\ form'[a].key <= saves'
        BY <2>1, <2>2, <3>1, <3>3 DEF FormShape
      <4>3. form'[a].pc # "open" /\ form'[a].pc # "write"
        BY <3>3
      <4> HIDE DEF NewPair, AsShown
      <4> QED BY <4>1, <4>2, <4>3, Zenon DEF FormShape
    <3>4. fp = Empty \/ fp # Empty
      OBVIOUS
    <3>5. CASE form'[a] = [pc |-> "save", fp |-> fp, key |-> key,
                           half |-> Half(fp, key, form[a].seen), seen |-> form[a].seen]
      BY <3>3, <3>5, SentFields
    <3> QED BY <3>1, <3>2, <3>4, <3>5, Zenon
  <2>4. \A b \in Admins : FormShape(form[b])'
    BY <2>1, <2>3 DEF FormShape
  <2>5. KeysGrow => KeysGrow'
    BY <2>1, <2>2 DEF KeysGrow
  <2> QED BY <2>1, <2>4, <2>5 DEF Paired
<1>3. ASSUME NEW a \in Admins, Read(a) PROVE RowInv'
  <2>1. UNCHANGED <<row, saves, held, stale, halved>>
    BY <1>3 DEF Read
  <2>2. \A b \in Admins \ {a} : form'[b] = form[b]
    BY <1>3 DEF Read
  <2>3. CASE form' = [form EXCEPT ![a] = Off]
    BY <2>1, <2>2, <2>3 DEF FormShape, KeysGrow, Paired
  <2>4. CASE form' = [form EXCEPT ![a].pc = "write", ![a].key = KeySaved(form[a])]
    <3>1. /\ form[a].pc = "save" /\ form'[a].pc = "write"
          /\ form'[a].fp = form[a].fp /\ form'[a].seen = form[a].seen
          /\ form'[a].key = IF form[a].key = Empty THEN row.key ELSE form[a].key
      BY <1>3, <2>4 DEF Read, KeySaved
    <3>2. FormShape(form[a])'
      <4>1. form'[a].half = form[a].half
        BY <2>4, Zenon
      <4>2. CASE form[a].half
        <5>1. form'[a].seen.key <= saves' /\ form'[a].key <= saves'
          BY <3>1, <2>1 DEF FormShape
        <5> HIDE DEF NewPair, AsShown
        <5> QED BY <3>1, <4>1, <4>2, <5>1, Zenon DEF FormShape
      <4>3. CASE NewPair(form[a]) \/ (AsShown(form[a]) /\ form[a].key = Empty)
        BY <3>1, <2>1, <4>3 DEF FormShape
      <4> QED BY <3>1, <4>2, <4>3 DEF FormShape
    <3>3. \A b \in Admins : FormShape(form[b])'
      BY <2>1, <2>2, <3>2 DEF FormShape
    <3>4. ~stale /\ ~halved => KeysGrow'
      <4> SUFFICES ASSUME KeysGrow PROVE KeysGrow'
        OBVIOUS
      <4>1. form'[a].half = form[a].half
        BY <2>4, Zenon
      <4>2. form'[a].seen.key <= row'.key
        BY <2>1, <3>1 DEF KeysGrow
      <4>3. \/ form'[a].half
            \/ NewPair(form'[a])
            \/ /\ AsShown(form'[a]) /\ form'[a].seen.key <= form'[a].key
               /\ form'[a].key <= row'.key
        <5>1. CASE form[a].half
          BY <4>1, <5>1, Zenon
        <5>2. CASE NewPair(form[a])
          BY <3>1, <5>2
        <5>3. CASE AsShown(form[a]) /\ form[a].key = Empty
          BY <2>1, <3>1, <4>2, <5>3
        <5> QED BY <3>1, <5>1, <5>2, <5>3 DEF FormShape
      <4> HIDE DEF NewPair, AsShown
      <4> QED BY <2>1, <2>2, <4>2, <4>3, Zenon DEF KeysGrow
    <3> QED BY <2>1, <3>3, <3>4 DEF Paired
  <2> QED BY <1>3, <2>3, <2>4 DEF Read
<1>4. ASSUME NEW a \in Admins, Write(a) PROVE RowInv'
  <2>1. saves' = saves /\ \A b \in Admins : form'[b] = Off \/ form'[b] = form[b]
    BY <1>4 DEF Write
  <2>2. CASE UNCHANGED <<row, held, stale, halved>>
    <3>1. \A b \in Admins : FormShape(form[b])'
      BY <2>1, <2>2, SMTT(60) DEF FormShape
    <3>2. KeysGrow => KeysGrow'
      BY <2>1, <2>2, SMTT(60) DEF KeysGrow
    <3> QED BY <2>1, <2>2, <3>1, <3>2 DEF Paired
  <2>3. ASSUME row' = [fp |-> form[a].fp, key |-> form[a].key],
               stale' = (stale \/ form[a].seen # row),
               halved' = (halved \/ form[a].half), held' = held \cup {row'}
        PROVE  RowInv'
    <3>1. row'.key <= saves /\ \A b \in Admins : FormShape(form[b])'
      <4>1. form[a].key <= saves
        BY <1>4 DEF Write, FormShape
      <4>2. row'.key <= saves
        BY <2>3, <4>1
      <4>3. \A b \in Admins : FormShape(form[b])'
        BY <2>1, SMTT(60) DEF FormShape
      <4> QED BY <4>2, <4>3
    <3>2. CASE stale' \/ halved'
      BY <2>1, <3>1, <3>2
    <3>3. CASE ~stale' /\ ~halved'
      <4>1. /\ row = form[a].seen
            /\ NewPair(form[a]) \/ (AsShown(form[a]) /\ form[a].key = row.key)
        <5>1. ~stale /\ ~halved /\ ~form[a].half /\ form[a].seen = row
          BY <2>3, <3>3, Zenon
        <5>2. form[a].pc = "write"
          BY <1>4 DEF Write
        <5>3. /\ form[a].seen.key <= row.key
              /\ \/ NewPair(form[a])
                 \/ AsShown(form[a]) /\ row.key <= form[a].key /\ form[a].key <= row.key
          BY <5>1, <5>2 DEF KeysGrow
        <5>4. row.key \in Nat /\ form[a].key \in Nat
          OBVIOUS
        <5>5. \A x, y \in Nat : x <= y /\ y <= x => y = x
          OBVIOUS
        <5> QED BY <5>1, <5>3, <5>4, <5>5, Zenon
      <4>2. row.key <= row'.key
        BY <2>3, <4>1
      <4>3. KeysGrow'
        <5>1. KeysGrow /\ row.key \in Nat /\ row'.key \in Nat
          BY <2>3, <3>3
        <5> SUFFICES ASSUME NEW b \in Admins
                     PROVE  /\ form'[b].seen.key <= row'.key
                            /\ form'[b].pc = "write" =>
                                 \/ form'[b].half
                                 \/ NewPair(form'[b])
                                 \/ /\ AsShown(form'[b])
                                    /\ form'[b].seen.key <= form'[b].key
                                    /\ form'[b].key <= row'.key
          BY Zenon DEF KeysGrow
        <5>2. CASE form'[b] = Off
          BY <5>1, <5>2
        <5>3. CASE form'[b] = form[b]
          <6>1. /\ form[b].seen.key \in Nat /\ form[b].key \in Nat
            OBVIOUS
          <6>2. /\ form[b].seen.key <= row'.key
                /\ form[b].key <= row.key => form[b].key <= row'.key
            BY <4>2, <5>1, <6>1 DEF KeysGrow
          <6> HIDE DEF NewPair, AsShown
          <6> QED BY <5>1, <5>3, <6>2, Zenon DEF KeysGrow
        <5> QED BY <2>1, <5>2, <5>3
      <4>4. Paired'
        BY <2>3, <3>3, <4>1 DEF Paired
      <4> QED BY <2>1, <3>1, <4>3, <4>4
    <3> QED BY <3>2, <3>3
  <2> QED BY <1>4, <2>2, <2>3 DEF Write
<1>5. CASE Restart
  BY <1>5 DEF Restart, FormShape, KeysGrow, Paired
<1>6. CASE UNCHANGED <<row, form, saves, held, stale, halved>>
  BY <1>6 DEF FormShape, KeysGrow, Paired
<1> QED BY <1>1, <1>2, <1>3, <1>4, <1>5, <1>6 DEF Next, Call, InitService, GetClients, vars

-----------------------------------------------------------------------------
\* Every reachable state has the types, the service's invariant and the row's.
THEOREM Inductive == Spec => []IInv
<1>1. IInv /\ [Next]_vars => IInv'
  BY TypeStep, ServiceStep, RowStep DEF IInv
<1> QED BY InitIInv, <1>1, PTL DEF Spec

\* getOrCreateClients: all clients of the cloud have the credentials the service
\* took over, which were complete and in the row at one moment.
THEOREM OneSetOfCredentials == Spec => []ClientsAgree
<1>1. IInv => ClientsAgree
  BY DEF IInv, ServiceInv
<1> QED BY Inductive, <1>1, PTL

\* HandleUpdateSettings: a masked key stays with its fingerprint, unless a form
\* is saved over settings it did not show or brings half of a new pair.
THEOREM KeyStaysPaired == Spec => []RowIsPaired
<1>1. IInv => RowIsPaired
  BY DEF IInv, TypeOK, RowInv, Paired, RowIsPaired
<1> QED BY Inductive, <1>1, PTL

\* init: what the service has taken over changes with nothing but a restart.
THEOREM TakenOverOnce == Spec => KeptUntilRestart
<1>1. [Next]_vars =>
        [service.initialized /\ service' # service => ~service'.initialized]_service
  <2> SUFFICES ASSUME [Next]_vars, service.initialized, service' # service
               PROVE  ~service'.initialized
    OBVIOUS
  <2>1. ASSUME NEW c \in Callers, InitService(c) PROVE FALSE
    BY <2>1 DEF InitService, Initialized
  <2>2. CASE Restart
    BY <2>2 DEF Restart, Down
  <2> QED BY <2>1, <2>2 DEF Next, Open, Send, Read, Write, Call, GetClients, vars
<1> QED BY <1>1, PTL DEF Spec, KeptUntilRestart
=============================================================================
