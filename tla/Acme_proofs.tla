----------------------------- MODULE Acme_proofs -----------------------------
(***************************************************************************)
(* Theorems about module Acme, for any number of issuances through the     *)
(* API, domains, days and crashes.                                         *)
(***************************************************************************)
EXTENDS Acme, TLAPS

-----------------------------------------------------------------------------
(* Typing.                                                                 *)

LEMMA TypeInit == Init => AcmeTypeOK
<1> SUFFICES ASSUME Init PROVE AcmeTypeOK
  OBVIOUS
<1>1. /\ cert \in Nat /\ key \in Nat /\ made \in Nat /\ issued \in Nat \cup {None}
      /\ served \in Nat
  BY DEF Init
<1>2. order \in [Issuer -> Pc] /\ pair \in [Issuer -> Nat] /\ created \in [Issuer -> SUBSET Domain]
      /\ late \subseteq Issuer /\ hung \subseteq Issuer
  BY DEF Init, Pc
<1>3. /\ cfg \in Configs /\ port = None /\ orphan = FALSE /\ txt = {} /\ deleting = {} /\ lost = {}
      /\ certTmp = 0 /\ keyTmp = 0 /\ day = 0 /\ crashes = 0 /\ checked = None
      /\ up = TRUE /\ torn = FALSE
  BY DEF Init
<1>4. txt \cup deleting \cup lost \subseteq Issuer \X Domain
  BY <1>3
<1> QED BY <1>1, <1>2, <1>3, <1>4 DEF AcmeTypeOK

\* What DropRecords leaves.
LEMMA DropType ==
  ASSUME AcmeTypeOK, NEW i \in Issuer, DropRecords(i)
  PROVE  /\ created' \in [Issuer -> SUBSET Domain] /\ created'[i] = {}
         /\ \A k \in Issuer \ {i} : created'[k] = created[k]
         /\ txt' \cup deleting' \cup lost' \subseteq Issuer \X Domain
<1>1. {<<i, d>> : d \in created[i]} \subseteq Issuer \X Domain
  BY DEF AcmeTypeOK
<1>2. created' = [created EXCEPT ![i] = {}] /\ created \in [Issuer -> SUBSET Domain]
  BY DEF DropRecords, AcmeTypeOK
<1>3. txt' \cup deleting' \cup lost' \subseteq Issuer \X Domain
  BY <1>1 DEF DropRecords, AcmeTypeOK
<1> QED BY <1>2, <1>3

LEMMA TypeNext == AcmeTypeOK /\ [Next]_vars => AcmeTypeOK'
<1> SUFFICES ASSUME AcmeTypeOK, [Next]_vars PROVE AcmeTypeOK'
  OBVIOUS
<1> USE DEF AcmeTypeOK, Pc, Goto, files, clock, dnsVars, portVars, waitVars, orderVars
<1>1. CASE UNCHANGED vars
  BY <1>1 DEF vars
<1>2. ASSUME NEW i \in Issuer, Obtain(i) PROVE AcmeTypeOK'
  <2>1. CASE Account(i) \/ NewOrder(i) \/ Offered(i) \/ SetReady(i) \/ Ready(i) \/ Finalize(i)
    BY <2>1 DEF Account, NewOrder, Offered, SetReady, Ready, Finalize, Advance
  <2>2. CASE CreateTxt(i)
    BY <2>2 DEF CreateTxt
  <2>3. CASE StartServer(i)
    BY <2>3 DEF StartServer
  <2>4. CASE CallFails(i) \/ Panic(i) \/ Invalid(i) \/ Deadline(i)
    <3>1. PICK pc \in Pc : Ends(i, pc)
      BY <2>4 DEF CallFails, Panic, Invalid, Deadline, Fail
    <3>2. port' \in Issuer \cup {None} /\ orphan' \in BOOLEAN
      BY <2>4 DEF CallFails, Panic, Invalid, Deadline, Leave, Shutdown
    <3>3. DropRecords(i)
      BY <3>1 DEF Ends
    <3> QED BY <3>1, <3>2, <3>3, DropType DEF Ends
  <2>6. CASE CreateTxtLost(i)
    BY <2>6 DEF CreateTxtLost
  <2>5. CASE Certificate(i)
    <3>1. DropRecords(i)
      BY <2>5 DEF Certificate
    <3> QED BY <2>5, <3>1, DropType DEF Certificate, Shutdown
  <2> QED BY <1>2, <2>1, <2>2, <2>3, <2>4, <2>5, <2>6 DEF Obtain
<1>10. ASSUME NEW i \in Issuer, Silent(i) \/ Expire(i) PROVE AcmeTypeOK'
  BY <1>10 DEF Silent, Expire
<1>3. ASSUME NEW i \in Issuer, Write(i) PROVE AcmeTypeOK'
  <2>1. CASE WriteCert(i)
    <3>1. torn' \in BOOLEAN
      BY <2>1, Zenon DEF WriteCert, Overlap
    <3> QED BY <2>1, <3>1 DEF WriteCert
  <2>4. CASE WriteKey(i)
    BY <2>4 DEF WriteKey
  <2>2. CASE RenameCert(i) \/ RenameKey(i)
    BY <2>2 DEF RenameCert, RenameKey
  <2>3. CASE Stamp(i)
    BY <2>3 DEF Stamp, Return
  <2>5. CASE DiskFails(i)
    <3>1. torn' \in BOOLEAN
      BY <2>5, Zenon DEF DiskFails
    <3> QED BY <2>5, <3>1 DEF DiskFails, Return
  <2> QED BY <1>3, <2>1, <2>2, <2>3, <2>4, <2>5 DEF Write
<1>4. ASSUME NEW i \in Issuer, Issue(i) PROVE AcmeTypeOK'
  BY <1>4 DEF Issue
<1>5. ASSUME NEW t \in deleting, DeleteTxt(t) PROVE AcmeTypeOK'
  BY <1>5 DEF DeleteTxt
<1>6. CASE Wake
  BY <1>6 DEF Wake, Issuer
<1>7. CASE Reload \/ NextDay
  BY <1>7 DEF Reload, NextDay
<1>8. CASE Crash
  <2>1. torn' \in BOOLEAN
    BY <1>8, Zenon DEF Crash
  <2>2. /\ order' \in [Issuer -> Pc] /\ pair' \in [Issuer -> Nat]
        /\ created' \in [Issuer -> SUBSET Domain] /\ late' \subseteq Issuer /\ hung' \subseteq Issuer
        /\ crashes' = crashes + 1 /\ up' = FALSE /\ orphan' = FALSE /\ port' = None
        /\ deleting' = {} /\ lost' = txt /\ served' = 0
        /\ UNCHANGED <<cfg, made, txt, files, clock>>
    BY <1>8 DEF Crash
  <2>3. txt' \cup deleting' \cup lost' \subseteq Issuer \X Domain
    BY <2>2
  <2>4. /\ cfg' \in Configs /\ port' \in Issuer \cup {None} /\ made' \in Nat
        /\ cert' \in Nat /\ key' \in Nat /\ certTmp' \in Nat /\ keyTmp' \in Nat /\ served' \in Nat
        /\ issued' \in Nat \cup {None} /\ checked' \in Nat \cup {None}
        /\ day' \in Nat /\ crashes' \in Nat /\ up' \in BOOLEAN /\ orphan' \in BOOLEAN
    <3>1. port' \in Issuer \cup {None} BY <2>2
    <3>2. up' \in BOOLEAN /\ orphan' \in BOOLEAN BY <2>2
    <3>3. cfg' \in Configs BY <2>2
    <3>4. crashes' \in Nat BY <2>2
    <3>5. day' \in Nat BY <2>2
    <3>6. made' \in Nat BY <2>2
    <3>7. cert' \in Nat BY <2>2
    <3>8. issued' \in Nat \cup {None} BY <2>2
    <3>9. checked' \in Nat \cup {None} BY <2>2
    <3> QED BY <2>2, <3>1, <3>2, <3>3, <3>4, <3>5, <3>6, <3>7, <3>8, <3>9
  <2> QED BY <2>1, <2>2, <2>3, <2>4, Zenon
<1>9. CASE Boot
  BY <1>9 DEF Boot
<1> QED BY <1>1, <1>2, <1>3, <1>4, <1>5, <1>6, <1>7, <1>8, <1>9, <1>10 DEF Next

\* The state of orders, resources and files is well typed.
THEOREM TypeCorrect == Spec => []AcmeTypeOK
BY TypeInit, TypeNext, PTL DEF Spec

-----------------------------------------------------------------------------
(* The challenge port and the TXT records.                                 *)

LEMMA ResourcesInit == Init => ResourcesAccounted
BY DEF Init, ResourcesAccounted

\* An order that ends, well or not, accounts for its records.
LEMMA DropAccounts ==
  ASSUME AcmeTypeOK, ResourcesAccounted, NEW i \in Issuer, DropRecords(i),
         NEW pc \in Pc, Goto(i, pc)
  PROVE  /\ \A t \in txt' : t \in deleting' \cup lost' \/ t[2] \in created'[t[1]]
         /\ \A k \in Issuer : created'[k] # {} => order'[k] \in {"challenge"} \cup Guarded
<1>1. ASSUME NEW t \in txt PROVE t \in deleting' \cup lost' \/ t[2] \in created'[t[1]]
  <2>1. t[1] \in Issuer /\ t[2] \in Domain /\ t = <<t[1], t[2]>>
    BY DEF AcmeTypeOK
  <2>2. CASE t \in deleting \cup lost
    BY <2>2 DEF DropRecords
  <2>3. CASE t[2] \in created[t[1]] /\ t[1] = i
    <3>1. t \in {<<i, d>> : d \in created[i]}
      BY <2>1, <2>3
    <3> QED BY <3>1 DEF DropRecords
  <2>4. CASE t[2] \in created[t[1]] /\ t[1] # i
    BY <2>1, <2>4, DropType
  <2> QED BY <2>2, <2>3, <2>4 DEF ResourcesAccounted
<1>2. txt' = txt
  BY DEF DropRecords
<1>3. ASSUME NEW k \in Issuer, created'[k] # {} PROVE order'[k] \in {"challenge"} \cup Guarded
  BY <1>3, DropType DEF Goto, ResourcesAccounted, AcmeTypeOK
<1> QED BY <1>1, <1>2, <1>3

LEMMA ResourcesNext ==
  AcmeTypeOK /\ ResourcesAccounted /\ [Next]_vars => ResourcesAccounted'
<1> SUFFICES ASSUME AcmeTypeOK, ResourcesAccounted, [Next]_vars PROVE ResourcesAccounted'
  OBVIOUS
<1>type. /\ order \in [Issuer -> Pc] /\ created \in [Issuer -> SUBSET Domain]
         /\ port \in Issuer \cup {None}
         /\ \A t \in txt : t[1] \in Issuer /\ t[2] \in Domain /\ t = <<t[1], t[2]>>
  BY DEF AcmeTypeOK
<1> USE DEF ResourcesAccounted, Guarded, Goto, files, clock, dnsVars, portVars, waitVars, orderVars
<1>1. CASE UNCHANGED vars
  BY <1>1 DEF vars
<1>2. ASSUME NEW i \in Issuer, Obtain(i) PROVE ResourcesAccounted'
  <2>1. CASE Account(i) \/ NewOrder(i) \/ Offered(i) \/ SetReady(i) \/ Ready(i) \/ Finalize(i)
    BY <1>type, <2>1 DEF Account, NewOrder, Offered, SetReady, Ready, Finalize, Advance
  <2>2. CASE CreateTxt(i)
    BY <1>type, <2>2 DEF CreateTxt
  <2>3. CASE StartServer(i)
    BY <1>type, <2>3 DEF StartServer
  <2>4. CASE CallFails(i) \/ Panic(i) \/ Invalid(i) \/ Deadline(i)
    <3>1. PICK pc \in Pc : Ends(i, pc)
      BY <2>4 DEF CallFails, Panic, Invalid, Deadline, Fail, Pc
    <3>2. DropRecords(i) /\ Goto(i, pc)
      BY <3>1 DEF Ends
    <3>3. port' # None => order'[port'] \in Guarded \/ orphan'
      <4>1. Leave(i) \/ Shutdown(i) BY <2>4 DEF CallFails, Panic, Invalid, Deadline
      <4> QED BY <1>type, <3>2, <4>1 DEF Leave, Shutdown
    <3> QED BY <3>2, <3>3, DropAccounts
  <2>6. CASE CreateTxtLost(i)
    <3>1. /\ port' # None => order'[port'] \in Guarded \/ orphan'
          /\ \A k \in Issuer : created'[k] # {} => order'[k] \in {"challenge"} \cup Guarded
      BY <1>type, <2>6 DEF CreateTxtLost
    <3>2. ASSUME NEW t \in txt' PROVE t \in deleting' \cup lost' \/ t[2] \in created'[t[1]]
      <4>1. PICK d \in Domain :
              /\ txt' = txt \cup {<<i, d>>}
              /\ lost' = lost \cup {<<i, e>> : e \in created[i] \cup {d}}
              /\ created' = [created EXCEPT ![i] = {}] /\ deleting' = deleting
        BY <2>6 DEF CreateTxtLost
      <4>2. CASE t = <<i, d>> BY <4>1, <4>2
      <4>3. CASE t \in txt /\ t[1] = i
        <5>1. t = <<i, t[2]>> BY <1>type, <4>3
        <5> QED BY <4>1, <4>3, <5>1
      <4>4. CASE t \in txt /\ t[1] # i BY <1>type, <4>1, <4>4
      <4> QED BY <3>2, <4>1, <4>2, <4>3, <4>4
    <3> QED BY <3>1, <3>2
  <2>5. CASE Certificate(i)
    <3>1. DropRecords(i) /\ Goto(i, "write_cert") /\ "write_cert" \in Pc
      BY <2>5 DEF Certificate, Pc
    <3>2. port' # None => order'[port'] \in Guarded \/ orphan'
      BY <1>type, <2>5 DEF Certificate, Shutdown
    <3> QED BY <3>1, <3>2, DropAccounts
  <2> QED BY <1>2, <2>1, <2>2, <2>3, <2>4, <2>5, <2>6 DEF Obtain
<1>9. ASSUME NEW i \in Issuer, Silent(i) \/ Expire(i) PROVE ResourcesAccounted'
  BY <1>type, <1>9 DEF Silent, Expire
<1>3. ASSUME NEW i \in Issuer, Write(i) PROVE ResourcesAccounted'
  <2>1. CASE WriteCert(i) \/ WriteKey(i)
    BY <1>type, <2>1 DEF WriteCert, WriteKey
  <2>2. CASE RenameCert(i) \/ RenameKey(i)
    BY <1>type, <2>2 DEF RenameCert, RenameKey
  <2>3. CASE Stamp(i) \/ DiskFails(i)
    BY <1>type, <2>3 DEF Stamp, DiskFails, Return
  <2> QED BY <1>3, <2>1, <2>2, <2>3 DEF Write
<1>4. ASSUME NEW i \in Issuer, Issue(i) PROVE ResourcesAccounted'
  BY <1>type, <1>4 DEF Issue
<1>5. ASSUME NEW u \in deleting, DeleteTxt(u) PROVE ResourcesAccounted'
  BY <1>type, <1>5 DEF DeleteTxt
<1>6. CASE Wake
  BY <1>type, <1>6 DEF Wake, Issuer
<1>7. CASE Reload \/ NextDay
  BY <1>7 DEF Reload, NextDay
<1>8. CASE Crash \/ Boot
  BY <1>8 DEF Crash, Boot
<1> QED BY <1>1, <1>2, <1>3, <1>4, <1>5, <1>6, <1>7, <1>8, <1>9 DEF Next

\* The challenge port and every TXT record are in the hands of an order under
\* way, of a spawned deletion, or among those the code is known to leave
\* behind.
THEOREM ResourcesAreAccounted == Spec => []ResourcesAccounted
<1>1. Init => AcmeTypeOK /\ ResourcesAccounted
  BY TypeInit, ResourcesInit
<1>2. AcmeTypeOK /\ ResourcesAccounted /\ [Next]_vars => (AcmeTypeOK /\ ResourcesAccounted)'
  BY TypeNext, ResourcesNext
<1> QED BY <1>1, <1>2, PTL DEF Spec

-----------------------------------------------------------------------------
(* Certificate and key.                                                    *)

\* As long as no issuance overlapped with another one or was cut short between
\* its renames, at most one is writing, the temporary files are its own, and
\* between its renames the new certificate is in place.
PairInv ==
  ~ torn =>
    /\ \A i, k \in Issuer : Writing(i) /\ Writing(k) => i = k
    /\ \A i \in Issuer :
         /\ order[i] \in {"write_key", "rename_cert"} => certTmp = pair[i]
         /\ order[i] \in {"rename_cert", "rename_key"} => keyTmp = pair[i]
         /\ order[i] = "rename_key" => cert = pair[i]
    /\ cert # key => \E i \in Issuer : order[i] = "rename_key"

LEMMA PairInit == Init => PairInv
BY DEF Init, PairInv, Writing

LEMMA PairNext == AcmeTypeOK /\ PairInv /\ [Next]_vars => PairInv'
<1> SUFFICES ASSUME AcmeTypeOK, PairInv, [Next]_vars PROVE PairInv'
  OBVIOUS
<1>type. order \in [Issuer -> Pc] /\ pair \in [Issuer -> Nat] /\ torn \in BOOLEAN
  BY DEF AcmeTypeOK
<1> USE DEF PairInv, Writing, Goto, files, clock, dnsVars, portVars, waitVars, orderVars
<1>1. CASE UNCHANGED vars
  BY <1>1 DEF vars
<1>2. ASSUME NEW i \in Issuer, Obtain(i) PROVE PairInv'
  <2>1. CASE Account(i) \/ NewOrder(i) \/ Offered(i) \/ SetReady(i) \/ Ready(i) \/ Finalize(i)
    BY <1>type, <2>1 DEF Account, NewOrder, Offered, SetReady, Ready, Finalize, Advance
  <2>2. CASE CreateTxt(i)
    BY <2>2 DEF CreateTxt
  <2>3. CASE StartServer(i)
    BY <1>type, <2>3 DEF StartServer
  <2>4. CASE CallFails(i) \/ Panic(i) \/ Invalid(i) \/ Deadline(i)
    <3>1. PICK pc \in {"asleep", "gone"} : Ends(i, pc)
      BY <2>4 DEF CallFails, Panic, Invalid, Deadline, Fail
    <3>2. order' = [order EXCEPT ![i] = pc] /\ UNCHANGED <<pair, cert, key, certTmp, keyTmp, torn>>
      BY <3>1 DEF Ends
    <3>3. \A k \in Issuer : order'[k] = order[k] \/ order'[k] \in {"asleep", "gone"}
      BY <1>type, <3>2
    <3>4. order[i] # "rename_key"
      BY <2>4 DEF CallFails, Panic, Invalid, Deadline, Asking
    <3>5. \A k \in Issuer : order[k] = "rename_key" => order'[k] = "rename_key"
      BY <1>type, <3>2, <3>4
    <3> QED BY <3>2, <3>3, <3>5
  <2>6. CASE CreateTxtLost(i)
    BY <1>type, <2>6 DEF CreateTxtLost
  <2>5. CASE Certificate(i)
    BY <1>type, <2>5 DEF Certificate
  <2> QED BY <1>2, <2>1, <2>2, <2>3, <2>4, <2>5, <2>6 DEF Obtain
<1>9. ASSUME NEW i \in Issuer, Silent(i) \/ Expire(i) PROVE PairInv'
  BY <1>type, <1>9 DEF Silent, Expire
<1>3. ASSUME NEW i \in Issuer, Write(i) PROVE PairInv'
  <2>1. CASE WriteCert(i)
    BY <1>type, <2>1 DEF WriteCert, Overlap
  <2>2. CASE WriteKey(i)
    BY <1>type, <2>2 DEF WriteKey
  <2>3. CASE RenameCert(i)
    BY <1>type, <2>3 DEF RenameCert
  <2>4. CASE RenameKey(i)
    BY <1>type, <2>4 DEF RenameKey
  <2>5. CASE Stamp(i)
    BY <1>type, <2>5 DEF Stamp, Return
  <2>6. CASE DiskFails(i)
    BY <1>type, <2>6 DEF DiskFails, Return
  <2> QED BY <1>3, <2>1, <2>2, <2>3, <2>4, <2>5, <2>6 DEF Write
<1>4. ASSUME NEW i \in Issuer, Issue(i) PROVE PairInv'
  BY <1>type, <1>4 DEF Issue
<1>5. ASSUME NEW t \in deleting, DeleteTxt(t) PROVE PairInv'
  BY <1>5 DEF DeleteTxt
<1>6. CASE Wake
  BY <1>type, <1>6 DEF Wake, Issuer
<1>7. CASE Reload \/ NextDay
  BY <1>7 DEF Reload, NextDay
<1>8. CASE Crash \/ Boot
  BY <1>type, <1>8 DEF Crash, Boot
<1> QED BY <1>1, <1>2, <1>3, <1>4, <1>5, <1>6, <1>7, <1>8, <1>9 DEF Next

\* Certificate and key on disk belong together except between the renames of an
\* issuance, or after an overlap or an issuance cut short there.
THEOREM PairStaysTogether == Spec => []PairTogether
<1>1. Init => AcmeTypeOK /\ PairInv
  BY TypeInit, PairInit
<1>2. AcmeTypeOK /\ PairInv /\ [Next]_vars => (AcmeTypeOK /\ PairInv)'
  BY TypeNext, PairNext
<1>3. PairInv => PairTogether
  BY DEF PairInv, PairTogether
<1> QED BY <1>1, <1>2, <1>3, PTL DEF Spec
=============================================================================
