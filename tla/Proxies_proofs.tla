---------------------------------- MODULE Proxies_proofs -----------------------------------
(******************************************************************************************)
(* The proxies of the other protocols and the coded path, for any sessions,               *)
(* users, payloads, fragments, writes and frames; parts of MCServices, about              *)
(* which Services_proofs concludes.                                                       *)
(*                                                                                        *)
(*   ProxyServer    a number leads to the newest session that has it (TableIsTrue),       *)
(*                  so that a handler's late end strikes only a younger session, and      *)
(*                  with one loop nothing is entered between its look and its entry       *)
(*                  (OneReader)                                                           *)
(*   ProxyClient    the dial under way is the one the client knows of and starts          *)
(*                  only while what it shares is of no use (OneDial), and the             *)
(*                  sessions' names are below the counter until it wraps                  *)
(*                  (UsersAreCounted)                                                     *)
(*   ProxyDatagram  a number names one payload while a fragment of it is under way        *)
(*                  (OneNumber), and a cut covers its payload without gap (CutIsWhole)    *)
(*   ProxyStream    each direction carries a run of consecutive data, headed at most once *)
(*   CodedSend      every frame the loop took has one place (Places)                      *)
(*   Assembler      a group that is kept holds symbols of one frame (TableOK)             *)
(*   FecWindow      the decoder's rows stay true equations in reduced form over what its    *)
(*                  window lacks (DecTrue), since taking a row out of another keeps       *)
(*                  their solutions                                                       *)
(******************************************************************************************)
EXTENDS ProxyServer, ProxyClient, ProxyDatagram, ProxyStream, CodedSend, Assembler,
        FecWindow, SumTheorems, FiniteSetTheorems, SequenceTheorems, TLAPS

-----------------------------------------------------------------------------
(* ProxyServer: the table of sessions, and who ends them *)

Numbers == UDPIds \cup 1..Handles
HandleKind == [id: Numbers, done: BOOLEAN, late: BOOLEAN]
ReaderKind == [at: {"idle", "creates", "deletes"}, id: Numbers \cup {0}, found: Nat]

ServerTypeOK ==
  /\ svc \in Services /\ auth \in BOOLEAN /\ masked \in BOOLEAN /\ over \in BOOLEAN /\ loops \in Nat
  /\ request \in [Requests -> {"idle", "checked", "done"}]
  /\ table \in [Numbers -> Nat] /\ handle \in Seq(HandleKind)
  /\ destroyed \subseteq DOMAIN handle /\ strays \subseteq DOMAIN handle
  /\ reader \in [Readers -> ReaderKind]

\* Only Hysteria2 is asked over HTTP, and whoever is let in there is read or turned away.
Gates ==
  /\ loops > 0 => auth
  /\ handle # <<>> => auth
  /\ answered # {} => auth /\ svc = "hysteria2"
  /\ \A r \in Requests : request[r] # "idle" => svc = "hysteria2"
  /\ svc = "hysteria2" /\ auth /\ ~masked => loops > 0

\* What a reader holds between its two steps.
ReadersKnow ==
  \A m \in Readers :
    /\ reader[m].at = "creates" => auth /\ svc # "hysteria" /\ reader[m].id \in UDPIds
    /\ reader[m].at = "deletes" =>
         /\ svc = "tuic" /\ reader[m].id \in UDPIds
         /\ reader[m].found \in DOMAIN handle /\ handle[reader[m].found].done

\* A number leads to the newest session that has it.
TableIsTrue ==
  \A i \in Numbers : table[i] # 0 =>
    /\ table[i] \in DOMAIN handle /\ handle[table[i]].id = i /\ table[i] \notin destroyed
    /\ \A k \in DOMAIN handle : handle[k].id = i => k <= table[i]

NoneIsLost ==
  /\ \A k \in DOMAIN handle : Alive(k) => k \in Mapped \cup strays \/ (over /\ handle[k].late)
  /\ over => \A k \in Mapped : handle[k].late

HysteriaCounts ==
  svc = "hysteria" => strays = {} /\ \A k \in DOMAIN handle : handle[k].id = k

\* One loop reads, so nothing is entered between its look and its entry.
Before(m) == {n \in Readers : n < m}
OneReader ==
  svc = "hysteria2" /\ loops <= 1 =>
    /\ \A m \in Readers : reader[m].at = "creates" => Cardinality(Before(m)) < loops /\ Missing(reader[m].id)
    /\ \A k \in strays : \E j \in 1..(k - 1) : handle[j].id = handle[k].id /\ ~Alive(j)

ServerIInv == /\ ServerTypeOK /\ Gates /\ ReadersKnow /\ TableIsTrue
              /\ NoneIsLost /\ HysteriaCounts /\ OneReader

\* What the types say of the handles and the table.
LEMMA ServerNumbers ==
  ASSUME ServerTypeOK
  PROVE  /\ Len(handle) \in Nat /\ DOMAIN handle = 1..Len(handle) /\ DOMAIN table = Numbers
         /\ \A k \in DOMAIN handle : handle[k] \in HandleKind /\ k \in Nat \ {0}
         /\ \A k : k \in Mapped <=> k # 0 /\ \E i \in Numbers : table[i] = k
         /\ \A m \in Readers : reader[m] \in ReaderKind
<1>1. Len(handle) \in Nat /\ DOMAIN handle = 1..Len(handle) /\ \A k \in 1..Len(handle) : handle[k] \in HandleKind
  BY DEF ServerTypeOK
<1>2. DOMAIN table = Numbers /\ \A m \in Readers : reader[m] \in ReaderKind
  BY DEF ServerTypeOK
<1>3. \A k : k \in Mapped <=> k # 0 /\ \E i \in Numbers : table[i] = k
  BY <1>2 DEF Mapped
<1> QED BY <1>1, <1>2, <1>3

\* A step that makes no session: some end, some numbers lead nowhere any more.
LEMMA WhatIsLeftIsTrue ==
  ASSUME ServerIInv, UNCHANGED svc, handle' \in Seq(HandleKind), table' \in [Numbers -> Nat],
         DOMAIN handle' = DOMAIN handle,
         \A k \in DOMAIN handle : /\ handle'[k].id = handle[k].id /\ handle'[k].late = handle[k].late
                                  /\ handle[k].done => handle'[k].done,
         \A i \in Numbers : table'[i] \in {0, table[i]},
         \A i \in Numbers : table'[i] # 0 => table'[i] \notin destroyed'
  PROVE  /\ TableIsTrue' /\ Mapped' \subseteq Mapped /\ Numbers' = Numbers
         /\ \A i \in Numbers : Missing(i) => Missing(i)'
         /\ svc = "hysteria" => \A k \in DOMAIN handle' : handle'[k].id = k
         /\ strays' = strays /\ reader' = reader /\ loops' = loops => OneReader'
<1>1. ServerTypeOK /\ TableIsTrue /\ HysteriaCounts /\ OneReader
  BY DEF ServerIInv
<1>2. TableIsTrue'
  <2> SUFFICES ASSUME NEW i \in Numbers, table'[i] # 0
               PROVE  /\ table'[i] \in DOMAIN handle' /\ handle'[table'[i]].id = i /\ table'[i] \notin destroyed'
                      /\ \A k \in DOMAIN handle' : handle'[k].id = i => k <= table'[i]
    BY DEF TableIsTrue, Numbers
  <2>1. table'[i] = table[i]
    OBVIOUS
  <2> QED BY <1>1, <2>1 DEF TableIsTrue
<1>3. DOMAIN table = Numbers /\ DOMAIN table' = Numbers
  BY <1>1 DEF ServerTypeOK
<1>4. Mapped' \subseteq Mapped
  BY <1>3 DEF Mapped
<1>5. \A i \in Numbers : Missing(i) => Missing(i)'
  <2> SUFFICES ASSUME NEW i \in Numbers, Missing(i), table'[i] # 0 PROVE ~Alive(table[i])'
    BY DEF Missing, Alive
  <2>1. table'[i] = table[i] /\ table[i] \in DOMAIN handle
    BY <1>1 DEF TableIsTrue
  <2> QED BY <2>1 DEF Missing, Alive
<1>6. svc = "hysteria" => \A k \in DOMAIN handle' : handle'[k].id = k
  BY <1>1 DEF HysteriaCounts
<1>7. ASSUME strays' = strays, reader' = reader, loops' = loops PROVE OneReader'
  <2>1. \A m \in Readers : reader[m].at = "creates" => reader[m].id \in Numbers
    BY DEF ServerIInv, ReadersKnow, Numbers
  <2>2. \A m \in Readers : reader[m].at = "creates" /\ Missing(reader[m].id) => Missing(reader[m].id)'
    BY <1>5, <1>7, <2>1 DEF Missing, Alive
  <2>3. ASSUME svc = "hysteria2", loops <= 1, NEW k \in strays
        PROVE  \E j \in 1..(k - 1) : handle'[j].id = handle'[k].id /\ ~Alive(j)'
    <3>1. PICK j \in 1..(k - 1) : handle[j].id = handle[k].id /\ ~Alive(j)
      BY <1>1, <2>3 DEF OneReader
    <3>2. k \in DOMAIN handle /\ DOMAIN handle = 1..Len(handle) /\ Len(handle) \in Nat
      BY <1>1, ServerNumbers DEF ServerTypeOK
    <3>3. j \in DOMAIN handle
      BY <3>2
    <3> QED BY <3>1, <3>2, <3>3 DEF Alive
  <2> QED BY <1>1, <1>7, <2>2, <2>3 DEF OneReader, Before
<1> QED BY <1>2, <1>4, <1>5, <1>6, <1>7 DEF Numbers

\* closeWithError: the table is emptied, and what was in it ends.
LEMMA EndingLosesNone ==
  ASSUME ServerIInv, ~over, Ended, UNCHANGED <<svc, auth, request, answered, masked, loops, reader, strays>>
  PROVE  ServerIInv'
<1>1. ServerTypeOK /\ Gates /\ ReadersKnow /\ TableIsTrue /\ NoneIsLost /\ HysteriaCounts
  BY DEF ServerIInv
<1> DEFINE end(k) == IF k \in Mapped THEN [handle[k] EXCEPT !.done = TRUE] ELSE handle[k]
<1>2. /\ over' = TRUE /\ table' = [i \in Numbers |-> 0] /\ handle' = [k \in DOMAIN handle |-> end(k)]
      /\ destroyed' = (IF svc = "hysteria" THEN destroyed \cup Mapped ELSE destroyed)
  BY <1>1, ServerNumbers DEF Ended
<1>3. \A k \in DOMAIN handle : /\ end(k) \in HandleKind /\ end(k).id = handle[k].id /\ end(k).late = handle[k].late
                               /\ handle[k].done => end(k).done
                               /\ k \in Mapped => end(k).done
  BY <1>1, ServerNumbers DEF HandleKind
<1> HIDE DEF end
<1>4. handle' \in Seq(HandleKind) /\ DOMAIN handle' = DOMAIN handle /\ \A k \in DOMAIN handle : handle'[k] = end(k)
  BY <1>1, <1>2, <1>3, ServerNumbers
<1>5. Mapped \subseteq DOMAIN handle
  BY <1>1, ServerNumbers DEF TableIsTrue
<1>6. table' \in [Numbers -> Nat] /\ (\A i \in Numbers : table'[i] = 0) /\ Mapped' = {} /\ Numbers' = Numbers
  BY <1>2 DEF Mapped, Numbers
<1>7. TableIsTrue' /\ OneReader' /\ (svc = "hysteria" => \A k \in DOMAIN handle' : handle'[k].id = k)
  BY <1>3, <1>4, <1>6, WhatIsLeftIsTrue
<1>8. ServerTypeOK'
  BY <1>1, <1>2, <1>4, <1>5, <1>6 DEF ServerTypeOK, HandleKind, ReaderKind
<1>9. Gates'
  <2>1. handle' # <<>> => handle # <<>>
    BY <1>4
  <2> QED BY <1>1, <2>1 DEF Gates
<1>10. ReadersKnow'
  BY <1>1, <1>3, <1>4 DEF ReadersKnow
<1>11. NoneIsLost'
  <2>1. ASSUME NEW k \in DOMAIN handle, Alive(k)' PROVE k \in strays
    <3>1. k \notin Mapped /\ Alive(k)
      BY <1>3, <1>4, <2>1 DEF Alive
    <3> QED BY <1>1, <3>1 DEF NoneIsLost
  <2> QED BY <1>4, <1>6, <2>1 DEF NoneIsLost
<1>12. HysteriaCounts'
  BY <1>1, <1>7 DEF HysteriaCounts
<1> QED BY <1>7, <1>8, <1>9, <1>10, <1>11, <1>12 DEF ServerIInv

\* A step of the gates, which touches no session.
LEMMA GatesKeepSessions ==
  ASSUME ServerIInv, UNCHANGED <<svc, over, table, handle, destroyed, strays>>, auth' \in BOOLEAN,
         masked' \in BOOLEAN, loops' \in Nat, loops <= loops', auth => auth',
         request' \in [Requests -> {"idle", "checked", "done"}], Gates',
         reader' \in [Readers -> ReaderKind], ReadersKnow',
         \A m \in Readers : reader'[m].at = "creates" /\ reader'[m] # reader[m] =>
             Missing(reader'[m].id) /\ (svc = "hysteria2" => Cardinality(Before(m)) < loops')
  PROVE  ServerIInv'
<1>1. ServerTypeOK /\ TableIsTrue /\ NoneIsLost /\ HysteriaCounts /\ OneReader
  BY DEF ServerIInv
<1>2. Numbers' = Numbers /\ Mapped' = Mapped
  BY DEF Numbers, Mapped
<1>3. ServerTypeOK'
  BY <1>1, <1>2 DEF ServerTypeOK, HandleKind, ReaderKind
<1>4. TableIsTrue' /\ HysteriaCounts'
  BY <1>1, <1>2 DEF TableIsTrue, HysteriaCounts
<1>5. NoneIsLost'
  BY <1>1, <1>2 DEF NoneIsLost, Alive
<1>6. ASSUME svc = "hysteria2", loops' <= 1 PROVE OneReader'
  <2>1. loops <= 1 /\ loops \in Nat
    BY <1>1, <1>6 DEF ServerTypeOK
  <2>2. ASSUME NEW m \in Readers, reader'[m].at = "creates"
        PROVE  Cardinality(Before(m)) < loops' /\ Missing(reader'[m].id)
    <3>1. CASE reader'[m] # reader[m]
      BY <1>6, <2>2, <3>1
    <3>2. CASE reader'[m] = reader[m]
      <4>1. Cardinality(Before(m)) < loops /\ Missing(reader[m].id)
        BY <1>1, <1>6, <2>1, <2>2, <3>2 DEF OneReader
      <4>2. IsFiniteSet(Before(m))
        BY ServerConstants, FS_Subset DEF Before
      <4>3. Cardinality(Before(m)) \in Nat
        BY <4>2, FS_CardinalityType
      <4>4. Cardinality(Before(m)) < loops'
        BY <2>1, <4>1, <4>3
      <4> QED BY <3>2, <4>1, <4>4
    <3> QED BY <3>1, <3>2
  <2>3. \A m \in Readers : reader'[m].at = "creates" => Cardinality(Before(m)) < loops' /\ Missing(reader[m].id)'
    BY <2>2 DEF Missing, Alive
  <2>4. \A k \in strays' : \E j \in 1..(k - 1) : handle'[j].id = handle'[k].id /\ ~Alive(j)'
    BY <1>1, <1>6, <2>1 DEF OneReader, Alive
  <2>5. \A m \in Readers : Before(m)' = Before(m)
    BY DEF Before
  <2> QED BY <2>3, <2>4, <2>5 DEF OneReader
<1>7. OneReader'
  <2>1. CASE svc = "hysteria2" /\ loops' <= 1
    BY <1>6, <2>1
  <2>2. CASE ~(svc = "hysteria2" /\ loops' <= 1)
    BY <2>2 DEF OneReader
  <2> QED BY <2>1, <2>2
<1> QED BY <1>3, <1>4, <1>5, <1>7 DEF ServerIInv

\* Readers between their steps, after one of them rested.
LEMMA RestingIsKnown ==
  ASSUME ServerTypeOK, ReadersKnow, NEW m \in Readers, reader' = [reader EXCEPT ![m] = Resting]
  PROVE  /\ reader' \in [Readers -> ReaderKind] /\ reader'[m].at = "idle"
         /\ \A n \in Readers : n # m => reader'[n] = reader[n]
<1>1. Resting \in ReaderKind /\ Resting.at = "idle"
  BY DEF Resting, ReaderKind
<1>2. reader \in [Readers -> ReaderKind]
  BY DEF ServerTypeOK
<1> QED BY <1>1, <1>2

\* With one loop, one reader is between its look and its entry.
LEMMA OneCreates ==
  ASSUME ServerIInv, svc = "hysteria2", loops <= 1, NEW m \in Readers, NEW n \in Readers,
         reader[m].at = "creates", reader[n].at = "creates"
  PROVE  m = n
<1>1. \A p \in Readers : IsFiniteSet(Before(p)) /\ Cardinality(Before(p)) \in Nat
  BY ServerConstants, FS_Subset, FS_CardinalityType DEF Before
<1>2. Cardinality(Before(m)) < loops /\ Cardinality(Before(n)) < loops /\ loops \in Nat
  BY DEF ServerIInv, OneReader, ServerTypeOK
<1>3. Cardinality(Before(m)) = 0 /\ Cardinality(Before(n)) = 0
  BY <1>1, <1>2
<1>4. Before(m) = {} /\ Before(n) = {}
  BY <1>1, <1>3, FS_EmptySet
<1>5. m \in Nat /\ n \in Nat /\ ~(n < m) /\ ~(m < n)
  BY <1>4, ServerConstants DEF Before
<1> QED BY <1>5

\* A session made and entered under number i.
LEMMA EnteringLosesNone ==
  ASSUME ServerIInv, NEW i \in Numbers, auth, Entered(i),
         UNCHANGED <<svc, auth, request, answered, masked, loops, over, destroyed>>,
         svc = "hysteria" => i = Len(handle) + 1,
         reader' \in [Readers -> ReaderKind],
         \A m \in Readers : reader'[m].at # "idle" => reader'[m] = reader[m],
         svc = "hysteria2" /\ loops <= 1 => Missing(i) /\ \A m \in Readers : reader'[m].at # "creates"
  PROVE  ServerIInv'
<1>1. ServerTypeOK /\ Gates /\ ReadersKnow /\ TableIsTrue /\ NoneIsLost /\ HysteriaCounts /\ OneReader
  BY DEF ServerIInv
<1> DEFINE k == Len(handle) + 1
           new == [id |-> i, done |-> FALSE, late |-> over]
<1>2. /\ handle' = Append(handle, new) /\ table' = [table EXCEPT ![i] = k]
      /\ strays' = IF table[i] # 0 /\ Alive(table[i]) THEN strays \cup {table[i]} ELSE strays
  BY DEF Entered
<1>3. new \in HandleKind /\ new.id = i /\ ~new.done /\ new.late = over
  BY <1>1 DEF HandleKind, ServerTypeOK
<1>4. Len(handle) \in Nat /\ DOMAIN handle = 1..Len(handle) /\ handle \in Seq(HandleKind) /\ table \in [Numbers -> Nat]
  BY <1>1, ServerNumbers DEF ServerTypeOK
<1> HIDE DEF new
<1>5. /\ handle' \in Seq(HandleKind) /\ DOMAIN handle' = DOMAIN handle \cup {k} /\ handle'[k] = new
      /\ \A q \in DOMAIN handle : handle'[q] = handle[q] /\ q # k /\ q <= k
  BY <1>2, <1>3, <1>4
<1>6. k \in Nat \ {0} /\ k \notin DOMAIN handle
  BY <1>4
<1> HIDE DEF k
<1>7. table' \in [Numbers -> Nat] /\ table'[i] = k /\ \A j \in Numbers : j # i => table'[j] = table[j]
  BY <1>2, <1>4, <1>6
<1>8. Numbers' = Numbers /\ \A q : q \in Mapped' <=> q # 0 /\ \E j \in Numbers : table'[j] = q
  BY <1>7 DEF Numbers, Mapped
<1>9. table[i] # 0 => table[i] \in DOMAIN handle /\ handle[table[i]].id = i
  BY <1>1 DEF TableIsTrue
<1>10. ServerTypeOK'
  <2>1. strays' \subseteq DOMAIN handle' /\ destroyed' \subseteq DOMAIN handle'
    BY <1>1, <1>2, <1>5, <1>9 DEF ServerTypeOK
  <2> QED BY <1>1, <1>5, <1>7, <1>8, <2>1 DEF ServerTypeOK, HandleKind, ReaderKind
<1>11. Gates'
  BY <1>1 DEF Gates
<1>12. ReadersKnow'
  <2> SUFFICES ASSUME NEW m \in Readers, reader'[m].at # "idle"
               PROVE  /\ reader'[m].at = "creates" => auth /\ svc # "hysteria" /\ reader'[m].id \in UDPIds
                      /\ reader'[m].at = "deletes" =>
                           /\ svc = "tuic" /\ reader'[m].id \in UDPIds
                           /\ reader'[m].found \in DOMAIN handle' /\ handle'[reader'[m].found].done
    BY DEF ReadersKnow
  <2>1. reader'[m] = reader[m]
    OBVIOUS
  <2> QED BY <1>1, <1>5, <2>1 DEF ReadersKnow
<1>13. TableIsTrue'
  <2> SUFFICES ASSUME NEW j \in Numbers, table'[j] # 0
               PROVE  /\ table'[j] \in DOMAIN handle' /\ handle'[table'[j]].id = j /\ table'[j] \notin destroyed
                      /\ \A q \in DOMAIN handle' : handle'[q].id = j => q <= table'[j]
    BY <1>8 DEF TableIsTrue
  <2>1. CASE j = i
    BY <1>1, <1>3, <1>5, <1>6, <1>7, <2>1 DEF ServerTypeOK
  <2>2. CASE j # i
    <3>1. table'[j] = table[j]
      BY <1>7, <2>2
    <3> QED BY <1>1, <1>3, <1>5, <2>2, <3>1 DEF TableIsTrue
  <2> QED BY <2>1, <2>2
<1>14. NoneIsLost'
  <2>1. ASSUME NEW q \in DOMAIN handle', Alive(q)'
        PROVE  q \in Mapped' \cup strays' \/ (over /\ handle'[q].late)
    <3>1. CASE q = k
      BY <1>6, <1>7, <1>8, <3>1
    <3>2. CASE q # k
      <4>1. q \in DOMAIN handle /\ handle'[q] = handle[q] /\ Alive(q)
        BY <1>5, <2>1, <3>2 DEF Alive
      <4>2. q \in Mapped \cup strays \/ (over /\ handle[q].late)
        BY <1>1, <4>1 DEF NoneIsLost
      <4>3. CASE q \in Mapped
        <5>1. PICK j \in Numbers : table[j] = q /\ q # 0
          BY <1>1, <4>3, ServerNumbers
        <5>2. CASE j = i
          BY <1>2, <4>1, <5>1, <5>2
        <5>3. CASE j # i
          BY <1>7, <1>8, <5>1, <5>3
        <5> QED BY <5>2, <5>3
      <4> QED BY <1>2, <4>1, <4>2, <4>3
    <3> QED BY <3>1, <3>2
  <2>2. ASSUME over, NEW q \in Mapped' PROVE handle'[q].late
    <3>1. PICK j \in Numbers : table'[j] = q /\ q # 0
      BY <1>8, <2>2
    <3>2. CASE j = i
      BY <1>3, <1>5, <1>7, <2>2, <3>1, <3>2
    <3>3. CASE j # i
      <4>1. q \in Mapped /\ q \in DOMAIN handle
        BY <1>1, <1>7, <3>1, <3>3, ServerNumbers DEF TableIsTrue
      <4> QED BY <1>1, <1>5, <2>2, <4>1 DEF NoneIsLost
    <3> QED BY <3>2, <3>3
  <2> QED BY <2>1, <2>2 DEF NoneIsLost
<1>15. HysteriaCounts'
  <2> SUFFICES ASSUME svc = "hysteria" PROVE strays' = {} /\ \A q \in DOMAIN handle' : handle'[q].id = q
    BY DEF HysteriaCounts
  <2>1. i = k /\ strays = {} /\ \A q \in DOMAIN handle : handle[q].id = q
    BY <1>1 DEF HysteriaCounts, k
  <2>2. table[i] = 0
    BY <1>6, <1>9, <2>1
  <2> QED BY <1>2, <1>3, <1>5, <2>1, <2>2
<1>16. OneReader'
  <2> SUFFICES ASSUME svc = "hysteria2", loops <= 1
               PROVE  \A q \in strays' : \E j \in 1..(q - 1) : handle'[j].id = handle'[q].id /\ ~Alive(j)'
    BY DEF OneReader
  <2>1. strays' = strays
    BY <1>2 DEF Missing
  <2> SUFFICES ASSUME NEW q \in strays PROVE \E j \in 1..(q - 1) : handle'[j].id = handle'[q].id /\ ~Alive(j)'
    BY <2>1
  <2>2. PICK j \in 1..(q - 1) : handle[j].id = handle[q].id /\ ~Alive(j)
    BY <1>1 DEF OneReader
  <2>3. q \in DOMAIN handle /\ j \in DOMAIN handle
    BY <1>1, <1>4 DEF ServerTypeOK
  <2> QED BY <1>5, <2>2, <2>3 DEF Alive
<1> QED BY <1>10, <1>11, <1>12, <1>13, <1>14, <1>15, <1>16 DEF ServerIInv

\* Number i leads nowhere any more, by the end of session k.
LEMMA TakingOffLosesNone ==
  ASSUME ServerIInv, NEW i \in Numbers, NEW k \in DOMAIN handle, svc # "tuic" => handle[k].id = i,
         table' = OffTable(i), strays' = StraysOf(i, k),
         handle' = [handle EXCEPT ![k].done = TRUE],
         destroyed' = destroyed \/ (destroyed' = destroyed \cup {k} /\ handle[k].id = i),
         UNCHANGED <<svc, auth, request, answered, masked, loops, over>>,
         reader' \in [Readers -> ReaderKind],
         \A m \in Readers : reader'[m].at # "idle" => reader'[m] = reader[m]
  PROVE  ServerIInv'
<1>1. ServerTypeOK /\ Gates /\ ReadersKnow /\ TableIsTrue /\ NoneIsLost /\ HysteriaCounts /\ OneReader
  BY DEF ServerIInv
<1>2. Len(handle) \in Nat /\ DOMAIN handle = 1..Len(handle) /\ handle \in Seq(HandleKind) /\ table \in [Numbers -> Nat]
  BY <1>1, ServerNumbers DEF ServerTypeOK
<1> DEFINE ended == [handle[k] EXCEPT !.done = TRUE]
<1>3. handle[k] \in HandleKind
  BY <1>1, ServerNumbers
<1>4. ended \in HandleKind /\ ended.done /\ ended.id = handle[k].id /\ ended.late = handle[k].late
  BY <1>3 DEF HandleKind
<1>5. handle' = [handle EXCEPT ![k] = ended]
  OBVIOUS
<1> HIDE DEF ended
<1>6. /\ handle' \in Seq(HandleKind) /\ DOMAIN handle' = DOMAIN handle /\ handle'[k] = ended
      /\ \A q \in DOMAIN handle : q # k => handle'[q] = handle[q]
  <2>1. k \in 1..Len(handle)
    BY <1>2
  <2>2. [handle EXCEPT ![k] = ended] \in Seq(HandleKind)
    BY <1>2, <1>4, <2>1, ExceptSeq
  <2>3. handle' \in Seq(HandleKind)
    BY <1>5, <2>2
  <2>4. handle'[k] = ended /\ \A q \in DOMAIN handle : q # k => handle'[q] = handle[q]
    BY <1>2, <1>5
  <2>5. DOMAIN handle' = DOMAIN handle
    BY <1>5
  <2> QED BY <2>3, <2>4, <2>5
<1>7. \A q \in DOMAIN handle : /\ handle'[q].id = handle[q].id /\ handle'[q].late = handle[q].late
                               /\ handle[q].done => handle'[q].done
  BY <1>4, <1>6
<1>8. table' \in [Numbers -> Nat] /\ table'[i] = 0 /\ \A j \in Numbers : j # i => table'[j] = table[j]
  BY <1>2 DEF OffTable
<1>9. strays' = IF table[i] \notin {0, k} /\ Alive(table[i]) THEN strays \cup {table[i]} ELSE strays
  BY DEF StraysOf
<1>10. table[i] # 0 => table[i] \in DOMAIN handle /\ handle[table[i]].id = i
                       /\ \A q \in DOMAIN handle : handle[q].id = i => q <= table[i]
  BY <1>1 DEF TableIsTrue
<1>11. \A j \in Numbers : table'[j] \in {0, table[j]} /\ (table'[j] # 0 => table'[j] \notin destroyed')
  <2>1. ASSUME NEW j \in Numbers, table'[j] # 0 PROVE table'[j] \notin destroyed'
    <3>1. j # i /\ table'[j] = table[j] /\ handle[table[j]].id = j /\ table[j] \notin destroyed
      BY <1>1, <1>8, <2>1 DEF TableIsTrue
    <3> QED BY <3>1
  <2> QED BY <1>8, <2>1
<1>12. /\ TableIsTrue' /\ Mapped' \subseteq Mapped /\ Numbers' = Numbers
       /\ \A j \in Numbers : Missing(j) => Missing(j)'
       /\ svc = "hysteria" => \A q \in DOMAIN handle' : handle'[q].id = q
  BY <1>6, <1>7, <1>8, <1>11, WhatIsLeftIsTrue
<1>13. ServerTypeOK'
  <2>1. strays' \subseteq DOMAIN handle' /\ destroyed' \subseteq DOMAIN handle'
    BY <1>1, <1>6, <1>9, <1>10 DEF ServerTypeOK
  <2> QED BY <1>1, <1>6, <1>8, <1>12, <2>1 DEF ServerTypeOK, HandleKind, ReaderKind
<1>14. Gates'
  BY <1>1, <1>6 DEF Gates
<1>15. ReadersKnow'
  <2> SUFFICES ASSUME NEW m \in Readers, reader'[m].at # "idle"
               PROVE  /\ reader'[m].at = "creates" => auth /\ svc # "hysteria" /\ reader'[m].id \in UDPIds
                      /\ reader'[m].at = "deletes" =>
                           /\ svc = "tuic" /\ reader'[m].id \in UDPIds
                           /\ reader'[m].found \in DOMAIN handle' /\ handle'[reader'[m].found].done
    BY DEF ReadersKnow
  <2>1. reader'[m] = reader[m]
    OBVIOUS
  <2> QED BY <1>1, <1>6, <1>7, <2>1 DEF ReadersKnow
<1>16. NoneIsLost'
  <2>1. ASSUME NEW q \in DOMAIN handle', Alive(q)'
        PROVE  q \in Mapped' \cup strays' \/ (over /\ handle'[q].late)
    <3>1. q \in DOMAIN handle /\ q # k /\ handle'[q] = handle[q] /\ Alive(q)
      BY <1>4, <1>6, <2>1 DEF Alive
    <3>2. q \in Mapped \cup strays \/ (over /\ handle[q].late)
      BY <1>1, <3>1 DEF NoneIsLost
    <3>3. CASE q \in Mapped
      <4>1. PICK j \in Numbers : table[j] = q /\ q # 0
        BY <1>1, <3>3, ServerNumbers
      <4>2. CASE j = i
        BY <1>9, <3>1, <4>1, <4>2
      <4>3. CASE j # i
        <5>1. table'[j] = q /\ DOMAIN table' = Numbers
          BY <1>8, <4>1, <4>3
        <5> QED BY <4>1, <5>1 DEF Mapped
      <4> QED BY <4>2, <4>3
    <3> QED BY <1>9, <3>1, <3>2, <3>3
  <2>2. ASSUME over, NEW q \in Mapped' PROVE handle'[q].late
    <3>1. q \in Mapped /\ q \in DOMAIN handle
      BY <1>1, <1>12, ServerNumbers DEF TableIsTrue
    <3> QED BY <1>1, <1>7, <2>2, <3>1 DEF NoneIsLost
  <2> QED BY <2>1, <2>2 DEF NoneIsLost
<1>17. HysteriaCounts'
  <2> SUFFICES ASSUME svc = "hysteria" PROVE strays' = {}
    BY <1>12 DEF HysteriaCounts
  <2>1. strays = {} /\ \A q \in DOMAIN handle : handle[q].id = q
    BY <1>1 DEF HysteriaCounts
  <2> QED BY <1>9, <1>10, <2>1
<1>18. OneReader'
  <2> SUFFICES ASSUME svc = "hysteria2", loops <= 1
               PROVE  /\ \A m \in Readers : reader'[m].at = "creates" => Cardinality(Before(m)) < loops /\ Missing(reader[m].id)'
                      /\ \A q \in strays' : \E j \in 1..(q - 1) : handle'[j].id = handle'[q].id /\ ~Alive(j)'
    BY DEF OneReader, Before, Missing, Alive
  <2>1. ASSUME NEW m \in Readers, reader'[m].at = "creates"
        PROVE  Cardinality(Before(m)) < loops /\ Missing(reader[m].id)'
    <3>1. reader'[m] = reader[m] /\ reader[m].id \in Numbers
      BY <1>1, <2>1 DEF ReadersKnow, Numbers
    <3>2. Cardinality(Before(m)) < loops /\ Missing(reader[m].id)
      BY <1>1, <2>1, <3>1 DEF OneReader
    <3> QED BY <1>12, <3>1, <3>2 DEF Missing, Alive
  <2>2. ASSUME NEW q \in strays' PROVE \E j \in 1..(q - 1) : handle'[j].id = handle'[q].id /\ ~Alive(j)'
    <3>1. CASE q \in strays
      <4>1. PICK j \in 1..(q - 1) : handle[j].id = handle[q].id /\ ~Alive(j)
        BY <1>1, <3>1 DEF OneReader
      <4>2. q \in DOMAIN handle /\ j \in DOMAIN handle
        BY <1>1, <1>2, <3>1 DEF ServerTypeOK
      <4> QED BY <1>7, <4>1, <4>2 DEF Alive
    <3>2. CASE q \notin strays
      <4>1. q = table[i] /\ q # 0 /\ q # k
        BY <1>9, <2>2, <3>2
      <4>2. k \in 1..(q - 1) /\ q \in DOMAIN handle /\ handle[q].id = i /\ handle[k].id = i
        BY <1>2, <1>10, <4>1
      <4> QED BY <1>4, <1>6, <1>7, <4>2 DEF Alive
    <3> QED BY <3>1, <3>2
  <2> QED BY <2>1, <2>2
<1> QED BY <1>12, <1>13, <1>14, <1>15, <1>16, <1>17, <1>18 DEF ServerIInv

\* The steps of requests and of the hello.
LEMMA GatesKeepOrder ==
  ASSUME ServerIInv,
         ClientHello \/ Authenticate \/ SessionEnds \/ (\E r \in Requests : ServeHTTP(r) \/ Authenticated(r))
  PROVE  ServerIInv'
<1>1. ServerTypeOK /\ Gates /\ ReadersKnow
  BY DEF ServerIInv
<1>2. /\ auth \in BOOLEAN /\ masked \in BOOLEAN /\ loops \in Nat /\ loops + 1 > 0 /\ loops <= loops + 1 /\ loops <= loops
      /\ reader \in [Readers -> ReaderKind] /\ request \in [Requests -> {"idle", "checked", "done"}]
  BY <1>1 DEF ServerTypeOK
<1>3. ASSUME UNCHANGED <<svc, over, table, handle, destroyed, strays, reader>>, auth' \in BOOLEAN,
             masked' \in BOOLEAN, loops' \in Nat, loops <= loops', auth => auth',
             request' \in [Requests -> {"idle", "checked", "done"}], Gates'
      PROVE  ServerIInv'
  <2>1. ReadersKnow'
    BY <1>1, <1>3 DEF ReadersKnow
  <2>2. reader' \in [Readers -> ReaderKind] /\ \A m \in Readers : reader'[m] = reader[m]
    BY <1>2, <1>3
  <2> QED BY <1>3, <2>1, <2>2, GatesKeepSessions
<1>4. ASSUME ~over, Ended, UNCHANGED <<svc, auth, request, answered, masked, loops, reader, strays>>
      PROVE  ServerIInv'
  BY <1>4, EndingLosesNone
<1>5. CASE SessionEnds
  BY <1>4, <1>5 DEF SessionEnds
<1>6. CASE ClientHello
  <2>1. CASE auth' = TRUE /\ loops' = 1 /\ UNCHANGED <<over, table, handle, destroyed>>
    <3>1. UNCHANGED <<svc, request, answered, masked, reader, strays>> /\ ~auth
      BY <1>6 DEF ClientHello
    <3>2. loops = 0
      BY <1>1, <1>2, <3>1 DEF Gates
    <3>3. Gates'
      BY <1>1, <2>1, <3>1 DEF Gates
    <3> QED BY <1>2, <1>3, <2>1, <3>1, <3>2, <3>3
  <2>2. CASE Ended /\ UNCHANGED <<auth, loops>>
    BY <1>4, <1>6, <2>2 DEF ClientHello
  <2> QED BY <1>6, <2>1, <2>2 DEF ClientHello
<1>7. CASE Authenticate
  <2>1. CASE ~auth /\ auth' = TRUE /\ loops' = 1 /\ UNCHANGED <<over, table, handle, destroyed>>
    <3>1. UNCHANGED <<svc, request, answered, masked, reader, strays>>
      BY <1>7 DEF Authenticate
    <3>2. loops = 0
      BY <1>1, <1>2, <2>1 DEF Gates
    <3>3. Gates'
      BY <1>1, <2>1, <3>1 DEF Gates
    <3> QED BY <1>2, <1>3, <2>1, <3>1, <3>2, <3>3
  <2>2. CASE Ended /\ UNCHANGED <<auth, loops>>
    BY <1>4, <1>7, <2>2 DEF Authenticate
  <2> QED BY <1>7, <2>1, <2>2 DEF Authenticate
<1>8. ASSUME NEW r \in Requests, ServeHTTP(r) PROVE ServerIInv'
  <2>1. /\ UNCHANGED <<svc, auth, masked, loops, over, table, handle, destroyed, reader, strays>>
        /\ svc = "hysteria2" /\ request' = [request EXCEPT ![r] = IF auth THEN "done" ELSE "checked"]
        /\ answered' = IF auth THEN answered \cup {r} ELSE answered
    BY <1>8 DEF ServeHTTP
  <2>2. request' \in [Requests -> {"idle", "checked", "done"}]
    BY <1>2, <2>1
  <2>3. Gates'
    BY <1>1, <2>1 DEF Gates
  <2> QED BY <1>2, <1>3, <2>1, <2>2, <2>3
<1>9. ASSUME NEW r \in Requests, Authenticated(r) PROVE ServerIInv'
  <2>1. /\ UNCHANGED <<svc, over, table, handle, destroyed, reader, strays>>
        /\ request[r] = "checked" /\ request' = [request EXCEPT ![r] = "done"]
        /\ \/ UNCHANGED <<auth, masked, loops, answered>>
           \/ auth' = TRUE /\ masked' = TRUE /\ UNCHANGED <<loops, answered>>
           \/ auth' = TRUE /\ loops' = loops + 1 /\ answered' = answered \cup {r} /\ UNCHANGED masked
    BY <1>9 DEF Authenticated
  <2>2. request' \in [Requests -> {"idle", "checked", "done"}] /\ svc = "hysteria2"
    BY <1>1, <1>2, <2>1 DEF Gates
  <2>3. auth' \in BOOLEAN /\ masked' \in BOOLEAN /\ loops' \in Nat /\ loops <= loops' /\ (auth => auth')
    <3>1. (auth' = auth \/ auth' = TRUE) /\ (masked' = masked \/ masked' = TRUE)
      BY <2>1
    <3>2. loops' = loops \/ loops' = loops + 1
      BY <2>1
    <3>3. loops' \in Nat /\ loops <= loops'
      BY <1>2, <3>2
    <3>4. auth' \in BOOLEAN /\ masked' \in BOOLEAN
      BY <1>2, <3>1
    <3>5. auth => auth'
      BY <3>1
    <3> QED BY <3>3, <3>4, <3>5
  <2>4. Gates'
    BY <1>1, <1>2, <2>1, <2>2 DEF Gates
  <2> QED BY <1>3, <2>1, <2>2, <2>3, <2>4
<1> QED BY <1>5, <1>6, <1>7, <1>8, <1>9

\* The steps of readers and handlers.
LEMMA SessionsKeepOrder ==
  ASSUME ServerIInv,
         \/ RequestsUDP \/ \E i \in ServerIds : UnknownSession(i)
         \/ \E m \in Readers : Creates(m) \/ Deletes(m) \/ \E i \in UDPIds : LooksUp(m, i) \/ Dissociates(m, i)
         \/ \E k \in DOMAIN handle : HandlerCloses(k)
  PROVE  ServerIInv'
<1>1. ServerTypeOK /\ Gates /\ ReadersKnow /\ TableIsTrue /\ NoneIsLost /\ HysteriaCounts /\ OneReader
  BY DEF ServerIInv
<1>2. /\ reader \in [Readers -> ReaderKind] /\ Len(handle) \in Nat /\ DOMAIN handle = 1..Len(handle)
      /\ \A k \in DOMAIN handle : handle[k] \in HandleKind /\ k \in Nat \ {0}
  BY <1>1, ServerNumbers DEF ServerTypeOK
<1>3. UDPIds \subseteq Numbers
  BY DEF Numbers
<1>4. CASE RequestsUDP
  <2>1. /\ svc = "hysteria" /\ auth /\ Len(handle) < Handles /\ Entered(Len(handle) + 1)
        /\ UNCHANGED <<svc, auth, request, answered, masked, loops, over, destroyed, reader>>
    BY <1>4 DEF RequestsUDP
  <2>2. Len(handle) + 1 \in Numbers
    BY <1>2, <2>1, ServerConstants DEF Numbers
  <2>3. reader' \in [Readers -> ReaderKind] /\ \A m \in Readers : reader'[m] = reader[m]
    BY <1>2, <2>1
  <2> QED BY <2>1, <2>2, <2>3, EnteringLosesNone
<1>5. ASSUME NEW i \in ServerIds, UnknownSession(i) PROVE ServerIInv'
  BY <1>5, EndingLosesNone DEF UnknownSession
<1>6. ASSUME NEW m \in Readers, Creates(m) PROVE ServerIInv'
  <2>1. /\ reader[m].at = "creates" /\ reader' = [reader EXCEPT ![m] = Resting] /\ Entered(reader[m].id)
        /\ UNCHANGED <<svc, auth, request, answered, masked, loops, over, destroyed>>
    BY <1>6 DEF Creates
  <2>2. PICK i \in Numbers : i = reader[m].id
    BY <1>1, <1>3, <2>1 DEF ReadersKnow
  <2>3. auth /\ svc # "hysteria"
    BY <1>1, <2>1 DEF ReadersKnow
  <2>4. /\ reader' \in [Readers -> ReaderKind] /\ reader'[m].at = "idle"
        /\ \A n \in Readers : n # m => reader'[n] = reader[n]
    BY <1>1, <2>1, RestingIsKnown
  <2>5. ASSUME svc = "hysteria2", loops <= 1
        PROVE  Missing(i) /\ \A n \in Readers : reader'[n].at # "creates"
    <3>1. Missing(i)
      BY <1>1, <2>1, <2>2, <2>5 DEF OneReader
    <3>2. ASSUME NEW n \in Readers, reader'[n].at = "creates" PROVE FALSE
      <4>1. n # m /\ reader[n].at = "creates"
        BY <2>4, <3>2
      <4> QED BY <2>1, <2>5, <4>1, OneCreates
    <3> QED BY <3>1, <3>2
  <2>6. Entered(i)
    BY <2>1, <2>2
  <2>7. \A n \in Readers : reader'[n].at # "idle" => reader'[n] = reader[n]
    BY <2>4
  <2> QED BY <2>1, <2>3, <2>4, <2>5, <2>6, <2>7, EnteringLosesNone
<1>7. ASSUME NEW m \in Readers, Deletes(m) PROVE ServerIInv'
  <2>1. /\ reader[m].at = "deletes" /\ reader' = [reader EXCEPT ![m] = Resting]
        /\ table' = OffTable(reader[m].id) /\ strays' = StraysOf(reader[m].id, reader[m].found)
        /\ UNCHANGED <<svc, auth, request, answered, masked, loops, over, handle, destroyed>>
    BY <1>7 DEF Deletes
  <2>2. PICK i \in Numbers : i = reader[m].id
    BY <1>1, <1>3, <2>1 DEF ReadersKnow
  <2>3. PICK k \in DOMAIN handle : k = reader[m].found /\ handle[k].done
    BY <1>1, <2>1 DEF ReadersKnow
  <2>4. svc = "tuic"
    BY <1>1, <2>1 DEF ReadersKnow
  <2>5. /\ reader' \in [Readers -> ReaderKind] /\ reader'[m].at = "idle"
        /\ \A n \in Readers : n # m => reader'[n] = reader[n]
    BY <1>1, <2>1, RestingIsKnown
  <2>6. handle' = [handle EXCEPT ![k].done = TRUE]
    <3>1. handle[k] \in HandleKind /\ handle[k].done = TRUE
      BY <1>2, <2>3 DEF HandleKind
    <3>2. [handle[k] EXCEPT !.done = TRUE] = handle[k]
      BY <3>1 DEF HandleKind
    <3>3. [handle EXCEPT ![k].done = TRUE] = [handle EXCEPT ![k] = handle[k]]
      BY <3>2
    <3>4. [handle EXCEPT ![k] = handle[k]] = handle
      BY <1>1, <1>2 DEF ServerTypeOK
    <3> QED BY <2>1, <3>3, <3>4
  <2>7. table' = OffTable(i) /\ strays' = StraysOf(i, k) /\ \A n \in Readers : reader'[n].at # "idle" => reader'[n] = reader[n]
    BY <2>1, <2>2, <2>3, <2>5
  <2> QED BY <2>1, <2>4, <2>5, <2>6, <2>7, TakingOffLosesNone
<1>8. ASSUME NEW m \in Readers, NEW i \in UDPIds, LooksUp(m, i) PROVE ServerIInv'
  <2> DEFINE looking == [at |-> "creates", id |-> i, found |-> 0]
  <2>1. /\ svc # "hysteria" /\ Listening /\ m \in ReadersOf /\ Missing(i)
        /\ reader' = [reader EXCEPT ![m] = looking]
        /\ UNCHANGED <<svc, auth, request, answered, masked, loops, over, table, handle, destroyed, strays>>
    BY <1>8 DEF LooksUp
  <2>2. looking \in ReaderKind /\ looking.at = "creates" /\ looking.id = i
    BY <1>3 DEF ReaderKind
  <2> HIDE DEF looking
  <2>3. /\ reader' \in [Readers -> ReaderKind] /\ reader'[m] = looking
        /\ \A n \in Readers : n # m => reader'[n] = reader[n]
    BY <1>2, <2>1, <2>2
  <2>4. auth
    BY <1>1, <2>1 DEF Listening, Gates
  <2>5. svc = "hysteria2" => Cardinality(Before(m)) < loops
    BY <2>1 DEF ReadersOf, Before
  <2>6. ReadersKnow'
    BY <1>1, <2>1, <2>2, <2>3, <2>4 DEF ReadersKnow
  <2>7. Gates'
    BY <1>1, <2>1 DEF Gates
  <2>8. \A n \in Readers : reader'[n].at = "creates" /\ reader'[n] # reader[n] =>
             Missing(reader'[n].id) /\ (svc = "hysteria2" => Cardinality(Before(n)) < loops')
    BY <2>1, <2>2, <2>3, <2>5
  <2>9. /\ auth' \in BOOLEAN /\ masked' \in BOOLEAN /\ loops' \in Nat /\ loops <= loops'
        /\ request' \in [Requests -> {"idle", "checked", "done"}]
    BY <1>1, <2>1 DEF ServerTypeOK
  <2> QED BY <2>1, <2>3, <2>6, <2>7, <2>8, <2>9, GatesKeepSessions
<1>9. ASSUME NEW k \in DOMAIN handle, HandlerCloses(k) PROVE ServerIInv'
  <2>1. /\ destroyed' = destroyed \cup {k} /\ handle' = [handle EXCEPT ![k].done = TRUE]
        /\ table' = OffTable(handle[k].id) /\ strays' = StraysOf(handle[k].id, k)
        /\ UNCHANGED <<svc, auth, request, answered, masked, loops, over, reader>>
    BY <1>9 DEF HandlerCloses
  <2>2. PICK i \in Numbers : i = handle[k].id
    BY <1>2 DEF HandleKind
  <2>3. reader' \in [Readers -> ReaderKind] /\ \A n \in Readers : reader'[n] = reader[n]
    BY <1>2, <2>1
  <2>4. table' = OffTable(i) /\ strays' = StraysOf(i, k) /\ handle[k].id = i
    BY <2>1, <2>2
  <2> QED BY <2>1, <2>3, <2>4, TakingOffLosesNone
<1>10. ASSUME NEW m \in Readers, NEW i \in UDPIds, Dissociates(m, i) PROVE ServerIInv'
  <2>1. PICK k \in DOMAIN handle : k = table[i] /\ k # 0
    BY <1>1, <1>3, <1>10 DEF Dissociates, TableIsTrue
  <2> DEFINE asked == [at |-> "deletes", id |-> i, found |-> k]
             ended == [handle[k] EXCEPT !.done = TRUE]
  <2>2. /\ svc = "tuic" /\ reader' = [reader EXCEPT ![m] = asked] /\ handle' = [handle EXCEPT ![k] = ended]
        /\ UNCHANGED <<svc, auth, request, answered, masked, loops, over, table, destroyed, strays>>
    BY <1>10, <2>1 DEF Dissociates
  <2>3. asked \in ReaderKind /\ asked.at = "deletes" /\ asked.id = i /\ asked.found = k
    BY <1>2, <1>3 DEF ReaderKind
  <2>4. ended \in HandleKind /\ ended.done /\ ended.id = handle[k].id /\ ended.late = handle[k].late
    BY <1>2 DEF HandleKind
  <2> HIDE DEF asked, ended
  <2>5. /\ reader' \in [Readers -> ReaderKind] /\ reader'[m] = asked
        /\ \A n \in Readers : n # m => reader'[n] = reader[n]
    BY <1>2, <2>2, <2>3
  <2>6. /\ handle' \in Seq(HandleKind) /\ DOMAIN handle' = DOMAIN handle /\ handle'[k] = ended
        /\ \A q \in DOMAIN handle : q # k => handle'[q] = handle[q]
    <3>1. k \in 1..Len(handle) /\ handle \in Seq(HandleKind)
      BY <1>1, <1>2 DEF ServerTypeOK
    <3>2. [handle EXCEPT ![k] = ended] \in Seq(HandleKind)
      BY <2>4, <3>1, ExceptSeq
    <3> QED BY <2>2, <3>1, <3>2
  <2>7. \A q \in DOMAIN handle : /\ handle'[q].id = handle[q].id /\ handle'[q].late = handle[q].late
                                 /\ handle[q].done => handle'[q].done
    BY <2>4, <2>6
  <2>8. table' \in [Numbers -> Nat] /\ \A j \in Numbers : table'[j] = table[j] /\ (table'[j] # 0 => table'[j] \notin destroyed')
    BY <1>1, <2>2 DEF ServerTypeOK, TableIsTrue
  <2>9. TableIsTrue' /\ Numbers' = Numbers /\ Mapped' = Mapped
    <3>1. TableIsTrue' /\ Numbers' = Numbers
      BY <2>2, <2>6, <2>7, <2>8, WhatIsLeftIsTrue
    <3> QED BY <2>2, <3>1 DEF Mapped
  <2>10. ServerTypeOK'
    BY <1>1, <2>2, <2>5, <2>6, <2>8, <2>9 DEF ServerTypeOK, HandleKind, ReaderKind
  <2>11. Gates'
    BY <1>1, <2>2, <2>6 DEF Gates
  <2>12. ReadersKnow'
    <3> SUFFICES ASSUME NEW n \in Readers
                 PROVE  /\ reader'[n].at = "creates" => auth /\ svc # "hysteria" /\ reader'[n].id \in UDPIds
                        /\ reader'[n].at = "deletes" =>
                             /\ svc = "tuic" /\ reader'[n].id \in UDPIds
                             /\ reader'[n].found \in DOMAIN handle' /\ handle'[reader'[n].found].done
      BY <2>2 DEF ReadersKnow
    <3>1. CASE n = m
      BY <2>2, <2>3, <2>4, <2>5, <2>6, <3>1
    <3>2. CASE n # m
      <4>1. reader'[n] = reader[n]
        BY <2>5, <3>2
      <4> QED BY <1>1, <2>6, <2>7, <4>1 DEF ReadersKnow
    <3> QED BY <3>1, <3>2
  <2>13. NoneIsLost'
    <3>1. \A q \in DOMAIN handle : Alive(q)' => Alive(q)
      BY <2>7 DEF Alive
    <3>2. Mapped \subseteq DOMAIN handle
      BY <1>1, ServerNumbers DEF TableIsTrue
    <3> QED BY <1>1, <2>2, <2>6, <2>7, <2>9, <3>1, <3>2 DEF NoneIsLost
  <2>14. HysteriaCounts' /\ OneReader'
    BY <2>2 DEF HysteriaCounts, OneReader
  <2> QED BY <2>9, <2>10, <2>11, <2>12, <2>13, <2>14 DEF ServerIInv
<1> QED BY <1>4, <1>5, <1>6, <1>7, <1>8, <1>9, <1>10

\* Before the first message.
LEMMA ServerStarts == ServerInit => ServerIInv
<1> SUFFICES ASSUME ServerInit PROVE ServerIInv
  OBVIOUS
<1>1. Resting \in ReaderKind /\ Resting.at = "idle"
  BY DEF Resting, ReaderKind
<1>2. /\ table = [i \in Numbers |-> 0] /\ handle = <<>> /\ reader = [m \in Readers |-> Resting]
      /\ strays = {} /\ destroyed = {} /\ answered = {} /\ auth = FALSE /\ over = FALSE /\ loops = 0 /\ masked = FALSE
      /\ request = [r \in Requests |-> "idle"] /\ svc \in Services
  BY DEF ServerInit, Numbers
<1>3. handle \in Seq(HandleKind) /\ DOMAIN handle = {} /\ Mapped = {}
  BY <1>2 DEF Mapped
<1>4. ServerTypeOK
  BY <1>1, <1>2, <1>3 DEF ServerTypeOK
<1>5. Gates /\ ReadersKnow /\ OneReader
  BY <1>1, <1>2 DEF Gates, ReadersKnow, OneReader
<1>6. TableIsTrue /\ NoneIsLost /\ HysteriaCounts
  BY <1>2, <1>3 DEF TableIsTrue, NoneIsLost, HysteriaCounts
<1> QED BY <1>4, <1>5, <1>6 DEF ServerIInv

\* However messages, the ends of handlers, requests and the end of the connection interleave: no
\* session without a user, a number leads to its own session, no session under way is off the
\* table but for a race of its own number, none outlives the connection, and a client told that
\* it is in is read: for any sessions, readers, requests and numbers of the three servers.
THEOREM SessionsHaveOwners == ServerSpec => []ServerInv
<1>1. ServerIInv /\ [ServerNext]_serverVars => ServerIInv'
  <2> SUFFICES ASSUME ServerIInv, [ServerNext]_serverVars PROVE ServerIInv'
    OBVIOUS
  <2>1. CASE ServerNext
    BY <2>1, GatesKeepOrder, SessionsKeepOrder DEF ServerNext, HTTPNext
  <2>2. CASE UNCHANGED serverVars
    <3>1. UNCHANGED <<svc, auth, request, answered, masked, loops, over, table, handle, destroyed, reader, strays>>
      BY <2>2 DEF serverVars
    <3>2. ServerTypeOK /\ Gates /\ ReadersKnow
      BY DEF ServerIInv
    <3>3. /\ auth' \in BOOLEAN /\ masked' \in BOOLEAN /\ loops' \in Nat /\ loops <= loops'
          /\ request' \in [Requests -> {"idle", "checked", "done"}] /\ reader' \in [Readers -> ReaderKind]
      BY <3>1, <3>2 DEF ServerTypeOK
    <3>4. Gates' /\ ReadersKnow'
      BY <3>1, <3>2 DEF Gates, ReadersKnow
    <3> QED BY <3>1, <3>3, <3>4, GatesKeepSessions
  <2> QED BY <2>1, <2>2
<1>2. ServerIInv => ServerInv
  <2> SUFFICES ASSUME ServerIInv PROVE ServerInv
    OBVIOUS
  <2>1. ServerTypeOK /\ Gates /\ TableIsTrue /\ NoneIsLost /\ HysteriaCounts /\ OneReader
    BY DEF ServerIInv
  <2>2. handle # <<>> => auth
    BY <2>1 DEF Gates
  <2>3. \A i \in DOMAIN table : table[i] # 0 => handle[table[i]].id = i /\ table[i] \notin destroyed
    BY <2>1, ServerNumbers DEF TableIsTrue
  <2>4. /\ \A k \in DOMAIN handle : Alive(k) => k \in Mapped \cup strays \/ (over /\ handle[k].late)
        /\ over => \A k \in DOMAIN handle : Alive(k) => handle[k].late \/ k \in strays
    BY <2>1 DEF NoneIsLost
  <2>5. svc = "hysteria" => strays = {}
    BY <2>1 DEF HysteriaCounts
  <2>6. svc = "hysteria2" /\ loops = 1 =>
          \A k \in strays : \E j \in 1..(k - 1) : handle[j].id = handle[k].id /\ ~Alive(j)
    BY <2>1 DEF OneReader
  <2>7. answered # {} /\ ~masked => loops > 0
    BY <2>1 DEF Gates
  <2> QED BY <2>2, <2>3, <2>4, <2>5, <2>6, <2>7 DEF ServerInv
<1> QED BY <1>1, <1>2, ServerStarts, PTL DEF ServerSpec

-----------------------------------------------------------------------------
(* ProxyClient: one shared connection, and who uses it *)

\* The connections of this client, and 0 for none.
Conns == 0..Offers[proto]
OfferKind == [at: {"unused", "dialing", "dialed", "discards", "done"}, discarded: BOOLEAN, ok: BOOLEAN]
LinkKind == [life: {"none", "socket", "open", "closed"}, lost: BOOLEAN, doomed: BOOLEAN, idle: BOOLEAN,
             streams: Nat, ids: Nat, udp: [IdSpace -> Users \cup {Nobody}]]
UserKind == [at: {"idle", "waits", "offered", "acquired", "stream", "session"}, kind: {"tcp", "udp"},
             keep: BOOLEAN, link: Conns, id: IdSpace]

ProxyTypeOK ==
  /\ proto \in Protocols /\ shared \in Conns /\ pending \in Conns /\ closeIdle \in BOOLEAN
  /\ offer \in [1..Offers[proto] -> OfferKind]
  /\ link \in [Conns -> LinkKind] /\ link[0].life = "none"
  /\ user \in [Users -> UserKind] /\ \A u \in Users : user[u].at # "idle" => user[u].link # 0

\* The offer under way is the one the client knows of, and there is one only while what it
\* shares, if anything, is of no use.
OneDial ==
  /\ \A o \in 1..Offers[proto] : offer[o].at \in {"dialing", "dialed"} => o = pending
  /\ pending # 0 => ~Active(shared)
  /\ shared # 0 => Installed(shared) /\ ~offer[shared].discarded

\* What becomes of each connection.
LinksAreOwned ==
  \A o \in 1..Offers[proto] :
    /\ link[o].life = "socket" => offer[o].at = "dialing"
    /\ offer[o].at = "dialed" /\ ~offer[o].ok => link[o].life = "closed"
    /\ link[o].life = "open" =>
         o = shared \/ link[o].doomed \/ link[o].lost \/ offer[o].at \in {"dialed", "discards"}

\* Who uses connection o, until its session counter wraps.
Wrapped(o) == link[o].ids > SessionIds
InSession(u, o) == user[u].at = "session" /\ user[u].link = o
UsersAreCounted(o) ==
  /\ link[o].streams = Cardinality(Streams(o))
  /\ link[o].idle => link[o].life = "closed"
  /\ ~Wrapped(o) =>
       /\ link[o].idle => \A u \in Users : ~Uses(u, o)
       /\ \A u \in Users : InSession(u, o) => user[u].id < link[o].ids
       /\ link[o].life # "closed" =>
            \A i \in IdSpace, u \in Users : link[o].udp[i] = u <=> InSession(u, o) /\ user[u].id = i

ProxyIInv == /\ ProxyTypeOK /\ OneDial /\ LinksAreOwned
             /\ \A o \in 1..Offers[proto] : UsersAreCounted(o)

\* What the types say of the numbers and the records.
LEMMA ProxyNumbers ==
  ASSUME ProxyTypeOK
  PROVE  /\ Offers[proto] \in Nat /\ SessionIds \in Nat \ {0} /\ IsFiniteSet(Users) /\ Nobody \notin Users
         /\ 0 \in Conns /\ (\A o \in 1..Offers[proto] : o \in Conns /\ o # 0)
         /\ (\A o \in Conns : o # 0 => o \in 1..Offers[proto])
         /\ (\A o \in Conns : link[o] \in LinkKind) /\ (\A o \in 1..Offers[proto] : offer[o] \in OfferKind)
         /\ (\A u \in Users : user[u] \in UserKind) /\ IdleUser \in UserKind /\ 0 \in IdSpace
         /\ \A o \in Conns : link[o].ids \in Nat /\ link[o].streams \in Nat
<1>1. Offers[proto] \in Nat /\ SessionIds \in Nat \ {0} /\ IsFiniteSet(Users) /\ Nobody \notin Users
  BY ProxyConstants DEF ProxyTypeOK, Nobody
<1>2. 0 \in Conns /\ 0 \in IdSpace
  BY <1>1 DEF Conns, IdSpace
<1>3. IdleUser \in UserKind
  BY <1>2 DEF IdleUser, UserKind
<1>4. /\ \A o \in 1..Offers[proto] : o \in Conns /\ o # 0
      /\ \A o \in Conns : o # 0 => o \in 1..Offers[proto]
  BY <1>1 DEF Conns
<1>5. (\A o \in Conns : link[o] \in LinkKind) /\ (\A o \in 1..Offers[proto] : offer[o] \in OfferKind)
      /\ (\A u \in Users : user[u] \in UserKind)
  BY DEF ProxyTypeOK
<1>6. \A o \in Conns : link[o].ids \in Nat /\ link[o].streams \in Nat
  BY <1>5 DEF LinkKind
<1> QED BY <1>1, <1>2, <1>3, <1>4, <1>5, <1>6

-----------------------------------------------------------------------------
(* What the helpers do to one connection *)

\* releaseStream: one stream less, or the end of a connection that nobody uses.
LEMMA StreamFrees ==
  ASSUME ProxyTypeOK, NEW l \in LinkKind, NEW keep \in BOOLEAN, l.streams > 0
  PROVE  LET r == StreamFreed(l, keep) IN
         /\ r \in LinkKind /\ r.streams = l.streams - 1 /\ r.ids = l.ids /\ r.udp = l.udp
         /\ \/ r.life = l.life /\ r.lost = l.lost /\ r.doomed = l.doomed /\ r.idle = l.idle
            \/ l.life = "open" /\ r.life = "closed" /\ r.streams = 0 /\ NoSessions(l)
<1> DEFINE m == [l EXCEPT !.streams = @ - 1]
           r == StreamFreed(l, keep)
<1>1. m \in LinkKind /\ m.streams = l.streams - 1 /\ m.ids = l.ids /\ m.udp = l.udp
      /\ m.life = l.life /\ m.lost = l.lost /\ m.doomed = l.doomed /\ m.idle = l.idle
  BY DEF LinkKind
<1>2. r = IF closeIdle /\ ~keep /\ IdleNow(m) THEN Closed(m) ELSE m
  BY DEF StreamFreed
<1> HIDE DEF m, r
<1>3. CASE closeIdle /\ ~keep /\ IdleNow(m)
  <2>1. r = [m EXCEPT !.life = "closed", !.idle = IdleNow(m), !.lost = FALSE, !.doomed = FALSE]
    BY <1>2, <1>3 DEF Closed
  <2>2. IdleNow(m) \in BOOLEAN /\ m.life = "open" /\ m.streams = 0 /\ NoSessions(m)
    BY <1>3 DEF IdleNow
  <2>3. NoSessions(l)
    BY <1>1, <2>2 DEF NoSessions
  <2>4. r \in LinkKind /\ r.life = "closed" /\ r.streams = m.streams /\ r.ids = m.ids /\ r.udp = m.udp
    BY <1>1, <2>1, <2>2 DEF LinkKind
  <2> QED BY <1>1, <2>2, <2>3, <2>4 DEF r
<1>4. CASE ~(closeIdle /\ ~keep /\ IdleNow(m))
  BY <1>1, <1>2, <1>4 DEF r
<1> QED BY <1>3, <1>4

\* releaseUDPSession, the same.
LEMMA SessionFrees ==
  ASSUME ProxyTypeOK, NEW l \in LinkKind, NEW id \in IdSpace
  PROVE  LET r == SessionFreed(l, id) IN
         /\ r \in LinkKind /\ r.streams = l.streams /\ r.ids = l.ids /\ r.udp = [l.udp EXCEPT ![id] = Nobody]
         /\ \/ r.life = l.life /\ r.lost = l.lost /\ r.doomed = l.doomed /\ r.idle = l.idle
            \/ l.life = "open" /\ r.life = "closed" /\ r.streams = 0 /\ NoSessions(r)
<1> DEFINE m == [l EXCEPT !.udp[id] = Nobody]
           r == SessionFreed(l, id)
<1>1. m \in LinkKind /\ m.streams = l.streams /\ m.ids = l.ids /\ m.udp = [l.udp EXCEPT ![id] = Nobody]
      /\ m.life = l.life /\ m.lost = l.lost /\ m.doomed = l.doomed /\ m.idle = l.idle
  BY DEF LinkKind
<1>2. r = IF closeIdle /\ IdleNow(m) THEN Closed(m) ELSE m
  BY DEF SessionFreed
<1> HIDE DEF m, r
<1>3. CASE closeIdle /\ IdleNow(m)
  <2>1. r = [m EXCEPT !.life = "closed", !.idle = IdleNow(m), !.lost = FALSE, !.doomed = FALSE]
    BY <1>2, <1>3 DEF Closed
  <2>2. IdleNow(m) \in BOOLEAN /\ m.life = "open" /\ m.streams = 0 /\ NoSessions(m)
    BY <1>3 DEF IdleNow
  <2>3. r \in LinkKind /\ r.life = "closed" /\ r.streams = m.streams /\ r.ids = m.ids /\ r.udp = m.udp
    BY <1>1, <2>1, <2>2 DEF LinkKind
  <2>4. NoSessions(r)
    BY <2>2, <2>3 DEF NoSessions
  <2> QED BY <1>1, <2>2, <2>3, <2>4 DEF r
<1>4. CASE ~(closeIdle /\ IdleNow(m))
  BY <1>1, <1>2, <1>4 DEF r
<1> QED BY <1>3, <1>4

\* A session registered under the next number.
LEMMA SessionIsTaken ==
  ASSUME ProxyTypeOK, NEW l \in LinkKind, NEW u \in Users
  PROVE  LET r == SessionTaken(l, u) IN
         /\ r \in LinkKind /\ r.streams = l.streams /\ r.ids = l.ids + 1
         /\ r.udp = [l.udp EXCEPT ![l.ids % SessionIds] = u] /\ l.ids % SessionIds \in IdSpace
         /\ r.life = l.life /\ r.lost = l.lost /\ r.doomed = l.doomed /\ r.idle = l.idle
<1>1. SessionIds \in Nat /\ SessionIds > 0 /\ l.ids \in Nat
  BY ProxyNumbers DEF LinkKind
<1>2. l.ids % SessionIds \in IdSpace
  BY <1>1 DEF IdSpace
<1> DEFINE i == l.ids % SessionIds
<1>3. SessionTaken(l, u) = [l EXCEPT !.udp[i] = u, !.ids = @ + 1]
  BY DEF SessionTaken
<1>4. i \in IdSpace
  BY <1>2
<1> HIDE DEF i
<1> DEFINE owned == [l.udp EXCEPT ![i] = u]
           r == [l EXCEPT !.udp = owned, !.ids = @ + 1]
<1>5. owned \in [IdSpace -> Users \cup {Nobody}]
  BY <1>4 DEF LinkKind
<1>6. l \in LinkKind
  OBVIOUS
<1>7. SessionTaken(l, u) = r
  BY <1>3
<1>8. l.ids + 1 \in Nat /\ Users \cup {Nobody} # {}
  BY <1>1
<1> HIDE DEF owned
<1>9. r \in LinkKind /\ r.streams = l.streams /\ r.ids = l.ids + 1 /\ r.udp = owned
      /\ r.life = l.life /\ r.lost = l.lost /\ r.doomed = l.doomed /\ r.idle = l.idle
  BY <1>8, <1>5, <1>6 DEF LinkKind
<1> HIDE DEF r
<1> QED BY <1>2, <1>7, <1>9 DEF i, owned

\* A connection closed, and one closed with an error.
LEMMA LinkIsEnded ==
  ASSUME ProxyTypeOK, NEW l \in LinkKind
  PROVE  /\ LinkEnded(l) \in LinkKind /\ LinkEnded(l).streams = l.streams /\ LinkEnded(l).ids = l.ids
         /\ LinkEnded(l).life = "closed" /\ ~LinkEnded(l).idle
         /\ Closed(l) \in LinkKind /\ Closed(l).streams = l.streams /\ Closed(l).ids = l.ids
         /\ Closed(l).life = "closed"
<1> DEFINE c == [l EXCEPT !.life = "closed", !.idle = IdleNow(l), !.lost = FALSE, !.doomed = FALSE]
           free == [i \in IdSpace |-> Nobody]
<1>1. IdleNow(l) \in BOOLEAN
  BY DEF IdleNow
<1>2. c \in LinkKind /\ c.streams = l.streams /\ c.ids = l.ids /\ c.life = "closed"
  BY <1>1 DEF LinkKind
<1>3. free \in [IdSpace -> Users \cup {Nobody}]
  OBVIOUS
<1>4. LinkEnded(l) = [c EXCEPT !.idle = FALSE, !.udp = free] /\ Closed(l) = c
  BY DEF LinkEnded, Closed
<1> HIDE DEF c, free
<1> QED BY <1>2, <1>3, <1>4 DEF LinkKind

-----------------------------------------------------------------------------
(* What keeps each part *)

\* A step that moves no offer, and no connection but on to its end.
LEMMA OwnersKept ==
  ASSUME ProxyTypeOK, OneDial, LinksAreOwned, UNCHANGED <<proto, shared, pending, offer>>,
         \A o \in Conns : \/ /\ link'[o].life = link[o].life /\ (link[o].lost => link'[o].lost)
                             /\ (link[o].doomed => link'[o].doomed)
                          \/ link[o].life = "open" /\ link'[o].life = "closed"
  PROVE  OneDial' /\ LinksAreOwned'
<1>1. shared \in Conns /\ \A o \in 1..Offers[proto] : o \in Conns
  BY ProxyNumbers DEF ProxyTypeOK
<1>2. OneDial'
  BY <1>1 DEF OneDial, Active, Installed
<1>3. LinksAreOwned'
  BY <1>1 DEF LinksAreOwned
<1> QED BY <1>2, <1>3

\* A step that leaves the users of connection o as they are, and what they see of it.
LEMMA CountsKept ==
  ASSUME ProxyTypeOK, NEW o \in 1..Offers[proto], UsersAreCounted(o), Streams(o)' = Streams(o),
         \A u \in Users : InSession(u, o)' <=> InSession(u, o),
         \A u \in Users : InSession(u, o) => user'[u].id = user[u].id,
         link'[o].streams = link[o].streams, link'[o].ids = link[o].ids,
         link'[o].life # "closed" => link[o].life # "closed" /\ link'[o].udp = link[o].udp,
         link'[o].idle => link[o].idle /\ link'[o].life = "closed"
  PROVE  UsersAreCounted(o)'
<1>1. \A u \in Users : Uses(u, o) <=> u \in Streams(o) \/ InSession(u, o)
  BY DEF Uses, Streams, InSession
<1>2. \A u \in Users : Uses(u, o)' <=> u \in Streams(o)' \/ InSession(u, o)'
  BY DEF Uses, Streams, InSession
<1>3. \A u \in Users : Uses(u, o)' <=> Uses(u, o)
  BY <1>1, <1>2
<1>4. Wrapped(o)' <=> Wrapped(o)
  BY DEF Wrapped
<1>5. link'[o].streams = Cardinality(Streams(o)')
  BY DEF UsersAreCounted
<1>6. ASSUME ~Wrapped(o)
      PROVE  /\ link'[o].idle => \A u \in Users : ~Uses(u, o)'
             /\ \A u \in Users : InSession(u, o)' => user'[u].id < link'[o].ids
             /\ link'[o].life # "closed" =>
                  \A i \in IdSpace, u \in Users : link'[o].udp[i] = u <=> InSession(u, o)' /\ user'[u].id = i
  BY <1>3, <1>6 DEF UsersAreCounted
<1> QED BY <1>4, <1>5, <1>6 DEF UsersAreCounted

\* A user that holds no connection and comes to hold none is seen by none.
LEMMA UnseenByLinks ==
  ASSUME ProxyTypeOK, NEW u \in Users, NEW o \in 1..Offers[proto], NEW v, user' = [user EXCEPT ![u] = v],
         ~Uses(u, o), v.at \in {"acquired", "stream", "session"} => v.link # o
  PROVE  /\ Streams(o)' = Streams(o)
         /\ \A w \in Users : InSession(w, o)' <=> InSession(w, o)
         /\ \A w \in Users : InSession(w, o) => user'[w].id = user[w].id
<1>1. user \in [Users -> UserKind]
  BY DEF ProxyTypeOK
<1>2. user'[u] = v /\ \A w \in Users : w # u => user'[w] = user[w]
  BY <1>1
<1>3. \A w \in Users : w \in Streams(o)' <=> w \in Streams(o)
  BY <1>2 DEF Streams, Uses
<1>4. \A w \in Users : (InSession(w, o)' <=> InSession(w, o)) /\ (InSession(w, o) => user'[w].id = user[w].id)
  BY <1>2 DEF InSession, Uses
<1> QED BY <1>3, <1>4 DEF Streams

-----------------------------------------------------------------------------
(* The steps of a user that holds a connection *)

\* User u holds connection k, and nobody else sees the step.
LEMMA OthersAreKept ==
  ASSUME ProxyIInv, NEW u \in Users, NEW k \in 1..Offers[proto], user[u].link = k,
         NEW v \in UserKind, v.at = "idle" \/ v.link = k, user' = [user EXCEPT ![u] = v],
         NEW l \in LinkKind, link' = [link EXCEPT ![k] = l],
         l.life = "open" => link[k].life = "open",
         UNCHANGED <<proto, shared, pending, closeIdle, offer>>,
         \/ l.life = link[k].life /\ (link[k].lost => l.lost) /\ (link[k].doomed => l.doomed)
         \/ link[k].life = "open" /\ l.life = "closed",
         UsersAreCounted(k)'
  PROVE  ProxyIInv'
<1>1. ProxyTypeOK /\ OneDial /\ LinksAreOwned /\ \A o \in 1..Offers[proto] : UsersAreCounted(o)
  BY DEF ProxyIInv
<1>2. k \in Conns /\ k # 0 /\ Conns' = Conns /\ \A o \in 1..Offers[proto] : o \in Conns
  BY <1>1, ProxyNumbers DEF Conns
<1>3. link \in [Conns -> LinkKind] /\ user \in [Users -> UserKind]
  BY <1>1 DEF ProxyTypeOK
<1>4. link'[k] = l /\ \A o \in Conns : o # k => link'[o] = link[o]
  BY <1>2, <1>3
<1>5. user'[u] = v /\ \A w \in Users : w # u => user'[w] = user[w]
  BY <1>3
<1>6. ProxyTypeOK'
  <2>1. link' \in [Conns -> LinkKind] /\ user' \in [Users -> UserKind] /\ link'[0].life = "none"
    BY <1>1, <1>2, <1>3, <1>4 DEF ProxyTypeOK, Conns
  <2>2. \A w \in Users : user'[w].at # "idle" => user'[w].link # 0
    BY <1>1, <1>2, <1>5 DEF ProxyTypeOK
  <2>3. UserKind' = UserKind
    BY <1>2 DEF UserKind
  <2> QED BY <1>1, <1>2, <2>1, <2>2, <2>3 DEF ProxyTypeOK
<1>7. OneDial' /\ LinksAreOwned'
  <2>1. \A o \in Conns : \/ /\ link'[o].life = link[o].life /\ (link[o].lost => link'[o].lost)
                            /\ (link[o].doomed => link'[o].doomed)
                         \/ link[o].life = "open" /\ link'[o].life = "closed"
    BY <1>4
  <2> QED BY <1>1, <2>1, OwnersKept
<1>8. ASSUME NEW o \in 1..Offers[proto], o # k PROVE UsersAreCounted(o)'
  <2>1. ~Uses(u, o) /\ (v.at \in {"acquired", "stream", "session"} => v.link # o)
    BY <1>8 DEF Uses
  <2>2. /\ Streams(o)' = Streams(o)
        /\ \A w \in Users : InSession(w, o)' <=> InSession(w, o)
        /\ \A w \in Users : InSession(w, o) => user'[w].id = user[w].id
    BY <1>1, <2>1, UnseenByLinks
  <2>3. link'[o] = link[o] /\ UsersAreCounted(o)
    BY <1>1, <1>2, <1>4, <1>8
  <2>4. link[o].idle => link[o].life = "closed"
    BY <2>3 DEF UsersAreCounted
  <2> QED BY <1>1, <2>2, <2>3, <2>4, CountsKept
<1>9. \A o \in 1..Offers[proto] : UsersAreCounted(o)'
  BY <1>8
<1> QED BY <1>6, <1>7, <1>9 DEF ProxyIInv

\* Nobody uses a connection that counts no stream and holds no session.
LEMMA IdleIsUnused ==
  ASSUME ProxyTypeOK, NEW o \in 1..Offers[proto], UsersAreCounted(o), IdleNow(link[o]), ~Wrapped(o)
  PROVE  \A u \in Users : ~Uses(u, o)
<1>1. IsFiniteSet(Streams(o))
  BY ProxyNumbers, FS_Subset DEF Streams
<1>2. Cardinality(Streams(o)) = 0
  BY DEF UsersAreCounted, IdleNow
<1>3. Streams(o) = {}
  BY <1>1, <1>2, FS_EmptySet
<1>4. ASSUME NEW u \in Users, InSession(u, o) PROVE FALSE
  <2>1. user[u].id \in IdSpace
    BY ProxyNumbers DEF UserKind
  <2>2. link[o].udp[user[u].id] = u
    BY <1>4, <2>1 DEF UsersAreCounted, IdleNow
  <2>3. link[o].udp[user[u].id] = Nobody
    BY <2>1 DEF IdleNow, NoSessions
  <2> QED BY <2>2, <2>3, ProxyNumbers
<1> QED BY <1>3, <1>4 DEF Uses, Streams, InSession

\* What the invariant says of user u, which holds something, and of its connection.
LEMMA HoldersConnection ==
  ASSUME ProxyIInv, NEW u \in Users, user[u].at # "idle"
  PROVE  LET k == user[u].link IN
         /\ k \in 1..Offers[proto] /\ k \in Conns /\ link[k] \in LinkKind /\ user[u] \in UserKind
         /\ UsersAreCounted(k) /\ link \in [Conns -> LinkKind] /\ user \in [Users -> UserKind]
         /\ link[k].ids \in Nat /\ link[k].streams \in Nat /\ IsFiniteSet(Streams(k))
<1>1. ProxyTypeOK /\ \A o \in 1..Offers[proto] : UsersAreCounted(o)
  BY DEF ProxyIInv
<1>2. user[u] \in UserKind /\ user[u].link # 0 /\ user \in [Users -> UserKind] /\ link \in [Conns -> LinkKind]
  BY <1>1 DEF ProxyTypeOK
<1>3. user[u].link \in Conns
  BY <1>2 DEF UserKind
<1>4. user[u].link \in 1..Offers[proto]
  BY <1>1, <1>2, <1>3, ProxyNumbers
<1>5. IsFiniteSet(Streams(user[u].link))
  BY <1>1, ProxyNumbers, FS_Subset DEF Streams
<1>6. link[user[u].link] \in LinkKind /\ link[user[u].link].ids \in Nat /\ link[user[u].link].streams \in Nat
  BY <1>1, <1>3, ProxyNumbers
<1> QED BY <1>1, <1>2, <1>3, <1>4, <1>5, <1>6

\* User u gives a stream of its connection back.
LEMMA LeavingIsCounted ==
  ASSUME ProxyIInv, NEW u \in Users, user[u].at \in {"acquired", "stream"}, NEW keep \in BOOLEAN,
         user' = [user EXCEPT ![u] = IdleUser],
         link' = [link EXCEPT ![user[u].link] = StreamFreed(@, keep)],
         UNCHANGED <<proto, shared, pending, closeIdle, offer>>
  PROVE  ProxyIInv'
<1>1. ProxyTypeOK
  BY DEF ProxyIInv
<1>2. PICK k \in 1..Offers[proto] : k = user[u].link
  BY HoldersConnection
<1>3. /\ k \in Conns /\ link[k] \in LinkKind /\ UsersAreCounted(k) /\ link \in [Conns -> LinkKind]
      /\ user \in [Users -> UserKind] /\ link[k].ids \in Nat /\ link[k].streams \in Nat /\ IsFiniteSet(Streams(k))
  BY <1>2, HoldersConnection
<1>4. u \in Streams(k)
  BY <1>2 DEF Streams
<1>5. link[k].streams = Cardinality(Streams(k)) /\ link[k].streams > 0
  BY <1>3, <1>4, FS_EmptySet DEF UsersAreCounted
<1>6. PICK l \in LinkKind : l = StreamFreed(link[k], keep)
  BY <1>1, <1>3, <1>5, StreamFrees
<1>7. /\ l.streams = link[k].streams - 1 /\ l.ids = link[k].ids /\ l.udp = link[k].udp
      /\ \/ l.life = link[k].life /\ l.lost = link[k].lost /\ l.doomed = link[k].doomed /\ l.idle = link[k].idle
         \/ link[k].life = "open" /\ l.life = "closed" /\ l.streams = 0 /\ NoSessions(link[k])
  BY <1>1, <1>3, <1>5, <1>6, StreamFrees
<1>8. link' = [link EXCEPT ![k] = l] /\ link'[k] = l
  BY <1>2, <1>3, <1>6
<1>9. user'[u] = IdleUser /\ \A w \in Users : w # u => user'[w] = user[w]
  BY <1>3
<1>10. Streams(k)' = Streams(k) \ {u}
  BY <1>9 DEF Streams, IdleUser
<1>11. l.streams = Cardinality(Streams(k)')
  BY <1>3, <1>4, <1>5, <1>7, <1>10, FS_RemoveElement
<1>12. \A w \in Users : (InSession(w, k)' <=> InSession(w, k)) /\ (InSession(w, k) => user'[w] = user[w])
  BY <1>9 DEF InSession, IdleUser
<1>13. \A w \in Users : Uses(w, k)' => Uses(w, k) /\ (w \in Streams(k)' \/ InSession(w, k))
  BY <1>9 DEF Uses, Streams, InSession, IdleUser
<1>14. UsersAreCounted(k)'
  <2>1. l.idle => l.life = "closed"
    BY <1>3, <1>7 DEF UsersAreCounted
  <2>2. ASSUME l.streams = 0, NoSessions(link[k]), link[k].life = "open", ~Wrapped(k), NEW w \in Users
        PROVE  ~Uses(w, k)'
    <3>1. IsFiniteSet(Streams(k)')
      BY <1>3, <1>10, FS_Subset
    <3>2. Streams(k)' = {}
      BY <1>11, <2>2, <3>1, FS_EmptySet
    <3>3. ~InSession(w, k)
      <4>1. SUFFICES ASSUME InSession(w, k) PROVE FALSE
        OBVIOUS
      <4>2. user[w].id \in IdSpace
        BY <1>1, ProxyNumbers DEF UserKind
      <4>3. link[k].udp[user[w].id] = w
        BY <1>3, <2>2, <4>1, <4>2 DEF UsersAreCounted
      <4> QED BY <1>1, <2>2, <4>2, <4>3, ProxyNumbers DEF NoSessions
    <3> QED BY <1>13, <3>2, <3>3
  <2>3. ASSUME ~Wrapped(k)
        PROVE  /\ l.idle => \A w \in Users : ~Uses(w, k)'
               /\ \A w \in Users : InSession(w, k)' => user'[w].id < l.ids
               /\ l.life # "closed" =>
                    \A i \in IdSpace, w \in Users : l.udp[i] = w <=> InSession(w, k)' /\ user'[w].id = i
    <3>1. l.idle => \A w \in Users : ~Uses(w, k)'
      BY <1>3, <1>7, <1>13, <2>2, <2>3 DEF UsersAreCounted
    <3>2. \A w \in Users : InSession(w, k)' => user'[w].id < l.ids
      BY <1>3, <1>7, <1>12, <2>3 DEF UsersAreCounted
    <3>3. l.life # "closed" => link[k].life # "closed"
      BY <1>7
    <3>4. l.life # "closed" =>
            \A i \in IdSpace, w \in Users : l.udp[i] = w <=> InSession(w, k)' /\ user'[w].id = i
      BY <1>3, <1>7, <1>12, <2>3, <3>3 DEF UsersAreCounted
    <3> QED BY <3>1, <3>2, <3>4
  <2>4. Wrapped(k)' <=> Wrapped(k)
    BY <1>7, <1>8 DEF Wrapped
  <2> QED BY <1>8, <1>11, <2>1, <2>3, <2>4 DEF UsersAreCounted
<1>15. IdleUser \in UserKind /\ IdleUser.at = "idle"
  BY <1>1, ProxyNumbers DEF IdleUser
<1>16. l.life = "open" => link[k].life = "open"
  BY <1>7
<1>17. \/ l.life = link[k].life /\ (link[k].lost => l.lost) /\ (link[k].doomed => l.doomed)
       \/ link[k].life = "open" /\ l.life = "closed"
  BY <1>7
<1>18. user[u].link = k /\ link' = [link EXCEPT ![k] = l]
  BY <1>2, <1>8
<1> QED BY <1>14, <1>15, <1>16, <1>17, <1>18, OthersAreKept

\* User u closes the session it holds.
LEMMA SessionsEndIsCounted ==
  ASSUME ProxyIInv, NEW u \in Users, ClosesSession(u)
  PROVE  ProxyIInv'
<1>1. ProxyTypeOK /\ user[u].at = "session" /\ user' = [user EXCEPT ![u] = IdleUser]
  BY DEF ProxyIInv, ClosesSession
<1>2. PICK k \in 1..Offers[proto] : k = user[u].link
  BY <1>1, HoldersConnection
<1>3. /\ k \in Conns /\ link[k] \in LinkKind /\ UsersAreCounted(k) /\ link \in [Conns -> LinkKind]
      /\ user \in [Users -> UserKind] /\ link[k].ids \in Nat /\ link[k].streams \in Nat /\ IsFiniteSet(Streams(k))
  BY <1>1, <1>2, HoldersConnection
<1>4. PICK id \in IdSpace : id = user[u].id
  BY <1>3 DEF UserKind
<1>5. PICK l \in LinkKind : l = SessionFreed(link[k], id)
  BY <1>1, <1>3, SessionFrees
<1>6. /\ l.streams = link[k].streams /\ l.ids = link[k].ids /\ l.udp = [link[k].udp EXCEPT ![id] = Nobody]
      /\ \/ l.life = link[k].life /\ l.lost = link[k].lost /\ l.doomed = link[k].doomed /\ l.idle = link[k].idle
         \/ link[k].life = "open" /\ l.life = "closed" /\ l.streams = 0 /\ NoSessions(l)
  BY <1>1, <1>3, <1>5, SessionFrees
<1>7. link' = [link EXCEPT ![k] = l] /\ link'[k] = l
  BY <1>2, <1>3, <1>4, <1>5 DEF ClosesSession
<1>8. user'[u] = IdleUser /\ \A w \in Users : w # u => user'[w] = user[w]
  BY <1>1, <1>3
<1>9. Streams(k)' = Streams(k)
  BY <1>1, <1>8 DEF Streams, IdleUser
<1>10. l.streams = Cardinality(Streams(k)') /\ link[k].streams = Cardinality(Streams(k))
  BY <1>3, <1>6, <1>9 DEF UsersAreCounted
<1>11. /\ InSession(u, k) /\ ~InSession(u, k)'
       /\ \A w \in Users : w # u => (InSession(w, k)' <=> InSession(w, k)) /\ user'[w] = user[w]
  BY <1>1, <1>2, <1>8 DEF InSession, IdleUser
<1>12. \A w \in Users : Uses(w, k)' => Uses(w, k) /\ w # u /\ (w \in Streams(k) \/ InSession(w, k))
  BY <1>8 DEF Uses, Streams, InSession, IdleUser
<1>13. UsersAreCounted(k)'
  <2>1. l.idle => l.life = "closed"
    BY <1>3, <1>6 DEF UsersAreCounted
  <2>2. ASSUME ~Wrapped(k), l.life # "closed" \/ link[k].life = "open", NEW i \in IdSpace, NEW w \in Users
        PROVE  l.udp[i] = w <=> InSession(w, k)' /\ user'[w].id = i
    <3>1. link[k].life # "closed"
      BY <1>6, <2>2
    <3>2. \A j \in IdSpace, v \in Users : link[k].udp[j] = v <=> InSession(v, k) /\ user[v].id = j
      BY <1>3, <2>2, <3>1 DEF UsersAreCounted
    <3>3. Nobody # w /\ link[k].udp \in [IdSpace -> Users \cup {Nobody}]
      BY <1>1, <1>3, ProxyNumbers DEF LinkKind
    <3>4. CASE i = id
      <4>1. l.udp[i] = Nobody
        BY <1>6, <3>3, <3>4
      <4>2. link[k].udp[i] = u
        BY <1>4, <1>11, <3>2, <3>4
      <4> QED BY <1>11, <3>2, <3>3, <4>1, <4>2
    <3>5. CASE i # id
      <4>1. l.udp[i] = link[k].udp[i]
        BY <1>6, <3>3, <3>5
      <4> QED BY <1>4, <1>11, <3>2, <3>5, <4>1
    <3> QED BY <3>4, <3>5
  <2>3. ASSUME l.streams = 0, NoSessions(l), link[k].life = "open", ~Wrapped(k), NEW w \in Users
        PROVE  ~Uses(w, k)'
    <3>1. Streams(k) = {}
      BY <1>3, <1>6, <1>10, <2>3, FS_EmptySet
    <3>2. ~InSession(w, k)'
      <4>1. user'[w].id \in IdSpace
        BY <1>1, <1>4, <1>8, ProxyNumbers DEF UserKind
      <4>2. l.udp[user'[w].id] = Nobody
        BY <2>3, <4>1 DEF NoSessions
      <4> QED BY <1>1, <2>2, <2>3, <4>1, <4>2, ProxyNumbers
    <3> QED BY <1>11, <1>12, <3>1, <3>2
  <2>4. ASSUME ~Wrapped(k)
        PROVE  /\ l.idle => \A w \in Users : ~Uses(w, k)'
               /\ \A w \in Users : InSession(w, k)' => user'[w].id < l.ids
    <3>1. l.idle => \A w \in Users : ~Uses(w, k)'
      BY <1>3, <1>6, <1>12, <2>3, <2>4 DEF UsersAreCounted
    <3>2. \A w \in Users : InSession(w, k)' => user'[w].id < l.ids
      BY <1>3, <1>6, <1>11, <2>4 DEF UsersAreCounted
    <3> QED BY <3>1, <3>2
  <2>5. Wrapped(k)' <=> Wrapped(k)
    BY <1>6, <1>7 DEF Wrapped
  <2> QED BY <1>7, <1>10, <2>1, <2>2, <2>4, <2>5 DEF UsersAreCounted
<1>14. IdleUser \in UserKind /\ IdleUser.at = "idle"
  BY <1>1, ProxyNumbers DEF IdleUser
<1>15. l.life = "open" => link[k].life = "open"
  BY <1>6
<1>16. \/ l.life = link[k].life /\ (link[k].lost => l.lost) /\ (link[k].doomed => l.doomed)
       \/ link[k].life = "open" /\ l.life = "closed"
  BY <1>6
<1>17. user[u].link = k /\ UNCHANGED <<proto, shared, pending, closeIdle, offer>>
  BY <1>2 DEF ClosesSession
<1> QED BY <1>1, <1>7, <1>13, <1>14, <1>15, <1>16, <1>17, OthersAreKept

\* User u takes a stream of the connection it was offered, or turns back to offer.
LEMMA AcquiringIsCounted ==
  ASSUME ProxyIInv, NEW u \in Users, Acquires(u)
  PROVE  ProxyIInv'
<1>1. ProxyTypeOK /\ user[u].at = "offered" /\ UNCHANGED <<proto, shared, pending, closeIdle, offer>>
  BY DEF ProxyIInv, Acquires
<1>2. PICK k \in 1..Offers[proto] : k = user[u].link
  BY <1>1, HoldersConnection
<1>3. /\ k \in Conns /\ link[k] \in LinkKind /\ UsersAreCounted(k) /\ link \in [Conns -> LinkKind]
      /\ user \in [Users -> UserKind] /\ user[u] \in UserKind
      /\ link[k].ids \in Nat /\ link[k].streams \in Nat /\ IsFiniteSet(Streams(k))
  BY <1>1, <1>2, HoldersConnection
<1>4. link[k].idle => link[k].life = "closed"
  BY <1>3 DEF UsersAreCounted
<1>5. CASE link[k].life = "open"
  <2> DEFINE l == [link[k] EXCEPT !.streams = @ + 1]
             v == [user[u] EXCEPT !.at = "acquired"]
  <2>1. /\ l \in LinkKind /\ l.streams = link[k].streams + 1 /\ l.ids = link[k].ids /\ l.udp = link[k].udp
        /\ l.life = link[k].life /\ l.lost = link[k].lost /\ l.doomed = link[k].doomed /\ l.idle = link[k].idle
    BY <1>3 DEF LinkKind
  <2>2. v \in UserKind /\ v.at = "acquired" /\ v.link = k
    BY <1>2, <1>3 DEF UserKind
  <2>3. user' = [user EXCEPT ![u] = v] /\ link' = [link EXCEPT ![k] = l]
    BY <1>2, <1>3, <1>5 DEF Acquires, StillOpen
  <2> HIDE DEF l, v
  <2>4. user'[u] = v /\ (\A w \in Users : w # u => user'[w] = user[w]) /\ link'[k] = l
    BY <1>3, <2>3
  <2>5. Streams(k)' = Streams(k) \cup {u} /\ u \notin Streams(k)
    BY <1>1, <2>2, <2>4 DEF Streams
  <2>6. l.streams = Cardinality(Streams(k)')
    <3>1. Cardinality(Streams(k) \cup {u}) = Cardinality(Streams(k)) + 1
      BY <1>3, <2>5, FS_AddElement
    <3>2. link[k].streams = Cardinality(Streams(k))
      BY <1>3 DEF UsersAreCounted
    <3> QED BY <2>1, <2>5, <3>1, <3>2
  <2>7. \A w \in Users : (InSession(w, k)' <=> InSession(w, k)) /\ (InSession(w, k) => user'[w].id = user[w].id)
    BY <1>1, <2>2, <2>4 DEF InSession
  <2>8. ~l.idle /\ (Wrapped(k)' <=> Wrapped(k))
    BY <1>4, <1>5, <2>1, <2>4 DEF Wrapped
  <2>9. ASSUME ~Wrapped(k)
        PROVE  /\ \A w \in Users : InSession(w, k)' => user'[w].id < l.ids
               /\ \A i \in IdSpace, w \in Users : l.udp[i] = w <=> InSession(w, k)' /\ user'[w].id = i
    BY <1>3, <1>5, <2>1, <2>7, <2>9 DEF UsersAreCounted
  <2>10. UsersAreCounted(k)'
    BY <2>4, <2>6, <2>8, <2>9 DEF UsersAreCounted
  <2>11. user[u].link = k
    BY <1>2
  <2> QED BY <1>1, <2>1, <2>2, <2>3, <2>10, <2>11, OthersAreKept
<1>6. CASE link[k].life # "open"
  <2> DEFINE v == [user[u] EXCEPT !.at = "idle", !.link = 0]
  <2>1. v \in UserKind /\ v.at = "idle"
    BY <1>1, <1>3, ProxyNumbers DEF UserKind
  <2>2. user' = [user EXCEPT ![u] = v] /\ link' = link
    BY <1>2, <1>6 DEF Acquires, StillOpen
  <2> HIDE DEF v
  <2>3. link' = [link EXCEPT ![k] = link[k]]
    BY <1>3, <2>2
  <2>4. ~Uses(u, k)
    BY <1>1 DEF Uses
  <2>5. UsersAreCounted(k)'
    BY <1>1, <1>3, <1>4, <2>1, <2>2, <2>4, UnseenByLinks, CountsKept
  <2>6. user[u].link = k
    BY <1>2
  <2> QED BY <1>1, <1>3, <2>1, <2>2, <2>3, <2>5, <2>6, OthersAreKept
<1> QED BY <1>5, <1>6

\* User u has the stream it counted.
LEMMA OpeningIsCounted ==
  ASSUME ProxyIInv, NEW u \in Users, OpensStream(u)
  PROVE  ProxyIInv'
<1>1. ProxyTypeOK /\ user[u].at = "acquired" /\ UNCHANGED <<proto, shared, pending, closeIdle, offer>>
  BY DEF ProxyIInv, OpensStream
<1>2. CASE user' = [user EXCEPT ![u].at = "stream"] /\ UNCHANGED link
  <2>1. PICK k \in 1..Offers[proto] : k = user[u].link
    BY <1>1, HoldersConnection
  <2>2. /\ k \in Conns /\ link[k] \in LinkKind /\ UsersAreCounted(k) /\ link \in [Conns -> LinkKind]
        /\ user \in [Users -> UserKind] /\ user[u] \in UserKind
    BY <1>1, <2>1, HoldersConnection
  <2> DEFINE v == [user[u] EXCEPT !.at = "stream"]
  <2>3. v \in UserKind /\ v.at = "stream" /\ v.link = k /\ user' = [user EXCEPT ![u] = v]
    BY <1>2, <2>1, <2>2 DEF UserKind
  <2> HIDE DEF v
  <2>4. user'[u] = v /\ (\A w \in Users : w # u => user'[w] = user[w])
    BY <2>2, <2>3
  <2>5. Streams(k)' = Streams(k)
    BY <1>1, <2>1, <2>3, <2>4 DEF Streams
  <2>6. \A w \in Users : (InSession(w, k)' <=> InSession(w, k)) /\ (InSession(w, k) => user'[w].id = user[w].id)
    BY <1>1, <2>3, <2>4 DEF InSession
  <2>7. (link[k].idle => link[k].life = "closed") /\ link' = link
    BY <1>2, <2>2 DEF UsersAreCounted
  <2>8. UsersAreCounted(k)'
    BY <1>1, <2>2, <2>5, <2>6, <2>7, CountsKept
  <2>9. link' = [link EXCEPT ![k] = link[k]] /\ user[u].link = k
    BY <2>1, <2>2, <2>7
  <2> QED BY <1>1, <2>2, <2>3, <2>8, <2>9, OthersAreKept
<1>3. CASE user' = [user EXCEPT ![u] = IdleUser] /\ link' = [link EXCEPT ![user[u].link] = StreamFreed(@, FALSE)]
  BY <1>1, <1>3, LeavingIsCounted
<1> QED BY <1>2, <1>3 DEF OpensStream

\* User u registers its session; of Hysteria, the stream it asked with is given back.
LEMMA ListeningIsCounted ==
  ASSUME ProxyIInv, NEW u \in Users, Listens(u)
  PROVE  ProxyIInv'
<1> DEFINE asked == proto = "hysteria"
<1>1. /\ ProxyTypeOK /\ user[u].at # "idle" /\ user[u].at = (IF asked THEN "acquired" ELSE "offered")
      /\ UNCHANGED <<proto, shared, pending, closeIdle, offer>>
  BY DEF ProxyIInv, Listens
<1>2. PICK k \in 1..Offers[proto] : k = user[u].link
  BY <1>1, HoldersConnection
<1>3. /\ k \in Conns /\ link[k] \in LinkKind /\ UsersAreCounted(k) /\ link \in [Conns -> LinkKind]
      /\ user \in [Users -> UserKind] /\ user[u] \in UserKind
      /\ link[k].ids \in Nat /\ link[k].streams \in Nat /\ IsFiniteSet(Streams(k))
  BY <1>1, <1>2, HoldersConnection
<1>4. link[k].idle => link[k].life = "closed"
  BY <1>3 DEF UsersAreCounted
<1>5. user[u].link = k
  BY <1>2
<1>6. CASE link[k].life # "open" /\ asked
  <2>1. /\ user' = [user EXCEPT ![u] = IdleUser]
        /\ link' = [link EXCEPT ![user[u].link] = StreamFreed(@, FALSE)]
    BY <1>2, <1>3, <1>6 DEF Listens
  <2> QED BY <1>1, <1>6, <2>1, LeavingIsCounted
<1>7. CASE link[k].life # "open" /\ ~asked
  <2>1. user' = [user EXCEPT ![u] = IdleUser] /\ link' = [link EXCEPT ![k] = link[k]]
    BY <1>2, <1>3, <1>7 DEF Listens
  <2>2. link' = link /\ IdleUser \in UserKind /\ IdleUser.at = "idle"
    BY <1>1, <1>3, <2>1, ProxyNumbers DEF IdleUser
  <2>3. ~Uses(u, k)
    BY <1>1, <1>7 DEF Uses
  <2>4. UsersAreCounted(k)'
    BY <1>1, <1>3, <1>4, <2>1, <2>2, <2>3, UnseenByLinks, CountsKept
  <2> QED BY <1>1, <1>3, <1>5, <2>1, <2>2, <2>4, OthersAreKept
<1>8. CASE link[k].life = "open"
  <2>1. PICK i \in IdSpace : i = link[k].ids % SessionIds
    BY <1>1, <1>3, SessionIsTaken
  <2>2. PICK t \in LinkKind : t = SessionTaken(link[k], u)
    BY <1>1, <1>3, SessionIsTaken
  <2>3. /\ t.streams = link[k].streams /\ t.ids = link[k].ids + 1
        /\ t.udp = [link[k].udp EXCEPT ![i] = u]
        /\ t.life = link[k].life /\ t.lost = link[k].lost /\ t.doomed = link[k].doomed /\ t.idle = link[k].idle
    BY <1>1, <1>3, <2>1, <2>2, SessionIsTaken
  <2>4. asked => u \in Streams(k)
    BY <1>1, <1>2 DEF Streams
  <2>5. link[k].streams = Cardinality(Streams(k)) /\ (asked => link[k].streams > 0)
    BY <1>3, <2>4, FS_EmptySet DEF UsersAreCounted
  <2>6. t.udp[i] = u /\ u # Nobody /\ link[k].udp \in [IdSpace -> Users \cup {Nobody}]
    BY <1>1, <1>3, <2>3, ProxyNumbers DEF LinkKind
  <2>7. ~NoSessions(t)
    BY <2>6 DEF NoSessions
  <2> DEFINE l == IF asked THEN StreamFreed(t, FALSE) ELSE t
             v == [user[u] EXCEPT !.at = "session", !.id = i]
  <2>8. /\ l \in LinkKind /\ l.ids = t.ids /\ l.udp = t.udp /\ l.streams = (IF asked THEN t.streams - 1 ELSE t.streams)
        /\ l.life = t.life /\ l.lost = t.lost /\ l.doomed = t.doomed /\ l.idle = t.idle
    <3>1. CASE asked
      <4>1. t.streams > 0
        BY <2>3, <2>5, <3>1
      <4> QED BY <1>1, <2>7, <3>1, <4>1, StreamFrees
    <3>2. CASE ~asked
      BY <3>2
    <3> QED BY <3>1, <3>2
  <2>9. v \in UserKind /\ v.at = "session" /\ v.link = k /\ v.id = i
    BY <1>2, <1>3 DEF UserKind
  <2>10. user' = [user EXCEPT ![u] = v] /\ link' = [link EXCEPT ![k] = l]
    BY <1>2, <1>3, <1>8, <2>1, <2>2 DEF Listens
  <2> HIDE DEF l, v
  <2>11. user'[u] = v /\ (\A w \in Users : w # u => user'[w] = user[w]) /\ link'[k] = l
    BY <1>3, <2>10
  <2>12. Streams(k)' = Streams(k) \ {u}
    BY <2>9, <2>11 DEF Streams
  <2>13. ~asked => u \notin Streams(k)
    BY <1>1 DEF Streams
  <2>14. l.streams = Cardinality(Streams(k)')
    <3>1. CASE asked
      <4>1. Cardinality(Streams(k) \ {u}) = Cardinality(Streams(k)) - 1
        BY <1>3, <2>4, <3>1, FS_RemoveElement
      <4> QED BY <2>3, <2>5, <2>8, <2>12, <3>1, <4>1
    <3>2. CASE ~asked
      <4>1. Streams(k)' = Streams(k)
        BY <2>12, <2>13, <3>2
      <4> QED BY <2>3, <2>5, <2>8, <3>2, <4>1
    <3> QED BY <3>1, <3>2
  <2>15. /\ ~InSession(u, k) /\ InSession(u, k)' /\ user'[u].id = i
         /\ \A w \in Users : w # u => (InSession(w, k)' <=> InSession(w, k)) /\ user'[w] = user[w]
    BY <1>1, <2>9, <2>11 DEF InSession
  <2>16. ~l.idle /\ l.ids = link[k].ids + 1 /\ l.life = "open"
    BY <1>4, <1>8, <2>3, <2>8
  <2>17. ASSUME ~Wrapped(k)'
         PROVE  /\ \A w \in Users : InSession(w, k)' => user'[w].id < l.ids
                /\ \A j \in IdSpace, w \in Users : l.udp[j] = w <=> InSession(w, k)' /\ user'[w].id = j
    <3>1. SessionIds \in Nat /\ SessionIds > 0
      BY <1>1, ProxyNumbers
    <3>2. link[k].ids < SessionIds
      BY <1>3, <2>11, <2>16, <2>17, <3>1 DEF Wrapped
    <3>3. i = link[k].ids
      BY <1>3, <2>1, <3>1, <3>2
    <3>4. ~Wrapped(k)
      BY <1>3, <3>1, <3>2 DEF Wrapped
    <3>5. \A w \in Users : InSession(w, k) => user[w].id < link[k].ids
      BY <1>3, <3>4 DEF UsersAreCounted
    <3>6. \A j \in IdSpace, w \in Users : link[k].udp[j] = w <=> InSession(w, k) /\ user[w].id = j
      BY <1>3, <1>8, <3>4 DEF UsersAreCounted
    <3>7. \A w \in Users : user[w].id \in Nat
      BY <1>1, <3>1, ProxyNumbers DEF UserKind, IdSpace
    <3>8. \A w \in Users : InSession(w, k)' => user'[w].id < l.ids
      BY <1>3, <2>15, <2>16, <3>3, <3>5, <3>7
    <3>9. ASSUME NEW j \in IdSpace, NEW w \in Users
          PROVE  l.udp[j] = w <=> InSession(w, k)' /\ user'[w].id = j
      <4>1. CASE j = i
        <5>1. l.udp[j] = u
          BY <2>6, <2>8, <4>1
        <5>2. w # u => ~(InSession(w, k)' /\ user'[w].id = j)
          BY <1>3, <2>15, <3>3, <3>5, <3>7, <4>1
        <5> QED BY <2>15, <4>1, <5>1, <5>2
      <4>2. CASE j # i
        <5>1. l.udp[j] = link[k].udp[j]
          BY <2>3, <2>6, <2>8, <4>2
        <5> QED BY <2>15, <3>6, <4>2, <5>1
      <4> QED BY <4>1, <4>2
    <3> QED BY <3>8, <3>9
  <2>18. UsersAreCounted(k)'
    BY <2>11, <2>14, <2>16, <2>17 DEF UsersAreCounted
  <2>19. l.life = link[k].life /\ l.lost = link[k].lost /\ l.doomed = link[k].doomed
    BY <2>3, <2>8
  <2> QED BY <1>1, <1>5, <2>8, <2>9, <2>10, <2>18, <2>19, OthersAreKept
<1> QED BY <1>6, <1>7, <1>8

\* The other steps of a user.
LEMMA UsersKeepOrder ==
  ASSUME ProxyIInv, NEW u \in Users,
         Asks(u) \/ UserGivesUp(u) \/ Answered(u) \/ ClosesStream(u) \/ ListenFails(u)
  PROVE  ProxyIInv'
<1>1. ProxyTypeOK /\ OneDial /\ LinksAreOwned /\ \A o \in 1..Offers[proto] : UsersAreCounted(o)
  BY DEF ProxyIInv
<1>2. user \in [Users -> UserKind] /\ user[u] \in UserKind /\ IdleUser \in UserKind /\ IdleUser.at = "idle"
  BY <1>1, ProxyNumbers DEF ProxyTypeOK, IdleUser
<1>3. ASSUME NEW v \in UserKind, user' = [user EXCEPT ![u] = v], v.at \in {"idle", "waits", "offered"},
             v.at # "idle" => v.link # 0, user[u].at \in {"idle", "waits"},
             UNCHANGED <<proto, closeIdle, link>>, pending' \in Conns, shared' \in Conns,
             offer' \in [1..Offers[proto] -> OfferKind], OneDial', LinksAreOwned'
      PROVE  ProxyIInv'
  <2>1. Conns' = Conns /\ UserKind' = UserKind
    BY <1>3 DEF Conns, UserKind
  <2>2. user'[u] = v /\ \A w \in Users : w # u => user'[w] = user[w]
    BY <1>2, <1>3
  <2>3. user' \in [Users -> UserKind] /\ \A w \in Users : user'[w].at # "idle" => user'[w].link # 0
    BY <1>1, <1>2, <1>3, <2>2 DEF ProxyTypeOK
  <2>4. ProxyTypeOK'
    BY <1>1, <1>3, <2>1, <2>3 DEF ProxyTypeOK
  <2>5. ASSUME NEW o \in 1..Offers[proto] PROVE UsersAreCounted(o)'
    <3>1. ~Uses(u, o) /\ UsersAreCounted(o)
      BY <1>1, <1>3 DEF Uses
    <3>2. link[o].idle => link[o].life = "closed"
      BY <3>1 DEF UsersAreCounted
    <3>3. /\ Streams(o)' = Streams(o)
          /\ \A w \in Users : InSession(w, o)' <=> InSession(w, o)
          /\ \A w \in Users : InSession(w, o) => user'[w].id = user[w].id
      BY <1>1, <1>3, <3>1, UnseenByLinks
    <3>4. link' = link
      BY <1>3
    <3> QED BY <1>1, <3>1, <3>2, <3>3, <3>4, CountsKept
  <2> QED BY <1>3, <2>4, <2>5 DEF ProxyIInv
<1>4. ASSUME UNCHANGED <<proto, shared, pending, closeIdle, offer, link>>
      PROVE  /\ OneDial' /\ LinksAreOwned' /\ pending' \in Conns /\ shared' \in Conns
             /\ offer' \in [1..Offers[proto] -> OfferKind]
  <2>1. OneDial' /\ LinksAreOwned'
    BY <1>1, <1>4, OwnersKept
  <2> QED BY <1>1, <1>4, <2>1 DEF ProxyTypeOK
<1>5. CASE UserGivesUp(u)
  <2>1. user' = [user EXCEPT ![u] = IdleUser] /\ user[u].at = "waits" /\ UNCHANGED <<proto, shared, pending, closeIdle, offer, link>>
    BY <1>5 DEF UserGivesUp
  <2> QED BY <1>2, <1>3, <1>4, <2>1
<1>6. CASE Answered(u)
  <2> DEFINE v == IF offer[user[u].link].ok THEN [user[u] EXCEPT !.at = "offered"] ELSE IdleUser
  <2>1. user' = [user EXCEPT ![u] = v] /\ user[u].at = "waits" /\ UNCHANGED <<proto, shared, pending, closeIdle, offer, link>>
    BY <1>2, <1>6 DEF Answered
  <2>2. user[u].link # 0
    BY <1>1, <2>1 DEF ProxyTypeOK
  <2>3. v \in UserKind /\ v.at \in {"idle", "offered"} /\ (v.at # "idle" => v.link # 0)
    BY <1>2, <2>2 DEF UserKind
  <2> HIDE DEF v
  <2> QED BY <1>3, <1>4, <2>1, <2>3
<1>7. CASE ClosesStream(u)
  <2>1. /\ user[u].at = "stream" /\ user' = [user EXCEPT ![u] = IdleUser] /\ user[u].keep \in BOOLEAN
        /\ link' = [link EXCEPT ![user[u].link] = StreamFreed(@, user[u].keep)]
        /\ UNCHANGED <<proto, shared, pending, closeIdle, offer>>
    BY <1>2, <1>7 DEF ClosesStream, UserKind
  <2> QED BY <2>1, LeavingIsCounted
<1>8. CASE ListenFails(u)
  <2>1. /\ user[u].at = "acquired" /\ user' = [user EXCEPT ![u] = IdleUser]
        /\ link' = [link EXCEPT ![user[u].link] = StreamFreed(@, FALSE)]
        /\ UNCHANGED <<proto, shared, pending, closeIdle, offer>>
    BY <1>8 DEF ListenFails
  <2> QED BY <2>1, LeavingIsCounted
<1>9. CASE Asks(u)
  <2>1. PICK sort \in {"tcp", "udp"}, keep \in BOOLEAN :
           \/ /\ Active(shared)
              /\ user' = [user EXCEPT ![u] = [IdleUser EXCEPT !.at = "offered", !.kind = sort, !.keep = keep, !.link = shared]]
              /\ UNCHANGED <<pending, offer>>
           \/ /\ ~Active(shared)
              /\ \E o \in 1..Offers[proto] :
                   /\ IF pending # 0 THEN o = pending /\ UNCHANGED offer
                      ELSE /\ offer[o].at = "unused" /\ \A p \in 1..(o - 1) : offer[p].at # "unused"
                           /\ offer' = [offer EXCEPT ![o].at = "dialing"]
                   /\ pending' = o
                   /\ user' = [user EXCEPT ![u] = [IdleUser EXCEPT !.at = "waits", !.kind = sort, !.keep = keep, !.link = o]]
    BY <1>9 DEF Asks
  <2>2. user[u].at = "idle" /\ UNCHANGED <<proto, shared, closeIdle, link>>
    BY <1>9 DEF Asks
  <2>3. shared \in Conns /\ pending \in Conns /\ link[0].life = "none" /\ offer \in [1..Offers[proto] -> OfferKind]
    BY <1>1 DEF ProxyTypeOK
  <2>4. CASE Active(shared) /\ UNCHANGED <<pending, offer>>
             /\ user' = [user EXCEPT ![u] = [IdleUser EXCEPT !.at = "offered", !.kind = sort, !.keep = keep, !.link = shared]]
    <3> DEFINE v == [IdleUser EXCEPT !.at = "offered", !.kind = sort, !.keep = keep, !.link = shared]
    <3>1. shared # 0
      BY <2>3, <2>4 DEF Active
    <3>2. v \in UserKind /\ v.at = "offered" /\ v.link # 0
      BY <1>2, <2>3, <3>1 DEF UserKind
    <3>3. user' = [user EXCEPT ![u] = v]
      BY <2>4
    <3> HIDE DEF v
    <3> QED BY <1>3, <1>4, <2>2, <2>4, <3>2, <3>3
  <2>5. ASSUME ~Active(shared), NEW o \in 1..Offers[proto], pending' = o,
               user' = [user EXCEPT ![u] = [IdleUser EXCEPT !.at = "waits", !.kind = sort, !.keep = keep, !.link = o]],
               \/ pending = o /\ UNCHANGED offer
               \/ pending = 0 /\ offer[o].at = "unused" /\ offer' = [offer EXCEPT ![o].at = "dialing"]
        PROVE  ProxyIInv'
    <3> DEFINE v == [IdleUser EXCEPT !.at = "waits", !.kind = sort, !.keep = keep, !.link = o]
    <3>1. o \in Conns /\ o # 0
      BY <1>1, ProxyNumbers
    <3>2. v \in UserKind /\ v.at = "waits" /\ v.link # 0
      BY <1>2, <3>1 DEF UserKind
    <3>3. user' = [user EXCEPT ![u] = v]
      BY <2>5
    <3> HIDE DEF v
    <3>4. offer' \in [1..Offers[proto] -> OfferKind]
      BY <2>3, <2>5 DEF OfferKind
    <3>5. /\ \A p \in 1..Offers[proto] : p # o => offer'[p] = offer[p]
          /\ \/ offer'[o] = offer[o]
             \/ offer'[o].at = "dialing" /\ offer[o].at = "unused" /\ pending = 0
                /\ offer'[o].discarded = offer[o].discarded /\ offer'[o].ok = offer[o].ok
      <4>1. CASE pending = 0 /\ offer[o].at = "unused" /\ offer' = [offer EXCEPT ![o].at = "dialing"]
        <5>1. \A p \in 1..Offers[proto] : p # o => offer'[p] = offer[p]
          BY <2>3, <4>1
        <5>2. offer'[o] = [offer[o] EXCEPT !.at = "dialing"] /\ offer[o] \in OfferKind
          BY <2>3, <4>1
        <5>3. offer'[o].at = "dialing" /\ offer'[o].discarded = offer[o].discarded /\ offer'[o].ok = offer[o].ok
          BY <5>2 DEF OfferKind
        <5> QED BY <4>1, <5>1, <5>3
      <4> QED BY <2>5, <4>1
    <3>6. shared # 0 => shared \in 1..Offers[proto]
      BY <1>1, <2>3, ProxyNumbers
    <3>7. OneDial'
      BY <1>1, <2>2, <2>5, <3>1, <3>5, <3>6 DEF OneDial, Active, Installed
    <3>8. LinksAreOwned'
      BY <1>1, <2>2, <3>5 DEF LinksAreOwned
    <3> QED BY <1>3, <2>2, <2>3, <2>5, <3>1, <3>2, <3>3, <3>4, <3>7, <3>8
  <2> QED BY <2>1, <2>4, <2>5
<1> QED BY <1>5, <1>6, <1>7, <1>8, <1>9

-----------------------------------------------------------------------------
(* The steps of the connections, the offers and the client *)

\* A step that leaves the users alone.
LEMMA UsersStay ==
  ASSUME ProxyIInv, UNCHANGED <<proto, user>>, NEW o \in 1..Offers[proto],
         link'[o].streams = link[o].streams, link'[o].ids = link[o].ids,
         link'[o].life # "closed" => link[o].life # "closed" /\ link'[o].udp = link[o].udp,
         link'[o].idle => link[o].idle /\ link'[o].life = "closed"
  PROVE  UsersAreCounted(o)'
<1>1. ProxyTypeOK /\ UsersAreCounted(o)
  BY DEF ProxyIInv
<1>2. Streams(o)' = Streams(o) /\ \A w \in Users : (InSession(w, o)' <=> InSession(w, o)) /\ user'[w].id = user[w].id
  BY DEF Streams, InSession
<1> QED BY <1>1, <1>2, CountsKept

\* A step on connection o alone.
LEMMA OneLinkMoves ==
  ASSUME ProxyIInv, NEW o \in 1..Offers[proto], NEW l \in LinkKind, link' = [link EXCEPT ![o] = l],
         UNCHANGED <<proto, user, closeIdle>>, shared' \in Conns, pending' \in Conns,
         offer' \in [1..Offers[proto] -> OfferKind],
         OneDial', LinksAreOwned', UsersAreCounted(o)'
  PROVE  ProxyIInv'
<1>1. ProxyTypeOK
  BY DEF ProxyIInv
<1>2. o \in Conns /\ o # 0 /\ \A p \in 1..Offers[proto] : p \in Conns
  BY <1>1, ProxyNumbers
<1>3. link \in [Conns -> LinkKind] /\ Conns' = Conns /\ UserKind' = UserKind
  BY <1>1 DEF ProxyTypeOK, Conns, UserKind
<1>4. link'[o] = l /\ (\A p \in Conns : p # o => link'[p] = link[p]) /\ link' \in [Conns -> LinkKind]
  BY <1>2, <1>3
<1>5. 0 \in Conns /\ link'[0].life = "none"
  BY <1>1, <1>2, <1>4, ProxyNumbers DEF ProxyTypeOK
<1>6. ProxyTypeOK'
  BY <1>1, <1>3, <1>4, <1>5 DEF ProxyTypeOK
<1>7. ASSUME NEW p \in 1..Offers[proto], p # o PROVE UsersAreCounted(p)'
  <2>1. link'[p] = link[p] /\ UsersAreCounted(p)
    BY <1>2, <1>4, <1>7 DEF ProxyIInv
  <2>2. link[p].idle => link[p].life = "closed"
    BY <2>1 DEF UsersAreCounted
  <2> QED BY <2>1, <2>2, UsersStay
<1>8. \A p \in 1..Offers[proto] : UsersAreCounted(p)'
  BY <1>7
<1> QED BY <1>6, <1>8 DEF ProxyIInv

\* The steps of a connection that no offer takes.
LEMMA ConnectionsKeepOrder ==
  ASSUME ProxyIInv, NEW o \in 1..Offers[proto],
         LinkEnds(o) \/ LinkLost(o) \/ TuicHandshakeFails(o) \/ ClosesIdle(o)
  PROVE  ProxyIInv'
<1>1. ProxyTypeOK /\ OneDial /\ LinksAreOwned /\ UsersAreCounted(o)
  BY DEF ProxyIInv
<1>2. o \in Conns /\ o # 0 /\ link[o] \in LinkKind /\ link[o].ids \in Nat
  BY <1>1, ProxyNumbers
<1>3. link \in [Conns -> LinkKind] /\ link[o].life = "open"
  BY <1>1 DEF ProxyTypeOK, LinkEnds, LinkLost, Active, TuicHandshakeFails, ClosesIdle, IdleNow
<1>4. UNCHANGED <<proto, shared, pending, closeIdle, offer, user>>
  BY DEF LinkEnds, LinkLost, TuicHandshakeFails, ClosesIdle
<1>5. ~link[o].idle
  BY <1>1, <1>3 DEF UsersAreCounted
<1>6. shared' \in Conns /\ pending' \in Conns /\ offer' \in [1..Offers[proto] -> OfferKind]
  BY <1>1, <1>4 DEF ProxyTypeOK
<1>7. ASSUME NEW l \in LinkKind, link' = [link EXCEPT ![o] = l],
             \/ l.life = "closed"
             \/ l.life = link[o].life /\ (link[o].lost => l.lost) /\ (link[o].doomed => l.doomed),
             UsersAreCounted(o)'
      PROVE  ProxyIInv'
  <2>1. \A p \in Conns : \/ /\ link'[p].life = link[p].life /\ (link[p].lost => link'[p].lost)
                            /\ (link[p].doomed => link'[p].doomed)
                         \/ link[p].life = "open" /\ link'[p].life = "closed"
    BY <1>2, <1>3, <1>7
  <2>2. OneDial' /\ LinksAreOwned'
    BY <1>1, <1>4, <2>1, OwnersKept
  <2> QED BY <1>4, <1>6, <1>7, <2>2, OneLinkMoves
<1>8. ASSUME NEW l \in LinkKind, link' = [link EXCEPT ![o] = l],
             l.streams = link[o].streams, l.ids = link[o].ids, ~l.idle,
             l.life # "closed" => l.udp = link[o].udp
      PROVE  UsersAreCounted(o)'
  <2>1. link'[o] = l
    BY <1>2, <1>3, <1>8
  <2> QED BY <1>3, <1>4, <1>8, <2>1, UsersStay
<1>9. CASE LinkEnds(o)
  <2>1. PICK l \in LinkKind : l = LinkEnded(link[o])
    BY <1>1, <1>2, LinkIsEnded
  <2>2. l.streams = link[o].streams /\ l.ids = link[o].ids /\ ~l.idle /\ l.life = "closed"
    BY <1>1, <1>2, <2>1, LinkIsEnded
  <2>3. link' = [link EXCEPT ![o] = l]
    BY <1>2, <1>3, <1>9, <2>1 DEF LinkEnds
  <2> QED BY <1>7, <1>8, <2>2, <2>3
<1>10. CASE LinkLost(o)
  <2> DEFINE l == [link[o] EXCEPT !.lost = TRUE]
  <2>1. /\ l \in LinkKind /\ l.streams = link[o].streams /\ l.ids = link[o].ids /\ l.idle = link[o].idle
        /\ l.life = link[o].life /\ l.udp = link[o].udp /\ l.lost /\ l.doomed = link[o].doomed
    BY <1>2 DEF LinkKind
  <2>2. link' = [link EXCEPT ![o] = l]
    BY <1>2, <1>3, <1>10 DEF LinkLost
  <2> HIDE DEF l
  <2> QED BY <1>5, <1>7, <1>8, <2>1, <2>2
<1>11. CASE TuicHandshakeFails(o)
  <2> DEFINE l == [link[o] EXCEPT !.doomed = TRUE]
  <2>1. /\ l \in LinkKind /\ l.streams = link[o].streams /\ l.ids = link[o].ids /\ l.idle = link[o].idle
        /\ l.life = link[o].life /\ l.udp = link[o].udp /\ l.doomed /\ l.lost = link[o].lost
    BY <1>2 DEF LinkKind
  <2>2. link' = [link EXCEPT ![o] = l]
    BY <1>2, <1>3, <1>11 DEF TuicHandshakeFails
  <2> HIDE DEF l
  <2> QED BY <1>5, <1>7, <1>8, <2>1, <2>2
<1>12. CASE ClosesIdle(o)
  <2>1. PICK l \in LinkKind : l = Closed(link[o])
    BY <1>1, <1>2, LinkIsEnded
  <2>2. l.streams = link[o].streams /\ l.ids = link[o].ids /\ l.life = "closed"
    BY <1>1, <1>2, <2>1, LinkIsEnded
  <2>3. link' = [link EXCEPT ![o] = l] /\ link'[o] = l
    BY <1>2, <1>3, <1>12, <2>1 DEF ClosesIdle
  <2>4. ~Wrapped(o) => \A w \in Users : ~Uses(w, o)
    BY <1>1, <1>12, IdleIsUnused DEF ClosesIdle
  <2>5. /\ Streams(o)' = Streams(o) /\ (Wrapped(o)' <=> Wrapped(o))
        /\ \A w \in Users : (InSession(w, o)' <=> InSession(w, o)) /\ (Uses(w, o)' <=> Uses(w, o))
    BY <1>4, <2>2, <2>3 DEF Streams, InSession, Uses, Wrapped
  <2>6. UsersAreCounted(o)'
    <3>1. link'[o].streams = Cardinality(Streams(o)')
      BY <1>1, <2>2, <2>3, <2>5 DEF UsersAreCounted
    <3>2. ~Wrapped(o) => \A w \in Users : InSession(w, o)' => user'[w].id < link'[o].ids
      BY <1>1, <1>4, <2>2, <2>3, <2>5 DEF UsersAreCounted
    <3> QED BY <2>2, <2>3, <2>4, <2>5, <3>1, <3>2 DEF UsersAreCounted
  <2> QED BY <1>7, <2>2, <2>3, <2>6
<1> QED BY <1>9, <1>10, <1>11, <1>12

\* The steps of offer o.
LEMMA OffersKeepOrder ==
  ASSUME ProxyIInv, NEW o \in 1..Offers[proto],
         OpensSocket(o) \/ OfferFails(o) \/ Authenticates(o) \/ CompletesOffer(o) \/ DiscardsLink(o)
  PROVE  ProxyIInv'
<1>1. ProxyTypeOK /\ OneDial /\ LinksAreOwned /\ UsersAreCounted(o)
  BY DEF ProxyIInv
<1>2. o \in Conns /\ o # 0 /\ link[o] \in LinkKind /\ (\A p \in 1..Offers[proto] : p \in Conns) /\ 0 \in Conns
  BY <1>1, ProxyNumbers
<1>3. link \in [Conns -> LinkKind] /\ offer \in [1..Offers[proto] -> OfferKind] /\ offer[o] \in OfferKind
      /\ shared \in Conns /\ pending \in Conns /\ link[0].life = "none"
  BY <1>1 DEF ProxyTypeOK
<1>4. UNCHANGED <<proto, closeIdle, user>>
  BY DEF OpensSocket, OfferFails, Authenticates, CompletesOffer, DiscardsLink
<1>5. link[o].idle => link[o].life = "closed"
  BY <1>1 DEF UsersAreCounted
<1>6. shared # 0 => shared \in 1..Offers[proto]
  BY <1>1, <1>3, ProxyNumbers
<1>7. ASSUME NEW l \in LinkKind, link' = [link EXCEPT ![o] = l],
             l.streams = link[o].streams, l.ids = link[o].ids,
             l.life # "closed" => link[o].life # "closed" /\ l.udp = link[o].udp, l.idle => link[o].idle /\ l.life = "closed"
      PROVE  UsersAreCounted(o)' /\ link'[o] = l /\ \A p \in Conns : p # o => link'[p] = link[p]
  <2>1. link'[o] = l /\ \A p \in Conns : p # o => link'[p] = link[p]
    BY <1>2, <1>3, <1>7
  <2> QED BY <1>4, <1>7, <2>1, UsersStay
<1>8. CASE OpensSocket(o)
  <2> DEFINE l == [link[o] EXCEPT !.life = "socket"]
  <2>1. /\ l \in LinkKind /\ l.streams = link[o].streams /\ l.ids = link[o].ids /\ l.idle = link[o].idle
        /\ l.life = "socket" /\ l.udp = link[o].udp
    BY <1>2 DEF LinkKind
  <2>2. /\ link' = [link EXCEPT ![o] = l] /\ offer[o].at = "dialing" /\ link[o].life = "none"
        /\ UNCHANGED <<shared, pending, offer>>
    BY <1>2, <1>3, <1>8 DEF OpensSocket
  <2> HIDE DEF l
  <2>3. UsersAreCounted(o)' /\ link'[o] = l /\ \A p \in Conns : p # o => link'[p] = link[p]
    BY <1>5, <1>7, <2>1, <2>2
  <2>4. OneDial'
    BY <1>1, <1>2, <1>3, <1>4, <1>6, <2>1, <2>2, <2>3 DEF OneDial, Active, Installed
  <2>5. LinksAreOwned'
    BY <1>1, <1>2, <1>4, <2>1, <2>2, <2>3 DEF LinksAreOwned
  <2> QED BY <1>3, <1>4, <2>1, <2>2, <2>3, <2>4, <2>5, OneLinkMoves
<1>9. CASE OfferFails(o)
  <2> DEFINE l == [link[o] EXCEPT !.life = "closed"]
             f == [offer[o] EXCEPT !.at = "dialed"]
  <2>1. /\ l \in LinkKind /\ l.streams = link[o].streams /\ l.ids = link[o].ids /\ l.idle = link[o].idle
        /\ l.life = "closed"
    BY <1>2 DEF LinkKind
  <2>2. f \in OfferKind /\ f.at = "dialed" /\ f.discarded = offer[o].discarded
    BY <1>3 DEF OfferKind
  <2>3. /\ link' = [link EXCEPT ![o] = l] /\ offer[o].at = "dialing" /\ offer' = [offer EXCEPT ![o] = f]
        /\ UNCHANGED <<shared, pending>>
    BY <1>2, <1>3, <1>9 DEF OfferFails, OfferFailed
  <2> HIDE DEF l, f
  <2>4. UsersAreCounted(o)' /\ link'[o] = l /\ \A p \in Conns : p # o => link'[p] = link[p]
    BY <1>7, <2>1, <2>3
  <2>5. offer'[o] = f /\ (\A p \in 1..Offers[proto] : p # o => offer'[p] = offer[p])
        /\ offer' \in [1..Offers[proto] -> OfferKind]
    BY <1>3, <2>2, <2>3
  <2>6. OneDial'
    BY <1>1, <1>2, <1>3, <1>4, <1>6, <2>1, <2>2, <2>3, <2>4, <2>5 DEF OneDial, Active, Installed
  <2>7. LinksAreOwned'
    BY <1>1, <1>2, <1>4, <2>1, <2>2, <2>3, <2>4, <2>5 DEF LinksAreOwned
  <2> QED BY <1>3, <1>4, <2>1, <2>3, <2>4, <2>5, <2>6, <2>7, OneLinkMoves
<1>10. CASE Authenticates(o)
  <2> DEFINE l == [link[o] EXCEPT !.life = "open"]
             f == [offer[o] EXCEPT !.at = "dialed", !.ok = TRUE]
  <2>1. /\ l \in LinkKind /\ l.streams = link[o].streams /\ l.ids = link[o].ids /\ l.idle = link[o].idle
        /\ l.life = "open" /\ l.udp = link[o].udp
    BY <1>2 DEF LinkKind
  <2>2. f \in OfferKind /\ f.at = "dialed" /\ f.ok /\ f.discarded = offer[o].discarded
    BY <1>3 DEF OfferKind
  <2>3. /\ link' = [link EXCEPT ![o] = l] /\ offer[o].at = "dialing" /\ link[o].life = "socket"
        /\ offer' = [offer EXCEPT ![o] = f] /\ UNCHANGED <<shared, pending>>
    BY <1>2, <1>3, <1>10 DEF Authenticates
  <2> HIDE DEF l, f
  <2>4. UsersAreCounted(o)' /\ link'[o] = l /\ \A p \in Conns : p # o => link'[p] = link[p]
    BY <1>5, <1>7, <2>1, <2>3
  <2>5. offer'[o] = f /\ (\A p \in 1..Offers[proto] : p # o => offer'[p] = offer[p])
        /\ offer' \in [1..Offers[proto] -> OfferKind]
    BY <1>3, <2>2, <2>3
  <2>6. OneDial'
    <3>1. shared # o
      BY <1>1, <1>2, <2>3 DEF OneDial, Installed
    <3> QED BY <1>1, <1>2, <1>3, <1>4, <1>6, <2>1, <2>2, <2>3, <2>4, <2>5, <3>1 DEF OneDial, Active, Installed
  <2>7. LinksAreOwned'
    BY <1>1, <1>2, <1>4, <2>1, <2>2, <2>3, <2>4, <2>5 DEF LinksAreOwned
  <2> QED BY <1>3, <1>4, <2>1, <2>3, <2>4, <2>5, <2>6, <2>7, OneLinkMoves
<1>11. CASE CompletesOffer(o)
  <2> DEFINE f == [offer[o] EXCEPT !.at = IF offer[o].discarded /\ offer[o].ok THEN "discards" ELSE "done", !.ok = Installs(o)]
  <2>1. /\ f \in OfferKind /\ f.discarded = offer[o].discarded /\ f.ok = Installs(o)
        /\ f.at = IF offer[o].discarded /\ offer[o].ok THEN "discards" ELSE "done"
    BY <1>3 DEF OfferKind, Installs
  <2>2. /\ offer[o].at = "dialed" /\ offer' = [offer EXCEPT ![o] = f] /\ shared' = (IF Installs(o) THEN o ELSE shared)
        /\ pending' = (IF pending = o THEN 0 ELSE pending) /\ link' = link
    BY <1>3, <1>11 DEF CompletesOffer
  <2> HIDE DEF f
  <2>3. offer'[o] = f /\ (\A p \in 1..Offers[proto] : p # o => offer'[p] = offer[p])
        /\ offer' \in [1..Offers[proto] -> OfferKind]
    BY <1>3, <2>1, <2>2
  <2>4. pending = o /\ pending' = 0 /\ ~Active(shared) /\ shared # o
    BY <1>1, <1>2, <2>2 DEF OneDial, Installed
  <2>5. \A p \in 1..Offers[proto] : offer[p].at \in {"dialing", "dialed"} => p = o
    BY <1>1, <2>4 DEF OneDial
  <2>6. OneDial'
    BY <1>1, <1>2, <1>4, <1>6, <2>1, <2>2, <2>3, <2>4, <2>5 DEF OneDial, Active, Installed, Installs
  <2>7. LinksAreOwned'
    BY <1>1, <1>2, <1>4, <1>6, <2>1, <2>2, <2>3, <2>4, <2>5 DEF LinksAreOwned, Active, Installs
  <2>8. link' = [link EXCEPT ![o] = link[o]]
    BY <1>3, <2>2
  <2>9. UsersAreCounted(o)'
    BY <1>5, <1>7, <1>2, <2>8
  <2>10. shared' \in Conns /\ pending' \in Conns
    BY <1>2, <1>3, <2>2
  <2> QED BY <1>2, <1>4, <2>3, <2>6, <2>7, <2>8, <2>9, <2>10, OneLinkMoves
<1>12. CASE DiscardsLink(o)
  <2> DEFINE l == IF link[o].life = "open" THEN LinkEnded(link[o]) ELSE link[o]
             f == [offer[o] EXCEPT !.at = "done"]
  <2>1. /\ l \in LinkKind /\ l.streams = link[o].streams /\ l.ids = link[o].ids /\ (l.idle => link[o].idle)
        /\ l.life = (IF link[o].life = "open" THEN "closed" ELSE link[o].life) /\ (l.life # "closed" => l.udp = link[o].udp)
    BY <1>1, <1>2, LinkIsEnded
  <2>2. f \in OfferKind /\ f.at = "done" /\ f.discarded = offer[o].discarded /\ f.ok = offer[o].ok
    BY <1>3 DEF OfferKind
  <2>3. /\ link' = [link EXCEPT ![o] = l] /\ offer[o].at = "discards" /\ offer' = [offer EXCEPT ![o] = f]
        /\ UNCHANGED <<shared, pending>>
    BY <1>2, <1>3, <1>12 DEF DiscardsLink
  <2> HIDE DEF l, f
  <2>4. UsersAreCounted(o)' /\ link'[o] = l /\ \A p \in Conns : p # o => link'[p] = link[p]
    BY <1>5, <1>7, <2>1, <2>3
  <2>5. offer'[o] = f /\ (\A p \in 1..Offers[proto] : p # o => offer'[p] = offer[p])
        /\ offer' \in [1..Offers[proto] -> OfferKind]
    BY <1>3, <2>2, <2>3
  <2>6. OneDial'
    BY <1>1, <1>2, <1>3, <1>4, <1>6, <2>1, <2>2, <2>3, <2>4, <2>5 DEF OneDial, Active, Installed
  <2>7. LinksAreOwned'
    BY <1>1, <1>2, <1>4, <2>1, <2>2, <2>3, <2>4, <2>5 DEF LinksAreOwned
  <2> QED BY <1>3, <1>4, <2>1, <2>3, <2>4, <2>5, <2>6, <2>7, OneLinkMoves
<1> QED BY <1>8, <1>9, <1>10, <1>11, <1>12

\* The client's own steps.
LEMMA ClientKeepsOrder ==
  ASSUME ProxyIInv, ClientResets \/ KeepsIdle
  PROVE  ProxyIInv'
<1>1. ProxyTypeOK /\ OneDial /\ LinksAreOwned /\ \A o \in 1..Offers[proto] : UsersAreCounted(o)
  BY DEF ProxyIInv
<1>2. /\ link \in [Conns -> LinkKind] /\ offer \in [1..Offers[proto] -> OfferKind]
      /\ shared \in Conns /\ pending \in Conns /\ link[0].life = "none" /\ closeIdle \in BOOLEAN
  BY <1>1 DEF ProxyTypeOK
<1>3. 0 \in Conns /\ (\A o \in 1..Offers[proto] : o \in Conns /\ o # 0) /\ link[shared] \in LinkKind
  BY <1>1, <1>2, ProxyNumbers
<1>4. proto' = proto /\ user' = user /\ Conns' = Conns /\ UserKind' = UserKind
  BY DEF ClientResets, KeepsIdle, Conns, UserKind
<1>5. CASE KeepsIdle
  <2>1. UNCHANGED <<shared, pending, offer, link>> /\ closeIdle' \in BOOLEAN
    BY <1>5 DEF KeepsIdle
  <2>2. ProxyTypeOK'
    BY <1>1, <1>4, <2>1 DEF ProxyTypeOK
  <2>3. OneDial' /\ LinksAreOwned'
    BY <1>1, <1>4, <2>1, OwnersKept
  <2>4. ASSUME NEW o \in 1..Offers[proto] PROVE UsersAreCounted(o)'
    <3>1. link[o].idle => link[o].life = "closed"
      BY <1>1 DEF UsersAreCounted
    <3> QED BY <1>4, <2>1, <3>1, UsersStay
  <2> QED BY <1>4, <2>2, <2>3, <2>4 DEF ProxyIInv
<1>6. CASE ClientResets
  <2> DEFINE l == [link[shared] EXCEPT !.doomed = Active(shared)]
  <2>1. Active(shared) \in BOOLEAN
    BY DEF Active
  <2>2. /\ l \in LinkKind /\ l.life = link[shared].life /\ l.lost = link[shared].lost /\ l.idle = link[shared].idle
        /\ l.streams = link[shared].streams /\ l.ids = link[shared].ids /\ l.udp = link[shared].udp
        /\ l.doomed = Active(shared)
    BY <1>3, <2>1 DEF LinkKind
  <2>3. /\ link' = [link EXCEPT ![shared] = l] /\ shared' = 0 /\ UNCHANGED <<pending, closeIdle>>
        /\ offer' = [o \in 1..Offers[proto] |-> IF o = pending THEN [offer[o] EXCEPT !.discarded = TRUE] ELSE offer[o]]
    BY <1>2, <1>6 DEF ClientResets
  <2> HIDE DEF l
  <2>4. link'[shared] = l /\ (\A o \in Conns : o # shared => link'[o] = link[o]) /\ link' \in [Conns -> LinkKind]
    BY <1>2, <2>2, <2>3
  <2>5. link'[0].life = "none"
    BY <1>2, <1>3, <2>2, <2>4
  <2>6. /\ offer' \in [1..Offers[proto] -> OfferKind]
        /\ \A o \in 1..Offers[proto] : offer'[o].at = offer[o].at /\ offer'[o].ok = offer[o].ok
    <3>1. ASSUME NEW o \in 1..Offers[proto]
          PROVE  offer'[o] \in OfferKind /\ offer'[o].at = offer[o].at /\ offer'[o].ok = offer[o].ok
      <4>1. offer[o] \in OfferKind /\ offer'[o] = IF o = pending THEN [offer[o] EXCEPT !.discarded = TRUE] ELSE offer[o]
        BY <1>2, <2>3
      <4> QED BY <4>1 DEF OfferKind
    <3> QED BY <2>3, <3>1
  <2>7. ProxyTypeOK'
    BY <1>1, <1>3, <1>4, <2>3, <2>4, <2>5, <2>6 DEF ProxyTypeOK
  <2>8. OneDial'
    BY <1>1, <1>4, <2>3, <2>5, <2>6 DEF OneDial, Active
  <2>9. ASSUME NEW o \in 1..Offers[proto]
        PROVE  /\ link'[o].life = link[o].life /\ link'[o].lost = link[o].lost /\ link'[o].idle = link[o].idle
               /\ link'[o].streams = link[o].streams /\ link'[o].ids = link[o].ids /\ link'[o].udp = link[o].udp
               /\ o # shared => link'[o].doomed = link[o].doomed
               /\ o = shared /\ link[o].life = "open" => link'[o].doomed \/ link[o].lost
    BY <1>3, <2>2, <2>4 DEF Active
  <2>10. LinksAreOwned'
    BY <1>1, <1>4, <2>3, <2>6, <2>9 DEF LinksAreOwned
  <2>11. ASSUME NEW o \in 1..Offers[proto] PROVE UsersAreCounted(o)'
    <3>1. link[o].idle => link[o].life = "closed"
      BY <1>1 DEF UsersAreCounted
    <3> QED BY <1>4, <2>9, <3>1, UsersStay
  <2> QED BY <1>4, <2>7, <2>8, <2>10, <2>11 DEF ProxyIInv
<1> QED BY <1>5, <1>6

\* Before the first call.
LEMMA ProxyStarts == ProxyInit => ProxyIInv
<1> SUFFICES ASSUME ProxyInit PROVE ProxyIInv
  OBVIOUS
<1>1. Offers[proto] \in Nat /\ IsFiniteSet(Users) /\ Nobody \notin Users /\ SessionIds \in Nat \ {0}
  BY ProxyConstants DEF ProxyInit, Nobody
<1> DEFINE f == [at |-> "unused", discarded |-> FALSE, ok |-> FALSE]
           none == [i \in IdSpace |-> Nobody]
           l == [life |-> "none", lost |-> FALSE, doomed |-> FALSE, idle |-> FALSE, streams |-> 0, ids |-> 0, udp |-> none]
<1>2. /\ offer = [o \in 1..Offers[proto] |-> f] /\ link = [o \in Conns |-> l] /\ user = [u \in Users |-> IdleUser]
      /\ proto \in Protocols /\ shared = 0 /\ pending = 0 /\ closeIdle \in BOOLEAN
  BY DEF ProxyInit, Conns
<1>3. 0 \in Conns /\ 0 \in IdSpace /\ \A o \in 1..Offers[proto] : o \in Conns
  BY <1>1 DEF Conns, IdSpace
<1>4. f \in OfferKind /\ f.at = "unused" /\ none \in [IdSpace -> Users \cup {Nobody}] /\ \A i \in IdSpace : none[i] = Nobody
  BY DEF OfferKind
<1>5. IdleUser \in UserKind /\ IdleUser.at = "idle"
  BY <1>3 DEF IdleUser, UserKind
<1> HIDE DEF f, none
<1>6. l \in LinkKind /\ l.life = "none" /\ ~l.idle /\ l.streams = 0 /\ l.ids = 0 /\ l.udp = none
  BY <1>4 DEF LinkKind
<1> HIDE DEF l
<1>7. ProxyTypeOK
  BY <1>2, <1>3, <1>4, <1>5, <1>6 DEF ProxyTypeOK
<1>8. OneDial /\ LinksAreOwned
  BY <1>2, <1>3, <1>4, <1>6 DEF OneDial, LinksAreOwned
<1>9. ASSUME NEW o \in 1..Offers[proto] PROVE UsersAreCounted(o)
  <2>1. link[o] = l /\ \A u \in Users : user[u] = IdleUser
    BY <1>2, <1>3
  <2>2. Streams(o) = {} /\ \A u \in Users : ~InSession(u, o) /\ ~Uses(u, o)
    BY <1>5, <2>1 DEF Streams, InSession, Uses
  <2>3. link[o].streams = Cardinality(Streams(o))
    BY <1>6, <2>1, <2>2, FS_EmptySet
  <2>4. \A i \in IdSpace, u \in Users : link[o].udp[i] # u
    BY <1>1, <1>4, <1>6, <2>1
  <2> QED BY <1>6, <2>1, <2>2, <2>3, <2>4 DEF UsersAreCounted
<1> QED BY <1>7, <1>8, <1>9 DEF ProxyIInv

\* Every step keeps the invariant, whichever package takes it.
LEMMA ProxySteps == ProxyIInv /\ [ProxyNext]_proxyVars => ProxyIInv'
<1> SUFFICES ASSUME ProxyIInv, [ProxyNext]_proxyVars PROVE ProxyIInv'
  OBVIOUS
<1>1. CASE Common
  <2>1. ASSUME NEW o \in 1..Offers[proto],
               OpensSocket(o) \/ OfferFails(o) \/ DiscardsLink(o) \/ LinkLost(o) \/ ClosesIdle(o)
        PROVE  ProxyIInv'
    BY <2>1, OffersKeepOrder, ConnectionsKeepOrder
  <2>2. ASSUME NEW u \in Users, UserGivesUp(u) \/ Answered(u) PROVE ProxyIInv'
    BY <2>2, UsersKeepOrder
  <2> QED BY <1>1, <2>1, <2>2, ClientKeepsOrder DEF Common
<1>2. ASSUME NEW u \in Users,
             Asks(u) \/ Acquires(u) \/ OpensStream(u) \/ ClosesStream(u) \/ Listens(u) \/ ListenFails(u) \/ ClosesSession(u)
      PROVE  ProxyIInv'
  BY <1>2, UsersKeepOrder, AcquiringIsCounted, OpeningIsCounted, ListeningIsCounted, SessionsEndIsCounted
<1>3. ASSUME NEW o \in 1..Offers[proto],
             Authenticates(o) \/ CompletesOffer(o) \/ LinkEnds(o) \/ TuicHandshakeFails(o)
      PROVE  ProxyIInv'
  BY <1>3, OffersKeepOrder, ConnectionsKeepOrder
<1>4. CASE HysteriaNext
  BY <1>2, <1>3, <1>4 DEF HysteriaNext, HysteriaAsks, HysteriaAcquires, HysteriaDialsConn, HysteriaStreamEnds,
     HysteriaListens, HysteriaSessionEnds, HysteriaSaysHello, HysteriaCompletes, HysteriaLinkEnds
<1>5. CASE Hysteria2Next
  BY <1>2, <1>3, <1>5 DEF Hysteria2Next
<1>6. CASE TuicNext
  BY <1>2, <1>3, <1>6 DEF TuicNext, TuicAsks, TuicAcquires, TuicDialsConn, TuicStreamEnds, TuicListens,
     TuicSessionEnds, TuicDials, TuicCompletes, TuicLinkEnds
<1>7. CASE UNCHANGED proxyVars
  <2>1. UNCHANGED <<proto, shared, pending, closeIdle, offer, link, user>>
    BY <1>7 DEF proxyVars
  <2>2. ProxyTypeOK /\ OneDial /\ LinksAreOwned /\ \A o \in 1..Offers[proto] : UsersAreCounted(o)
    BY DEF ProxyIInv
  <2>3. ProxyTypeOK'
    BY <2>1, <2>2 DEF ProxyTypeOK, Conns, UserKind
  <2>4. OneDial' /\ LinksAreOwned'
    BY <2>1, <2>2, OwnersKept
  <2>5. ASSUME NEW o \in 1..Offers[proto] PROVE UsersAreCounted(o)'
    <3>1. link[o].idle => link[o].life = "closed"
      BY <2>2 DEF UsersAreCounted
    <3> QED BY <2>1, <3>1, UsersStay
  <2> QED BY <2>1, <2>3, <2>4, <2>5 DEF ProxyIInv
<1> QED BY <1>1, <1>4, <1>5, <1>6, <1>7 DEF ProxyNext

\* Whatever is reset, lost, closed idle or given up while callers come and go: one dial at a
\* time, nothing open that nobody owns, no discarded offer shared, streams and sessions counted
\* as they are held, and no idle close under a user: for any callers, offers and session numbers.
THEOREM TheSharedConnectionIsSound == ProxySpec => []ProxyInv
<1>1. ProxyIInv => ProxyInv
  <2> SUFFICES ASSUME ProxyIInv PROVE ProxyInv
    OBVIOUS
  <2>1. OneDial /\ LinksAreOwned /\ \A o \in 1..Offers[proto] : UsersAreCounted(o)
    BY DEF ProxyIInv
  <2>2. shared # 0 => ~offer[shared].discarded
    BY <2>1 DEF OneDial
  <2>3. ASSUME NEW o \in 1..Offers[proto]
        PROVE  /\ offer[o].at \in {"dialing", "dialed"} => o = pending
               /\ link[o].life = "socket" => offer[o].at = "dialing"
               /\ link[o].life = "open" =>
                    o = shared \/ link[o].doomed \/ link[o].lost \/ offer[o].at \in {"dialed", "discards"}
    BY <2>1 DEF OneDial, LinksAreOwned
  <2>4. ASSUME NEW o \in 1..Offers[proto]
        PROVE  /\ link[o].streams = Cardinality(Streams(o))
               /\ link[o].idle /\ link[o].ids <= SessionIds => \A u \in Users : ~Uses(u, o)
               /\ link[o].life = "open" /\ link[o].ids <= SessionIds =>
                    \A i \in IdSpace, u \in Users :
                      link[o].udp[i] = u <=> user[u].at = "session" /\ user[u].link = o /\ user[u].id = i
    <3>1. link[o].ids \in Nat /\ SessionIds \in Nat
      BY ProxyNumbers DEF ProxyIInv
    <3>2. link[o].ids <= SessionIds <=> ~Wrapped(o)
      BY <3>1 DEF Wrapped
    <3> QED BY <2>1, <3>2 DEF UsersAreCounted, InSession
  <2> QED BY <2>2, <2>3, <2>4 DEF ProxyInv
<1> QED BY <1>1, ProxyStarts, ProxySteps, PTL DEF ProxySpec

-----------------------------------------------------------------------------
(* ProxyDatagram: a cut is a run of pieces, and a number names one payload *)

\* Fragments, payloads and the defragmenter's items.
FragsSent == [payload: Nat, id: Nat, total: Nat, index: Nat, off: Nat, size: Nat]
Entries == [len: Nat, id: Nat, cuts: Seq(Nat)]
Ids == 0..(PacketIds - 1)
Gathering == UNION {items[i].parts : i \in Ids}
Underway == Range(tx.frags) \cup net \cup Gathering
Heard == delivered \cup Range(dataQueue)
Everywhere == Underway \cup UNION Heard

DatagramTypeOK ==
  /\ dproto \in DatagramProtocols /\ sizeLimit \in Limits /\ udpMTU \in Nat \ {0} /\ packetId \in Nat
  /\ tx \in [frags: Seq(FragsSent), recut: BOOLEAN] /\ written \in Seq(Entries) /\ net \subseteq FragsSent
  /\ items \in [Ids -> [total: Nat, parts: SUBSET FragsSent]]
  /\ dataQueue \in Seq(SUBSET FragsSent) /\ delivered \subseteq SUBSET FragsSent

\* A fragment is a piece of a payload that was written, in one of the cuts it was sent in.
Known(f) ==
  /\ f.payload \in 1..Len(written) /\ f.id = written[f.payload].id
  /\ \E j \in 1..Len(written[f.payload].cuts) : written[f.payload].cuts[j] = f.total
  /\ f.index < f.total
  /\ f.index + 1 = f.total => f.off + f.size = written[f.payload].len
\* Two pieces of one payload under cuts of one total are pieces of one cut, unless two were alike.
Joins(f, g) ==
  f.payload = g.payload /\ f.total = g.total /\ ~CutTwiceAlike(f.payload) =>
    (f.index + 1 = g.index => f.off + f.size = g.off)
AllKnown == \A f \in Everywhere : Known(f)
AllJoin == \A f, g \in Everywhere : Joins(f, g)
\* A packet number names one payload for as long as a fragment of it is under way.
OneNumber == \A f, g \in Underway : f.id = g.id => f.payload = g.payload
\* What is being sent is the last payload, which was cut again at most once.
Sending ==
  tx.frags # <<>> =>
    /\ Len(written) > 0 /\ written[Len(written)].id = packetId
    /\ \A f \in Range(tx.frags) : f.payload = Len(written)
    /\ ~tx.recut => Len(written[Len(written)].cuts) = 1
Distinct(parts) == \A f, g \in parts : f.index = g.index => f = g
GatheredApart ==
  \A i \in Ids : /\ IsFiniteSet(items[i].parts) /\ Distinct(items[i].parts)
                 /\ \A f \in items[i].parts : f.id = i /\ f.total = items[i].total
Exact(parts) ==
  /\ IsFiniteSet(parts) /\ Distinct(parts)
  /\ \A f \in parts : f.total = Cardinality(parts)
  /\ \A f, g \in parts : f.payload = g.payload
TakenWhole == \A parts \in Heard : Exact(parts)
\* The numbers of payloads and of what is being sent are the defragmenter's.
NumbersInRange == (\A p \in 1..Len(written) : written[p].id \in Ids) /\ packetId \in Ids
DatagramIInv ==
  DatagramTypeOK /\ NumbersInRange /\ AllKnown /\ AllJoin /\ OneNumber /\ Sending /\ GatheredApart /\ TakenWhole

LEMMA RangeAsSet == ASSUME NEW S, NEW s \in Seq(S) PROVE Range(s) = {s[k] : k \in 1..Len(s)} /\ Range(s) \subseteq S
  BY RangeEquality, RangeOfSeq

LEMMA RangeAfterHead ==
  ASSUME NEW S, NEW s \in Seq(S), s # <<>>
  PROVE  Head(s) \in Range(s) /\ Range(Tail(s)) \subseteq Range(s) /\ Tail(s) \in Seq(S)
<1>1. /\ Len(s) \in Nat \ {0} /\ Tail(s) \in Seq(S) /\ Len(Tail(s)) = Len(s) - 1 /\ Head(s) = s[1]
      /\ \A k \in 1..Len(Tail(s)) : Tail(s)[k] = s[k + 1]
  BY EmptySeq, LenProperties, HeadTailProperties
<1>2. Range(s) = {s[k] : k \in 1..Len(s)} /\ Range(Tail(s)) = {Tail(s)[k] : k \in 1..Len(Tail(s))}
  BY <1>1, RangeAsSet
<1>3. \A k \in 1..Len(Tail(s)) : k + 1 \in 1..Len(s) BY <1>1
<1>4. 1 \in 1..Len(s) BY <1>1
<1> QED BY <1>1, <1>2, <1>3, <1>4

LEMMA RangeAfterAppend ==
  ASSUME NEW S, NEW s \in Seq(S), NEW x \in S
  PROVE  Range(Append(s, x)) = Range(s) \cup {x} /\ Append(s, x) \in Seq(S)
<1>1. /\ Append(s, x) \in Seq(S) /\ Len(Append(s, x)) = Len(s) + 1 /\ Len(s) \in Nat
      /\ \A k \in 1..Len(s) : Append(s, x)[k] = s[k]
      /\ Append(s, x)[Len(s) + 1] = x
  BY AppendProperties, LenProperties
<1>2. Range(s) = {s[k] : k \in 1..Len(s)} /\ Range(Append(s, x)) = {Append(s, x)[k] : k \in 1..(Len(s) + 1)}
  BY <1>1, RangeAsSet
<1>3. 1..(Len(s) + 1) = 1..Len(s) \cup {Len(s) + 1} BY <1>1
<1> QED BY <1>1, <1>2, <1>3

LEMMA LessOfTwo == ASSUME NEW a \in Nat, NEW b \in Nat PROVE Min({a, b}) = IF a <= b THEN a ELSE b
<1>1. CASE a <= b
  <2>1. \A y \in {a, b} : a <= y BY <1>1
  <2>2. \A x \in {a, b} : (\A y \in {a, b} : x <= y) => x = a BY <1>1
  <2> QED BY <1>1, <2>1, <2>2 DEF Min
<1>2. CASE ~(a <= b)
  <2>1. \A y \in {a, b} : b <= y BY <1>2
  <2>2. \A x \in {a, b} : (\A y \in {a, b} : x <= y) => x = b BY <1>2
  <2> QED BY <1>2, <2>1, <2>2 DEF Min
<1> QED BY <1>1, <1>2

\* The pieces cover the payload and the last begins inside it.
LEMMA PiecesCover ==
  ASSUME NEW len \in Nat, NEW mtu \in Nat, mtu > 0, len > mtu
  PROVE  /\ Pieces(len, mtu) \in Nat /\ Pieces(len, mtu) > 1
         /\ (Pieces(len, mtu) - 1) * mtu < len /\ len <= Pieces(len, mtu) * mtu
<1> DEFINE q == (len + mtu - 1) \div mtu
<1>1. q \in Int /\ q * mtu <= len + mtu - 1 /\ len + mtu - 1 < q * mtu + mtu
  OBVIOUS
<1>2. Pieces(len, mtu) = q BY DEF Pieces
<1> HIDE DEF q
<1>3. q > 1
  <2>1. SUFFICES ASSUME q <= 1 PROVE FALSE BY <1>1
  <2>2. q * mtu <= mtu
    BY <1>1, <2>1
  <2> QED BY <1>1, <2>2
<1>4. (q - 1) * mtu = q * mtu - mtu BY <1>1
<1> QED BY <1>1, <1>2, <1>3, <1>4

\* The n pieces of a payload of len units, one after another to its end.
IsCut(cut, n, p, len, id) ==
  /\ n \in Nat \ {0} /\ cut \in Seq(FragsSent) /\ Len(cut) = n
  /\ \A k \in 1..n : /\ cut[k].payload = p /\ cut[k].id = id /\ cut[k].total = n
                     /\ cut[k].index = k - 1
                     /\ k < n => cut[k].off + cut[k].size = cut[k + 1].off
                     /\ k = n => cut[k].off + cut[k].size = len

LEMMA CutIsWhole ==
  ASSUME NEW p \in Nat, NEW len \in Nat, NEW id \in Nat, NEW mtu \in Nat, mtu > 0 \/ len <= mtu
  PROVE  IsCut(FragmentsOf(p, len, id, mtu), Pieces(len, mtu), p, len, id)
<1> DEFINE n == Pieces(len, mtu)
           cut == FragmentsOf(p, len, id, mtu)
           long(k) == IF n = 1 THEN len ELSE Min({mtu, len - (k - 1) * mtu})
<1>1. n \in Nat \ {0} /\ (n = 1 \/ (mtu > 0 /\ (n - 1) * mtu < len /\ len <= n * mtu))
  <2>1. CASE len <= mtu BY <2>1 DEF Pieces
  <2>2. CASE ~(len <= mtu) BY <2>2, PiecesCover
  <2> QED BY <2>1, <2>2
<1>2. cut = [k \in 1..n |-> [payload |-> p, id |-> id, total |-> n, index |-> k - 1, off |-> (k - 1) * mtu,
                             size |-> long(k)]]
  BY DEF FragmentsOf
<1> HIDE DEF n, cut
<1>3. ASSUME NEW k \in 1..n
      PROVE  /\ (k - 1) * mtu \in Nat /\ long(k) \in Nat
             /\ k < n => (k - 1) * mtu + long(k) = k * mtu
             /\ k = n => (k - 1) * mtu + long(k) = len
  <2>1. k \in Nat /\ k - 1 \in Nat /\ (k - 1) * mtu \in Nat /\ k * mtu = (k - 1) * mtu + mtu
    BY <1>1
  <2>2. CASE n = 1
    <3>1. k = 1 /\ (k - 1) * mtu = 0 BY <1>1, <2>2
    <3> QED BY <2>1, <2>2, <3>1
  <2>3. CASE n # 1 /\ k < n
    <3>1. k <= n - 1 /\ n - 1 \in Nat BY <1>1, <2>3
    <3>2. k * mtu <= (n - 1) * mtu
      <4> DEFINE d == (n - 1) - k
      <4>1. d \in Nat /\ n - 1 = k + d BY <1>1, <2>1, <3>1
      <4>2. (k + d) * mtu = k * mtu + d * mtu /\ d * mtu \in Nat BY <2>1, <4>1
      <4>3. (n - 1) * mtu = (k + d) * mtu BY <4>1
      <4>4. k * mtu \in Nat BY <2>1
      <4> HIDE DEF d
      <4> QED BY <4>2, <4>3, <4>4
    <3>3. (n - 1) * mtu < len /\ (n - 1) * mtu \in Nat BY <1>1, <2>3, <3>1
    <3>4. len - (k - 1) * mtu > mtu /\ len - (k - 1) * mtu \in Nat
      <4> DEFINE a == (k - 1) * mtu
                 b == (n - 1) * mtu
                 c == k * mtu
      <4>1. a \in Nat /\ b \in Nat /\ c = a + mtu /\ c <= b /\ b < len BY <2>1, <3>2, <3>3
      <4> HIDE DEF a, b, c
      <4>2. len - a > mtu /\ len - a \in Nat BY <4>1
      <4> QED BY <4>2 DEF a
    <3>5. long(k) = mtu BY <2>3, <3>4, LessOfTwo
    <3> QED BY <2>1, <2>3, <3>5
  <2>4. CASE n # 1 /\ k = n
    <3>1. (k - 1) * mtu < len /\ len <= k * mtu BY <1>1, <2>4
    <3>2. len - (k - 1) * mtu <= mtu /\ len - (k - 1) * mtu \in Nat
      <4> DEFINE a == (k - 1) * mtu
                 c == k * mtu
      <4>1. a \in Nat /\ c = a + mtu /\ a < len /\ len <= c BY <2>1, <3>1
      <4> HIDE DEF a, c
      <4>2. len - a <= mtu /\ len - a \in Nat BY <4>1
      <4> QED BY <4>2 DEF a
    <3>3. long(k) = len - (k - 1) * mtu
      <4> DEFINE r == len - (k - 1) * mtu
      <4>1. r \in Nat /\ r <= mtu BY <3>2
      <4>2. long(k) = Min({mtu, r}) BY <2>4
      <4> HIDE DEF r
      <4>3. Min({mtu, r}) = r BY <4>1, LessOfTwo
      <4> QED BY <4>2, <4>3 DEF r
    <3>4. (k - 1) * mtu + (len - (k - 1) * mtu) = len BY <2>1
    <3> QED BY <2>1, <2>4, <3>2, <3>3, <3>4
  <2> QED BY <1>1, <2>2, <2>3, <2>4
<1> HIDE DEF long
<1>4. cut \in Seq(FragsSent) /\ Len(cut) = n
  <2>1. \A k \in 1..n : k - 1 \in Nat BY <1>1
  <2>2. \A k \in 1..n : [payload |-> p, id |-> id, total |-> n, index |-> k - 1, off |-> (k - 1) * mtu,
                         size |-> long(k)] \in FragsSent
    BY <1>1, <1>3, <2>1 DEF FragsSent
  <2>3. cut \in [1..n -> FragsSent] BY <1>2, <2>2
  <2> QED BY <1>1, <2>3
<1>5. ASSUME NEW k \in 1..n
      PROVE  /\ cut[k].payload = p /\ cut[k].id = id /\ cut[k].total = n /\ cut[k].index = k - 1
             /\ k < n => cut[k].off + cut[k].size = cut[k + 1].off
             /\ k = n => cut[k].off + cut[k].size = len
  <2>1. /\ cut[k].payload = p /\ cut[k].id = id /\ cut[k].total = n /\ cut[k].index = k - 1
        /\ cut[k].off = (k - 1) * mtu /\ cut[k].size = long(k)
    BY <1>2
  <2>2. CASE k < n
    <3>1. k + 1 \in 1..n /\ (k + 1) - 1 = k BY <1>1, <2>2
    <3>2. cut[k + 1].off = ((k + 1) - 1) * mtu BY <1>2, <3>1
    <3>3. cut[k + 1].off = k * mtu BY <3>1, <3>2
    <3> QED BY <1>3, <2>1, <2>2, <3>3
  <2>3. CASE k = n BY <1>1, <1>3, <2>1, <2>3
  <2>4. k < n \/ k = n BY <1>1
  <2> QED BY <2>1, <2>2, <2>3, <2>4
<1>6. IsCut(cut, n, p, len, id) BY <1>1, <1>4, <1>5 DEF IsCut
<1> QED BY <1>6 DEF n, cut

LEMMA DatagramStarts == DatagramInit => DatagramIInv
<1> SUFFICES ASSUME DatagramInit PROVE DatagramIInv OBVIOUS
<1> USE DatagramConstants
<1>1. DatagramTypeOK
  BY DEF DatagramInit, DatagramTypeOK, NoTx, NoItem, Ids
<1>2. Range(<<>>) = {} BY DEF Range
<1>3. Gathering = {} BY DEF DatagramInit, Gathering, NoItem, Ids
<1>4. Underway = {} /\ Heard = {} /\ Everywhere = {}
  BY <1>2, <1>3 DEF DatagramInit, Underway, Heard, Everywhere, NoTx
<1>5. Sending BY DEF DatagramInit, Sending, NoTx
<1>6. GatheredApart BY FS_EmptySet DEF DatagramInit, GatheredApart, Distinct, NoItem, Ids
<1>7. NumbersInRange BY DEF DatagramInit, NumbersInRange, Ids
<1> QED BY <1>1, <1>4, <1>5, <1>6, <1>7 DEF DatagramIInv, AllKnown, AllJoin, OneNumber, TakenWhole

\* A step that writes nothing only moves fragments about.
LEMMA FragmentsMove ==
  ASSUME NumbersInRange, AllKnown, AllJoin, OneNumber, UNCHANGED <<written, packetId>>,
         Everywhere' \subseteq Everywhere, Underway' \subseteq Underway
  PROVE  NumbersInRange' /\ AllKnown' /\ AllJoin' /\ OneNumber'
<1>1. \A f : Known(f)' <=> Known(f) BY DEF Known
<1>2. \A f, g : Joins(f, g)' <=> Joins(f, g) BY DEF Joins, CutTwiceAlike
<1>3. NumbersInRange' BY DEF NumbersInRange, Ids
<1> QED BY <1>1, <1>2, <1>3 DEF AllKnown, AllJoin, OneNumber

\* What the reader's side keeps stays whole.
LEMMA NothingTaken ==
  ASSUME DatagramIInv, UNCHANGED <<items, dataQueue, delivered>>
  PROVE  GatheredApart' /\ TakenWhole' /\ Gathering' = Gathering /\ Heard' = Heard
  BY DEF DatagramIInv, GatheredApart, TakenWhole, Gathering, Heard, Exact, Distinct

LEMMA SendsKept == DatagramIInv /\ SendsFragment => DatagramIInv'
<1> SUFFICES ASSUME DatagramIInv, SendsFragment PROVE DatagramIInv' OBVIOUS
<1>1. /\ tx.frags \in Seq(FragsSent) /\ tx.frags # <<>> /\ net' = net \cup {Head(tx.frags)}
      /\ tx' = [tx EXCEPT !.frags = Tail(@)]
      /\ UNCHANGED <<dproto, sizeLimit, udpMTU, packetId, written, items, dataQueue, delivered>>
  BY DEF DatagramIInv, DatagramTypeOK, SendsFragment
<1>2. /\ Head(tx.frags) \in Range(tx.frags) /\ Range(Tail(tx.frags)) \subseteq Range(tx.frags)
      /\ Tail(tx.frags) \in Seq(FragsSent) /\ Range(tx.frags) \subseteq FragsSent
  BY <1>1, RangeAfterHead, RangeAsSet
<1>3. tx'.frags = Tail(tx.frags) /\ tx'.recut = tx.recut /\ tx' \in [frags: Seq(FragsSent), recut: BOOLEAN]
  BY <1>1, <1>2 DEF DatagramIInv, DatagramTypeOK
<1>4. DatagramTypeOK' BY <1>1, <1>2, <1>3 DEF DatagramIInv, DatagramTypeOK
<1>5. GatheredApart' /\ TakenWhole' /\ Gathering' = Gathering /\ Heard' = Heard BY <1>1, NothingTaken
<1>6. Underway' \subseteq Underway /\ Everywhere' \subseteq Everywhere
  BY <1>1, <1>2, <1>3, <1>5 DEF Underway, Everywhere
<1>7. NumbersInRange' /\ AllKnown' /\ AllJoin' /\ OneNumber' BY <1>1, <1>6, FragmentsMove DEF DatagramIInv
<1>8. Sending' BY <1>1, <1>2, <1>3 DEF DatagramIInv, Sending
<1> QED BY <1>4, <1>5, <1>7, <1>8 DEF DatagramIInv

LEMMA PathKept == DatagramIInv /\ (LimitChanges \/ \E f \in net : DatagramLost(f)) => DatagramIInv'
<1> SUFFICES ASSUME DatagramIInv, LimitChanges \/ \E f \in net : DatagramLost(f) PROVE DatagramIInv' OBVIOUS
<1>1. /\ net' \subseteq net /\ sizeLimit' \in Limits
      /\ UNCHANGED <<dproto, udpMTU, packetId, tx, written, items, dataQueue, delivered>>
  BY DEF LimitChanges, DatagramLost, DatagramIInv, DatagramTypeOK
<1>2. DatagramTypeOK' BY <1>1 DEF DatagramIInv, DatagramTypeOK
<1>3. GatheredApart' /\ TakenWhole' /\ Gathering' = Gathering /\ Heard' = Heard BY <1>1, NothingTaken
<1>4. Underway' \subseteq Underway /\ Everywhere' \subseteq Everywhere
  BY <1>1, <1>3 DEF Underway, Everywhere
<1>5. NumbersInRange' /\ AllKnown' /\ AllJoin' /\ OneNumber' BY <1>1, <1>4, FragmentsMove DEF DatagramIInv
<1>6. Sending' BY <1>1 DEF DatagramIInv, Sending
<1> QED BY <1>2, <1>3, <1>5, <1>6 DEF DatagramIInv

LEMMA EvictionKept == DatagramIInv /\ (\E id \in Ids : Evicts(id)) => DatagramIInv'
<1> SUFFICES ASSUME DatagramIInv, NEW id \in Ids, Evicts(id) PROVE DatagramIInv' OBVIOUS
<1>1. /\ items' = [items EXCEPT ![id] = NoItem]
      /\ UNCHANGED <<dproto, sizeLimit, udpMTU, packetId, tx, written, net, dataQueue, delivered>>
  BY DEF Evicts
<1>2. items \in [Ids -> [total: Nat, parts: SUBSET FragsSent]] BY DEF DatagramIInv, DatagramTypeOK
<1>3. /\ items' \in [Ids -> [total: Nat, parts: SUBSET FragsSent]]
      /\ \A i \in Ids : items'[i] = IF i = id THEN NoItem ELSE items[i]
      /\ NoItem.parts = {}
  BY <1>1, <1>2 DEF NoItem
<1>4. DatagramTypeOK' BY <1>1, <1>3 DEF DatagramIInv, DatagramTypeOK
<1>5. Gathering' \subseteq Gathering BY <1>3 DEF Gathering, Ids
<1>6. Underway' \subseteq Underway /\ Everywhere' \subseteq Everywhere
  BY <1>1, <1>5 DEF Underway, Everywhere, Heard
<1>7. NumbersInRange' /\ AllKnown' /\ AllJoin' /\ OneNumber' BY <1>1, <1>6, FragmentsMove DEF DatagramIInv
<1>8. Sending' BY <1>1 DEF DatagramIInv, Sending
<1>9. GatheredApart'
  <2>1. Ids' = Ids BY DEF Ids
  <2>2. ASSUME NEW i \in Ids
        PROVE  /\ IsFiniteSet(items'[i].parts) /\ Distinct(items'[i].parts)
               /\ \A f \in items'[i].parts : f.id = i /\ f.total = items'[i].total
    <3>1. CASE i = id BY <1>3, <3>1, FS_EmptySet DEF Distinct
    <3>2. CASE i # id BY <1>3, <3>2 DEF DatagramIInv, GatheredApart
    <3> QED BY <3>1, <3>2
  <2> QED BY <2>1, <2>2 DEF GatheredApart, Distinct
<1>10. TakenWhole' BY <1>1 DEF DatagramIInv, TakenWhole, Heard, Exact, Distinct
<1> QED BY <1>4, <1>7, <1>8, <1>9, <1>10 DEF DatagramIInv

LEMMA ReadKept == DatagramIInv /\ Reads => DatagramIInv'
<1> SUFFICES ASSUME DatagramIInv, Reads PROVE DatagramIInv' OBVIOUS
<1>1. /\ dataQueue \in Seq(SUBSET FragsSent) /\ dataQueue # <<>> /\ delivered \subseteq SUBSET FragsSent
      /\ delivered' = delivered \cup {Head(dataQueue)} /\ dataQueue' = Tail(dataQueue)
      /\ UNCHANGED <<dproto, sizeLimit, udpMTU, packetId, tx, written, net, items>>
  BY DEF Reads, DatagramIInv, DatagramTypeOK
<1>2. /\ Head(dataQueue) \in Range(dataQueue) /\ Range(Tail(dataQueue)) \subseteq Range(dataQueue)
      /\ Tail(dataQueue) \in Seq(SUBSET FragsSent) /\ Range(dataQueue) \subseteq SUBSET FragsSent
  BY <1>1, RangeAfterHead, RangeAsSet
<1>3. DatagramTypeOK' BY <1>1, <1>2 DEF DatagramIInv, DatagramTypeOK
<1>4. Heard' \subseteq Heard BY <1>1, <1>2 DEF Heard
<1>5. Gathering' = Gathering BY <1>1 DEF Gathering
<1>6. Underway' \subseteq Underway /\ Everywhere' \subseteq Everywhere
  BY <1>1, <1>4, <1>5 DEF Underway, Everywhere
<1>7. NumbersInRange' /\ AllKnown' /\ AllJoin' /\ OneNumber' BY <1>1, <1>6, FragmentsMove DEF DatagramIInv
<1>8. Sending' BY <1>1 DEF DatagramIInv, Sending
<1>9. GatheredApart' BY <1>1 DEF DatagramIInv, GatheredApart, Distinct
<1>10. TakenWhole' BY <1>4 DEF DatagramIInv, TakenWhole, Exact, Distinct
<1> QED BY <1>3, <1>7, <1>8, <1>9, <1>10 DEF DatagramIInv

\* What the defragmenter makes of a fragment of its number.
LEMMA FedIsApart ==
  ASSUME NEW item \in [total: Nat, parts: SUBSET FragsSent], NEW f \in FragsSent, NEW i,
         f.id = i, IsFiniteSet(item.parts), Distinct(item.parts),
         \A g \in item.parts : g.id = i /\ g.total = item.total
  PROVE  /\ Fed(item, f) \in [total: Nat, parts: SUBSET FragsSent]
         /\ Fed(item, f).parts \subseteq item.parts \cup {f}
         /\ IsFiniteSet(Fed(item, f).parts) /\ Distinct(Fed(item, f).parts)
         /\ \A g \in Fed(item, f).parts : g.id = i /\ g.total = Fed(item, f).total
         /\ Fed(item, f).total = f.total
<1>1. f.total \in Nat BY DEF FragsSent
<1>2. CASE item.total # f.total
  <2>1. Fed(item, f) = [total |-> f.total, parts |-> {f}] BY <1>2 DEF Fed
  <2>2. IsFiniteSet({f}) BY FS_Singleton
  <2> QED BY <1>1, <2>1, <2>2 DEF Distinct
<1>3. CASE item.total = f.total /\ \E g \in item.parts : g.index = f.index
  BY <1>3 DEF Fed
<1>4. CASE item.total = f.total /\ ~\E g \in item.parts : g.index = f.index
  <2>1. Fed(item, f) = [item EXCEPT !.parts = @ \cup {f}] BY <1>4 DEF Fed
  <2>2. Fed(item, f).parts = item.parts \cup {f} /\ Fed(item, f).total = item.total BY <2>1
  <2>3. IsFiniteSet(item.parts \cup {f}) BY FS_AddElement
  <2>4. Distinct(item.parts \cup {f}) BY <1>4 DEF Distinct
  <2> QED BY <1>4, <2>1, <2>2, <2>3, <2>4
<1> QED BY <1>2, <1>3, <1>4
LEMMA ArrivalKept == DatagramIInv /\ (\E f \in net : Arrives(f)) => DatagramIInv'
<1> SUFFICES ASSUME DatagramIInv, NEW f \in net, Arrives(f) PROVE DatagramIInv' OBVIOUS
<1>1. /\ net' = net \ {f}
      /\ UNCHANGED <<dproto, sizeLimit, udpMTU, packetId, tx, written, delivered>>
  BY DEF Arrives
<1>2. /\ f \in FragsSent /\ f \in Underway /\ f \in Everywhere /\ Known(f)
      /\ items \in [Ids -> [total: Nat, parts: SUBSET FragsSent]]
      /\ dataQueue \in Seq(SUBSET FragsSent) /\ delivered \subseteq SUBSET FragsSent
      /\ f.total \in Nat /\ f.index \in Nat
  BY DEF DatagramIInv, DatagramTypeOK, AllKnown, Underway, Everywhere, FragsSent
<1>3. f.id \in Ids BY <1>2 DEF DatagramIInv, NumbersInRange, Known
<1> DEFINE item == Fed(items[f.id], f)
           queue(parts) == dataQueue' = Queued(parts)
<1>4. /\ item \in [total: Nat, parts: SUBSET FragsSent] /\ item.parts \subseteq items[f.id].parts \cup {f}
      /\ IsFiniteSet(item.parts) /\ Distinct(item.parts) /\ item.total = f.total
      /\ \A g \in item.parts : g.id = f.id /\ g.total = f.total
  BY <1>2, <1>3, FedIsApart DEF DatagramIInv, GatheredApart
<1>5. items[f.id].parts \subseteq Gathering BY <1>3 DEF Gathering
\* What is handed to the reader, if anything, is whole and was under way.
<1>6. PICK parts \in SUBSET FragsSent :
        /\ Exact(parts) /\ parts \subseteq Underway
        /\ \/ UNCHANGED dataQueue
           \/ dataQueue' = Append(dataQueue, parts)
        /\ items' = items \/ items' = [items EXCEPT ![f.id] = NoItem] \/ items' = [items EXCEPT ![f.id] = item]
  <2>1. CASE f.total <= 1
    <3>1. f.total = 1 BY <1>2, <2>1 DEF Known
    <3>2. Exact({f}) BY <3>1, FS_Singleton DEF Exact, Distinct
    <3>3. items' = items /\ (UNCHANGED dataQueue \/ dataQueue' = Append(dataQueue, {f}))
      BY <2>1 DEF Arrives, Queued
    <3> QED BY <1>2, <3>2, <3>3
  <2>2. CASE ~(f.total <= 1) /\ Complete(item)
    <3>1. \A g \in item.parts : g.total = Cardinality(item.parts) BY <1>4, <2>2 DEF Complete
    <3>2. item.parts \subseteq Underway BY <1>2, <1>4, <1>5 DEF Underway
    <3>3. \A g, h \in item.parts : g.payload = h.payload
      BY <1>4, <3>2 DEF DatagramIInv, OneNumber
    <3>4. Exact(item.parts) BY <1>4, <3>1, <3>3 DEF Exact
    <3>5. items' = [items EXCEPT ![f.id] = NoItem] /\ (UNCHANGED dataQueue \/ dataQueue' = Append(dataQueue, item.parts))
      BY <2>2 DEF Arrives, Queued
    <3> QED BY <1>4, <3>2, <3>4, <3>5
  <2>3. CASE ~(f.total <= 1) /\ ~Complete(item)
    <3>1. items' = [items EXCEPT ![f.id] = item] /\ UNCHANGED dataQueue BY <2>3 DEF Arrives
    <3>2. Exact({}) BY FS_EmptySet DEF Exact, Distinct
    <3> QED BY <3>1, <3>2
  <2> QED BY <2>1, <2>2, <2>3
<1> HIDE DEF item
<1>7. PICK new \in [total: Nat, parts: SUBSET FragsSent] :
        /\ new.parts \subseteq items[f.id].parts \cup {f} /\ IsFiniteSet(new.parts) /\ Distinct(new.parts)
        /\ \A g \in new.parts : g.id = f.id /\ g.total = new.total
        /\ items' = [items EXCEPT ![f.id] = new]
  <2>1. CASE items' = items
    <3>1. items' = [items EXCEPT ![f.id] = items[f.id]] BY <1>2, <1>3, <2>1
    <3> QED BY <1>2, <1>3, <3>1 DEF DatagramIInv, GatheredApart
  <2>2. CASE items' = [items EXCEPT ![f.id] = NoItem]
    BY <2>2, FS_EmptySet DEF NoItem, Distinct
  <2>3. CASE items' = [items EXCEPT ![f.id] = item]
    BY <1>4, <2>3
  <2> QED BY <1>6, <2>1, <2>2, <2>3
<1>8. /\ items' \in [Ids -> [total: Nat, parts: SUBSET FragsSent]]
      /\ \A i \in Ids : items'[i] = IF i = f.id THEN new ELSE items[i]
  BY <1>2, <1>3, <1>7
<1>9. Ids' = Ids BY DEF Ids
<1>10. Gathering' \subseteq Gathering \cup {f} BY <1>5, <1>7, <1>8, <1>9 DEF Gathering
<1>11. Underway' \subseteq Underway BY <1>1, <1>2, <1>10 DEF Underway
<1>12. Heard' \subseteq Heard \cup {parts} /\ dataQueue' \in Seq(SUBSET FragsSent)
  <2>1. Range(Append(dataQueue, parts)) = Range(dataQueue) \cup {parts} /\ Append(dataQueue, parts) \in Seq(SUBSET FragsSent)
    BY <1>2, RangeAfterAppend
  <2> QED BY <1>1, <1>2, <1>6, <2>1 DEF Heard
<1>13. Everywhere' \subseteq Everywhere BY <1>6, <1>11, <1>12 DEF Everywhere
<1>14. NumbersInRange' /\ AllKnown' /\ AllJoin' /\ OneNumber' BY <1>1, <1>11, <1>13, FragmentsMove DEF DatagramIInv
<1>15. DatagramTypeOK' BY <1>1, <1>8, <1>9, <1>12 DEF DatagramIInv, DatagramTypeOK
<1>16. Sending' BY <1>1 DEF DatagramIInv, Sending
<1>17. TakenWhole' BY <1>6, <1>12 DEF DatagramIInv, TakenWhole, Exact, Distinct
<1>18. GatheredApart'
  <2>1. ASSUME NEW i \in Ids
        PROVE  /\ IsFiniteSet(items'[i].parts) /\ Distinct(items'[i].parts)
               /\ \A g \in items'[i].parts : g.id = i /\ g.total = items'[i].total
    <3>1. CASE i = f.id BY <1>7, <1>8, <3>1
    <3>2. CASE i # f.id BY <1>8, <3>2 DEF DatagramIInv, GatheredApart
    <3> QED BY <3>1, <3>2
  <2> QED BY <1>9, <2>1 DEF GatheredApart, Distinct
<1> QED BY <1>14, <1>15, <1>16, <1>17, <1>18 DEF DatagramIInv
\* A cut's pieces are known and join.
LEMMA CutIsKnown ==
  ASSUME NEW cut, NEW n, NEW p, NEW len, NEW id, IsCut(cut, n, p, len, id), NEW f \in Range(cut)
  PROVE  /\ f \in FragsSent /\ f.payload = p /\ f.id = id /\ f.total = n /\ f.index < f.total
         /\ f.index + 1 = f.total => f.off + f.size = len
         /\ \A g \in Range(cut) : f.index + 1 = g.index => f.off + f.size = g.off
<1>1. /\ n \in Nat \ {0} /\ cut \in Seq(FragsSent) /\ Len(cut) = n
      /\ \A k \in 1..n : /\ cut[k].payload = p /\ cut[k].id = id /\ cut[k].total = n
                         /\ cut[k].index = k - 1
                         /\ k < n => cut[k].off + cut[k].size = cut[k + 1].off
                         /\ k = n => cut[k].off + cut[k].size = len
  BY DEF IsCut
<1>2. Range(cut) = {cut[k] : k \in 1..n} /\ Range(cut) \subseteq FragsSent
  <2>1. cut \in Seq(FragsSent) /\ Len(cut) = n BY <1>1
  <2> QED BY <2>1, RangeAsSet
<1>4. PICK k \in 1..n : f = cut[k] BY <1>2
<1>5. /\ f \in FragsSent /\ f.payload = p /\ f.id = id /\ f.total = n /\ f.index = k - 1
      /\ k < n => f.off + f.size = cut[k + 1].off
      /\ k = n => f.off + f.size = len
  BY <1>1, <1>2, <1>4
<1>6. ASSUME NEW g \in Range(cut), f.index + 1 = g.index PROVE f.off + f.size = g.off
  <2>1. PICK j \in 1..n : g = cut[j] BY <1>2, <1>6
  <2>2. g.index = j - 1 BY <1>1, <2>1
  <2>3. j = k + 1 BY <1>5, <1>6, <2>2, <1>1
  <2>4. k < n BY <2>1, <2>3, <1>1
  <2> QED BY <1>5, <2>1, <2>3, <2>4
<1>7. k - 1 < n /\ (k - 1 + 1 = n => k = n) BY <1>1, <1>4
<1> QED BY <1>5, <1>6, <1>7

LEMMA WriteKept == DatagramIInv /\ WritesPayload => DatagramIInv'
<1> SUFFICES ASSUME DatagramIInv, WritesPayload PROVE DatagramIInv' OBVIOUS
<1> USE DatagramConstants
<1> DEFINE id == (packetId + 1) % PacketIds
           p == Len(written) + 1
<1>1. PICK len \in Lengths :
        /\ NumberIsFree(id) /\ packetId' = id
        /\ written' = Append(written, [len |-> len, id |-> id, cuts |-> <<Len(FirstCut(p, len, id))>>])
        /\ tx' = [frags |-> FirstCut(p, len, id), recut |-> FALSE]
  BY DEF WritesPayload
<1>2. /\ tx.frags = <<>> /\ written \in Seq(Entries) /\ packetId \in Nat /\ udpMTU \in Nat \ {0} /\ len \in Nat
      /\ UNCHANGED <<dproto, sizeLimit, udpMTU, net, items, dataQueue, delivered>>
  BY DEF WritesPayload, DatagramIInv, DatagramTypeOK
<1>3. id \in Ids /\ id \in Nat BY <1>2 DEF Ids
<1>4. p \in Nat /\ Len(written) \in Nat BY <1>2, LenProperties
<1> DEFINE mtu == IF dproto = "tuicStream" THEN len ELSE udpMTU
           cut == FragmentsOf(p, len, id, mtu)
           n == Pieces(len, mtu)
           entry == [len |-> len, id |-> id, cuts |-> <<n>>]
<1>5. mtu \in Nat /\ (mtu > 0 \/ len <= mtu) BY <1>2
<1>6. cut = FirstCut(p, len, id) BY DEF FirstCut
<1> HIDE DEF id, p, mtu
<1>0. p \in Nat /\ len \in Nat /\ id \in Nat /\ mtu \in Nat /\ (mtu > 0 \/ len <= mtu)
  BY <1>2, <1>3, <1>4, <1>5
<1>7. IsCut(cut, n, p, len, id) BY <1>0, CutIsWhole
<1> HIDE DEF cut, n
<1>8. /\ cut \in Seq(FragsSent) /\ Len(cut) = n /\ n \in Nat \ {0}
      /\ \A f \in Range(cut) :
           /\ f \in FragsSent /\ f.payload = p /\ f.id = id /\ f.total = n /\ f.index < f.total
           /\ f.index + 1 = f.total => f.off + f.size = len
           /\ \A g \in Range(cut) : f.index + 1 = g.index => f.off + f.size = g.off
  <2>1. cut \in Seq(FragsSent) /\ Len(cut) = n /\ n \in Nat \ {0} BY <1>7 DEF IsCut
  <2>2. ASSUME NEW f \in Range(cut)
        PROVE  /\ f \in FragsSent /\ f.payload = p /\ f.id = id /\ f.total = n /\ f.index < f.total
               /\ f.index + 1 = f.total => f.off + f.size = len
               /\ \A g \in Range(cut) : f.index + 1 = g.index => f.off + f.size = g.off
    BY <1>7, CutIsKnown
  <2> QED BY <2>1, <2>2
<1>9. written' = Append(written, entry) /\ tx' = [frags |-> cut, recut |-> FALSE] /\ packetId' = id
  BY <1>1, <1>6, <1>8
<1>10. entry \in Entries BY <1>2, <1>3, <1>8 DEF Entries
<1>11. /\ written' \in Seq(Entries) /\ Len(written') = p /\ written'[p] = entry
       /\ \A q \in 1..Len(written) : written'[q] = written[q]
       /\ 1..Len(written') = 1..Len(written) \cup {p} /\ p \notin 1..Len(written)
  BY <1>2, <1>4, <1>9, <1>10, AppendProperties DEF p
<1>12. entry.len = len /\ entry.id = id /\ entry.cuts = <<n>> /\ Len(<<n>>) = 1 /\ <<n>>[1] = n
  OBVIOUS
<1>13. GatheredApart' /\ TakenWhole' /\ Gathering' = Gathering /\ Heard' = Heard BY <1>2, NothingTaken
<1>14. Range(tx.frags) = {} BY <1>2 DEF Range
<1>15. Underway' = Underway \cup Range(cut) /\ Everywhere' = Everywhere \cup Range(cut)
  BY <1>2, <1>9, <1>13, <1>14 DEF Underway, Everywhere
<1>16. \A f \in Everywhere : f.payload \in 1..Len(written) /\ f.payload # p /\ written'[f.payload] = written[f.payload]
  BY <1>11 DEF DatagramIInv, AllKnown, Known
<1>17. DatagramTypeOK' BY <1>2, <1>3, <1>8, <1>9, <1>11 DEF DatagramIInv, DatagramTypeOK, Ids
<1>18. NumbersInRange'
  BY <1>3, <1>9, <1>11, <1>12 DEF DatagramIInv, NumbersInRange, Ids
<1>19. AllKnown'
  <2>1. ASSUME NEW f \in Everywhere PROVE Known(f)'
    BY <1>11, <1>16 DEF DatagramIInv, AllKnown, Known
  <2>2. ASSUME NEW f \in Range(cut) PROVE Known(f)'
    <3>1. /\ f.payload = p /\ f.id = id /\ f.total = n /\ f.index < f.total
          /\ f.index + 1 = f.total => f.off + f.size = len
      BY <1>8
    <3>2. /\ p \in 1..Len(written') /\ written'[p].id = id /\ written'[p].len = len
          /\ written'[p].cuts = <<n>>
      BY <1>11, <1>12
    <3>3. \E j \in 1..Len(written'[p].cuts) : written'[p].cuts[j] = n
      <4>1. 1 \in 1..Len(<<n>>) BY <1>12
      <4> QED BY <1>12, <3>2, <4>1
    <3> QED BY <3>1, <3>2, <3>3 DEF Known
  <2> QED BY <1>15, <2>1, <2>2 DEF AllKnown
<1>20. AllJoin'
  <2>1. ASSUME NEW f \in Everywhere, NEW g \in Everywhere PROVE Joins(f, g)'
    BY <1>16 DEF DatagramIInv, AllJoin, Joins, CutTwiceAlike
  <2>2. ASSUME NEW f \in Range(cut), NEW g \in Range(cut) PROVE Joins(f, g)'
    BY <1>8 DEF Joins
  <2>3. ASSUME NEW f \in Range(cut), NEW g \in Everywhere PROVE Joins(f, g)' /\ Joins(g, f)'
    BY <1>8, <1>16 DEF Joins
  <2> QED BY <1>15, <2>1, <2>2, <2>3 DEF AllJoin
<1>21. OneNumber'
  <2>1. \A f \in Underway : f.id # id
    <3>1. ASSUME NEW i \in Ids, NEW f \in items[i].parts PROVE f.id # id
      <4>1. f.id = i BY <3>1 DEF DatagramIInv, GatheredApart
      <4>2. items[id].parts = {} BY <1>1 DEF NumberIsFree
      <4> QED BY <4>1, <4>2
    <3>2. \A f \in net : f.id # id BY <1>1 DEF NumberIsFree
    <3> QED BY <1>14, <3>1, <3>2 DEF Underway, Gathering
  <2> QED BY <1>8, <1>15, <2>1 DEF DatagramIInv, OneNumber
<1>22. Sending' BY <1>4, <1>8, <1>9, <1>11, <1>12 DEF Sending
<1> QED BY <1>13, <1>17, <1>18, <1>19, <1>20, <1>21, <1>22 DEF DatagramIInv

LEMMA RecutKept == DatagramIInv /\ Recut => DatagramIInv'
<1> SUFFICES ASSUME DatagramIInv, Recut PROVE DatagramIInv' OBVIOUS
<1> USE DatagramConstants
<1> DEFINE p == Len(written)
<1>1. /\ tx.frags # <<>> /\ tx.frags \in Seq(FragsSent) /\ tx.recut \in BOOLEAN /\ written \in Seq(Entries)
      /\ packetId \in Nat /\ sizeLimit \in Nat \ {0} /\ udpMTU \in Nat \ {0}
      /\ UNCHANGED <<dproto, sizeLimit, packetId, net, items, dataQueue, delivered>>
  BY DEF Recut, DatagramIInv, DatagramTypeOK
<1>2. /\ Head(tx.frags) \in Range(tx.frags) /\ Range(tx.frags) \subseteq Underway
  BY <1>1, RangeAfterHead DEF Underway
<1>3. /\ p \in Nat /\ p > 0 /\ written[p].id = packetId
      /\ \A f \in Range(tx.frags) : f.payload = p
      /\ ~tx.recut => Len(written[p].cuts) = 1
  BY <1>1, LenProperties DEF DatagramIInv, Sending
<1>4. GatheredApart' /\ TakenWhole' /\ Gathering' = Gathering /\ Heard' = Heard BY <1>1, NothingTaken
<1>5. CASE tx.recut \/ sizeLimit <= Margin
  <2>1. tx' = NoTx /\ UNCHANGED <<udpMTU, written>> BY <1>5 DEF Recut
  <2>2. tx'.frags = <<>> /\ Range(<<>>) = {} BY <2>1 DEF NoTx, Range
  <2>3. Underway' \subseteq Underway /\ Everywhere' \subseteq Everywhere
    BY <1>1, <1>4, <2>2 DEF Underway, Everywhere
  <2>4. NumbersInRange' /\ AllKnown' /\ AllJoin' /\ OneNumber'
    BY <1>1, <2>1, <2>3, FragmentsMove DEF DatagramIInv
  <2>5. Sending' BY <2>2 DEF Sending
  <2>6. DatagramTypeOK' BY <1>1, <2>1 DEF DatagramIInv, DatagramTypeOK, NoTx
  <2> QED BY <1>4, <2>4, <2>5, <2>6 DEF DatagramIInv
<1>6. CASE ~tx.recut /\ ~(sizeLimit <= Margin)
  <2> DEFINE mtu == sizeLimit - Margin
             len == written[p].len
             cuts == written[p].cuts
             cut == FragmentsOf(p, len, packetId, mtu)
             n == Pieces(len, mtu)
  <2>1. mtu \in Nat /\ mtu > 0 BY <1>1, <1>6
  <2>2. p \in 1..Len(written) /\ written[p] \in Entries BY <1>1, <1>3, ElementOfSeq
  <2>3. len \in Nat /\ cuts \in Seq(Nat) /\ Len(cuts) = 1 BY <1>3, <1>6, <2>2 DEF Entries
  <2>0. /\ p \in Nat /\ len \in Nat /\ packetId \in Nat /\ mtu \in Nat /\ (mtu > 0 \/ len <= mtu)
    BY <1>1, <1>3, <2>1, <2>3
  <2>4. /\ tx' = [frags |-> cut, recut |-> TRUE]
        /\ udpMTU' = IF dproto = "tuic" THEN mtu ELSE udpMTU
        /\ written' = [written EXCEPT ![p].cuts = Append(@, Len(cut))]
    BY <1>6 DEF Recut
  <2> HIDE DEF mtu, len
  <2>5. IsCut(cut, n, p, len, packetId) BY <2>0, CutIsWhole
  <2> HIDE DEF cut, n, cuts
  <2>6. /\ cut \in Seq(FragsSent) /\ Len(cut) = n /\ n \in Nat \ {0}
        /\ \A f \in Range(cut) :
             /\ f \in FragsSent /\ f.payload = p /\ f.id = packetId /\ f.total = n /\ f.index < f.total
             /\ f.index + 1 = f.total => f.off + f.size = len
             /\ \A g \in Range(cut) : f.index + 1 = g.index => f.off + f.size = g.off
    <3>1. cut \in Seq(FragsSent) /\ Len(cut) = n /\ n \in Nat \ {0} BY <2>5 DEF IsCut
    <3>2. ASSUME NEW f \in Range(cut)
          PROVE  /\ f \in FragsSent /\ f.payload = p /\ f.id = packetId /\ f.total = n /\ f.index < f.total
                 /\ f.index + 1 = f.total => f.off + f.size = len
                 /\ \A g \in Range(cut) : f.index + 1 = g.index => f.off + f.size = g.off
      BY <2>5, CutIsKnown
    <3> QED BY <3>1, <3>2
  <2>7. /\ Append(cuts, n) \in Seq(Nat) /\ Len(Append(cuts, n)) = 2
        /\ Append(cuts, n)[1] = cuts[1] /\ Append(cuts, n)[2] = n
    <3>1. /\ Append(cuts, n) \in Seq(Nat) /\ Len(Append(cuts, n)) = Len(cuts) + 1
          /\ \A i \in 1..Len(cuts) : Append(cuts, n)[i] = cuts[i]
          /\ Append(cuts, n)[Len(cuts) + 1] = n
      <4>1. cuts \in Seq(Nat) /\ n \in Nat BY <2>3, <2>6
      <4> QED BY <4>1, AppendProperties
    <3>2. Len(cuts) = 1 /\ 1 \in 1..1 /\ 1 + 1 = 2 BY <2>3
    <3> QED BY <3>1, <3>2
  <2>8. /\ written' \in Seq(Entries) /\ Len(written') = p
        /\ written'[p].len = len /\ written'[p].id = packetId /\ written'[p].cuts = Append(cuts, n)
        /\ \A q \in 1..p : q # p => written'[q] = written[q]
    <3> DEFINE entry == [written[p] EXCEPT !.cuts = Append(@, n)]
    <3>1. written' = [written EXCEPT ![p] = entry] BY <2>4, <2>6
    <3>2. /\ entry \in Entries /\ entry.len = len /\ entry.id = packetId /\ entry.cuts = Append(cuts, n)
      BY <1>3, <2>2, <2>7 DEF Entries, len, cuts
    <3> HIDE DEF entry
    <3>3. /\ written' \in Seq(Entries) /\ Len(written') = Len(written) /\ written'[p] = entry
          /\ \A q \in 1..p : q # p => written'[q] = written[q]
      BY <1>1, <2>2, <3>1, <3>2, ExceptSeq
    <3> QED BY <3>2, <3>3
  <2>9. Underway' \subseteq Underway \cup Range(cut) /\ Everywhere' \subseteq Everywhere \cup Range(cut)
    BY <1>1, <1>4, <2>4 DEF Underway, Everywhere
  <2>10. DatagramTypeOK'
    <3>1. tx' \in [frags: Seq(FragsSent), recut: BOOLEAN] BY <2>4, <2>6
    <3>2. udpMTU' \in Nat \ {0} BY <1>1, <2>1, <2>4
    <3> QED BY <1>1, <2>8, <3>1, <3>2 DEF DatagramIInv, DatagramTypeOK
  <2>11. \A f \in Everywhere :
           /\ f.payload \in 1..p /\ written'[f.payload].len = written[f.payload].len
           /\ written'[f.payload].id = written[f.payload].id
           /\ f.payload # p => written'[f.payload] = written[f.payload]
    BY <1>3, <2>8 DEF DatagramIInv, AllKnown, Known, len
  <2>12. \A f \in Everywhere : f.payload = p => f.total = cuts[1]
    BY <2>3 DEF DatagramIInv, AllKnown, Known, cuts
  <2>13. NumbersInRange'
    BY <1>1, <1>3, <2>2, <2>8 DEF DatagramIInv, NumbersInRange, Ids
  <2>14. AllKnown'
    <3>1. ASSUME NEW f \in Everywhere PROVE Known(f)'
      <4>1. CASE f.payload = p
        BY <2>7, <2>8, <2>11, <2>12, <4>1 DEF DatagramIInv, AllKnown, Known
      <4>2. CASE f.payload # p
        BY <2>8, <2>11, <4>2 DEF DatagramIInv, AllKnown, Known
      <4> QED BY <4>1, <4>2
    <3>2. ASSUME NEW f \in Range(cut) PROVE Known(f)'
      <4>1. /\ f.payload = p /\ f.id = packetId /\ f.total = n /\ f.index < f.total
            /\ f.index + 1 = f.total => f.off + f.size = len
        BY <2>6
      <4>2. /\ p \in 1..Len(written') /\ written'[p].id = packetId /\ written'[p].len = len
            /\ written'[p].cuts = Append(cuts, n)
        BY <2>2, <2>8
      <4>3. \E j \in 1..Len(written'[p].cuts) : written'[p].cuts[j] = n
        <5>1. 2 \in 1..Len(Append(cuts, n)) BY <2>7
        <5> QED BY <2>7, <4>2, <5>1
      <4> QED BY <4>1, <4>2, <4>3 DEF Known
    <3> QED BY <2>9, <3>1, <3>2 DEF AllKnown
  <2>15. AllJoin'
    <3>1. cuts[1] = n => CutTwiceAlike(p)'
      BY <2>7, <2>8 DEF CutTwiceAlike
    <3>2. ASSUME NEW f \in Everywhere, NEW g \in Everywhere PROVE Joins(f, g)'
      <4>1. CASE f.payload = p
        <5>1. ~CutTwiceAlike(p)
          BY <2>3 DEF CutTwiceAlike, cuts
        <5> QED BY <4>1, <5>1 DEF DatagramIInv, AllJoin, Joins
      <4>2. CASE f.payload # p
        BY <2>11, <4>2 DEF DatagramIInv, AllJoin, Joins, CutTwiceAlike
      <4> QED BY <4>1, <4>2
    <3>3. ASSUME NEW f \in Range(cut), NEW g \in Range(cut) PROVE Joins(f, g)'
      BY <2>6 DEF Joins
    <3>4. ASSUME NEW f \in Range(cut), NEW g \in Everywhere PROVE Joins(f, g)' /\ Joins(g, f)'
      <4>1. f.payload = p /\ f.total = n BY <2>6
      <4>2. g.payload = p => g.total = cuts[1] BY <2>12
      <4>3. CASE g.payload # p BY <4>1, <4>3 DEF Joins
      <4>4. CASE g.payload = p /\ cuts[1] # n BY <4>1, <4>2, <4>4 DEF Joins
      <4>5. CASE g.payload = p /\ cuts[1] = n
        <5>1. /\ 1 \in 1..Len(written'[p].cuts) /\ 2 \in 1..Len(written'[p].cuts)
              /\ written'[p].cuts[1] = written'[p].cuts[2]
          BY <2>7, <2>8, <4>5
        <5>2. CutTwiceAlike(f.payload)' /\ CutTwiceAlike(g.payload)'
          BY <4>1, <4>5, <5>1 DEF CutTwiceAlike
        <5> QED BY <5>2 DEF Joins
      <4> QED BY <4>3, <4>4, <4>5
    <3> QED BY <2>9, <3>2, <3>3, <3>4 DEF AllJoin
  <2>16. OneNumber'
    <3>1. ASSUME NEW f \in Underway, f.id = packetId PROVE f.payload = p
      <4>1. Head(tx.frags).id = packetId /\ Head(tx.frags).payload = p /\ Head(tx.frags) \in Underway
        BY <1>2, <1>3 DEF DatagramIInv, AllKnown, Known, Everywhere
      <4> QED BY <3>1, <4>1 DEF DatagramIInv, OneNumber
    <3> QED BY <2>6, <2>9, <3>1 DEF DatagramIInv, OneNumber
  <2>17. Sending' BY <1>1, <1>3, <2>4, <2>6, <2>8 DEF Sending
  <2> QED BY <1>4, <2>10, <2>13, <2>14, <2>15, <2>16, <2>17 DEF DatagramIInv
<1> QED BY <1>1, <1>5, <1>6
LEMMA DatagramStepKept == DatagramIInv /\ [DatagramNext]_datagramVars => DatagramIInv'
<1> SUFFICES ASSUME DatagramIInv, [DatagramNext]_datagramVars PROVE DatagramIInv' OBVIOUS
<1>1. CASE WritesPayload \/ SendsFragment \/ Recut \/ Reads \/ (\E f \in net : Arrives(f))
  BY <1>1, WriteKept, SendsKept, RecutKept, ReadKept, ArrivalKept
<1>2. CASE LimitChanges \/ (\E f \in net : DatagramLost(f)) \/ (\E id \in 0..(PacketIds - 1) : Evicts(id))
  BY <1>2, PathKept, EvictionKept DEF Ids
<1>3. CASE UNCHANGED datagramVars
  <2>1. UNCHANGED <<dproto, sizeLimit, udpMTU, packetId, tx, written, net, items, dataQueue, delivered>>
    BY <1>3 DEF datagramVars
  <2>2. GatheredApart' /\ TakenWhole' /\ Gathering' = Gathering /\ Heard' = Heard BY <2>1, NothingTaken
  <2>3. Underway' \subseteq Underway /\ Everywhere' \subseteq Everywhere BY <2>1, <2>2 DEF Underway, Everywhere
  <2>4. NumbersInRange' /\ AllKnown' /\ AllJoin' /\ OneNumber' BY <2>1, <2>3, FragmentsMove DEF DatagramIInv
  <2>5. DatagramTypeOK' /\ Sending' BY <2>1 DEF DatagramIInv, DatagramTypeOK, Sending
  <2> QED BY <2>2, <2>4, <2>5 DEF DatagramIInv
<1> QED
  BY <1>1, <1>2, <1>3 DEF DatagramNext, H2DatagramNext, HysteriaDatagramNext, TuicDatagramNext, HysteriaWrites,
     HysteriaSends, HysteriaRecut, HysteriaArrives, HysteriaReads, TuicWrites, TuicSends, TuicRecut, TuicArrives,
     TuicReads

\* As many pieces as a cut has, each with an index of its own, are all of them.
LEMMA EveryPartIsThere ==
  ASSUME NEW parts \in SUBSET FragsSent, Exact(parts), parts # {}, \A f \in parts : f.index < f.total
  PROVE  /\ Cardinality(parts) \in Nat \ {0}
         /\ \A i \in 0..(Cardinality(parts) - 1) : Part(parts, i) \in parts /\ Part(parts, i).index = i
<1> DEFINE n == Cardinality(parts)
           ix == [f \in parts |-> f.index]
<1>1. IsFiniteSet(parts) /\ n \in Nat /\ n # 0 BY FS_CardinalityType, FS_EmptySet DEF Exact
<1>2. \A f \in parts : f.index \in 0..(n - 1)
  BY <1>1 DEF Exact, FragsSent
<1>3. ix \in Injection(parts, 0..(n - 1))
  BY <1>2 DEF Exact, Distinct, Injection, IsInjective
<1>4. IsFiniteSet(0..(n - 1)) /\ Cardinality(0..(n - 1)) = n
  <2>1. 0 \in Int /\ n - 1 \in Int /\ ~(0 > n - 1) /\ (n - 1) - 0 + 1 = n BY <1>1
  <2> HIDE DEF n
  <2> QED BY <2>1, FS_Interval
<1>5. ix \in Surjection(parts, 0..(n - 1)) BY <1>1, <1>3, <1>4, FS_Injection
<1>6. ASSUME NEW i \in 0..(n - 1) PROVE \E f \in parts : f.index = i
  BY <1>5 DEF Surjection
<1> QED BY <1>1, <1>6 DEF Part

LEMMA WholeIsPayload == DatagramIInv => DatagramInv
<1> SUFFICES ASSUME DatagramIInv, NEW parts \in Heard
             PROVE  /\ \A f, g \in parts : f.payload = g.payload /\ (f.index = g.index => f = g)
                    /\ \A f \in parts : Cardinality(parts) = f.total
                    /\ Contiguous(parts) \/ \E f \in parts : CutTwiceAlike(f.payload)
  BY DEF DatagramInv, Heard
<1>1. Exact(parts) BY DEF DatagramIInv, TakenWhole
<1>2. parts \in SUBSET FragsSent
  BY RangeAsSet DEF DatagramIInv, DatagramTypeOK, Heard
<1>3. parts \subseteq Everywhere BY DEF Everywhere
<1>4. ASSUME \A f \in parts : ~CutTwiceAlike(f.payload) PROVE Contiguous(parts)
  <2> DEFINE n == Cardinality(parts)
  <2>1. CASE parts = {}
    <3>1. n = 0 /\ \A i \in 0..(0 - 2) : FALSE BY <2>1, FS_EmptySet
    <3> QED BY <2>1, <3>1 DEF Contiguous
  <2>2. CASE parts # {}
    <3>1. \A f \in parts : Known(f) /\ f.index < f.total /\ f.total = n
      BY <1>1, <1>3 DEF DatagramIInv, AllKnown, Known, Exact
    <3>2. n \in Nat \ {0} /\ \A i \in 0..(n - 1) : Part(parts, i) \in parts /\ Part(parts, i).index = i
      BY <1>1, <1>2, <2>2, <3>1, EveryPartIsThere
    <3> HIDE DEF n
    <3>3. ASSUME NEW i \in 0..(n - 2) PROVE Part(parts, i).off + Part(parts, i).size = Part(parts, i + 1).off
      <4>1. i \in 0..(n - 1) /\ i + 1 \in 0..(n - 1) BY <3>2
      <4> DEFINE a == Part(parts, i)
                 b == Part(parts, i + 1)
      <4>2. a \in parts /\ b \in parts /\ a.index = i /\ b.index = i + 1 BY <3>2, <4>1
      <4> HIDE DEF a, b
      <4>3. Joins(a, b) /\ a.payload = b.payload /\ a.total = b.total /\ ~CutTwiceAlike(a.payload)
        BY <1>1, <1>3, <1>4, <3>1, <4>2 DEF DatagramIInv, AllJoin, Exact
      <4>4. a.off + a.size = b.off BY <4>2, <4>3 DEF Joins
      <4> QED BY <4>4 DEF a, b
    <3>4. ASSUME NEW f \in parts
          PROVE  Part(parts, n - 1).off + Part(parts, n - 1).size = written[f.payload].len
      <4> DEFINE a == Part(parts, n - 1)
      <4>1. a \in parts /\ a.index = n - 1
        <5>1. n - 1 \in 0..(n - 1) BY <3>2
        <5> QED BY <3>2, <5>1
      <4> HIDE DEF a
      <4>2. a.index + 1 = a.total BY <3>1, <3>2, <4>1
      <4>3. a.off + a.size = written[a.payload].len BY <3>1, <4>1, <4>2 DEF Known
      <4>4. a.payload = f.payload BY <1>1, <4>1 DEF Exact
      <4> QED BY <4>3, <4>4 DEF a
    <3> QED BY <3>3, <3>4 DEF Contiguous, n
  <2> QED BY <2>1, <2>2
<1> QED BY <1>1, <1>4 DEF Exact, Distinct

\* However fragments of a payload are lost, reordered, cut again while the path changes or left
\* behind by an earlier payload of the same number: what is read is one payload, all of its
\* fragments and each once, and joined they are its bytes, for any lengths, limits and numbers.
THEOREM PayloadsAreWhole == DatagramSpec => []DatagramInv
<1>1. DatagramSpec => []DatagramIInv BY DatagramStarts, DatagramStepKept, PTL DEF DatagramSpec
<1> QED BY <1>1, WholeIsPayload, PTL

-----------------------------------------------------------------------------
(* ProxyStream: each direction carries a run of consecutive data, headed at most once *)

\* What travels, and what each end keeps.
Items == [is: {"data", "request", "answer"}, n: Nat, ok: BOOLEAN]
NearKind == [asked: BOOLEAN, answer: BOOLEAN, failed: BOOLEAN, shut: BOOLEAN, sent: Nat, got: Seq(Items)]
FarKind == [at: {"none", "handled", "rejected"}, answered: BOOLEAN, refused: BOOLEAN, shut: BOOLEAN,
            sent: Nat, got: Seq(Items)]

StreamTypeOK == /\ near \in NearKind /\ far \in FarKind /\ up \in Seq(Items) /\ down \in Seq(Items)

\* The data from the one after the n-th.
DataAfter(s, n) == \A i \in 1..Len(s) : s[i] = Data(n + i)
\* One item, and the data from the first.
Headed(s, x) == s # <<>> /\ Head(s) = x /\ DataAfter(Tail(s), 0)

\* What the server has and what is on the way to it, in the order it was written.
UpInOrder ==
  /\ far.at # "rejected" /\ DataAfter(far.got, 0) /\ Len(far.got) <= near.sent
  /\ far.at = "none" =>
       /\ far.got = <<>> /\ far.sent = 0 /\ ~far.answered /\ ~far.shut /\ ~far.refused
       /\ ~near.asked => up = <<>> /\ near.sent = 0
       /\ near.asked => Headed(up, Request) /\ Len(up) = near.sent + 1
  /\ far.at = "handled" =>
       /\ near.asked
       /\ far.shut => up = <<>>
       /\ ~far.shut => DataAfter(up, Len(far.got)) /\ Len(far.got) + Len(up) = near.sent

\* What is on the way back: nothing before the answer, one answer, then the data.
Unanswered == down = <<>> /\ ~near.answer /\ far.sent = 0
Accepting == ~near.answer /\ near.got = <<>> /\ Headed(down, Answer(TRUE)) /\ Len(down) = far.sent + 1
Refusing == ~near.answer /\ far.refused /\ far.sent = 0 /\ down \in {<<>>, <<Answer(FALSE)>>}
Relaying == DataAfter(down, Len(near.got)) /\ Len(near.got) + Len(down) = far.sent
DownInOrder ==
  /\ DataAfter(near.got, 0) /\ Len(near.got) <= far.sent
  /\ near.failed => far.refused /\ far.sent = 0
  /\ near.shut => down = <<>>
  /\ ~near.shut =>
       IF streamProtocol = "tuic" THEN Relaying /\ ~near.failed
       ELSE /\ ~far.answered => Unanswered /\ ~near.failed
            /\ far.answered => (Accepting /\ ~near.failed) \/ Refusing \/ (near.answer /\ Relaying /\ ~near.failed)

\* RelayInv with what is under way in both directions.
RelayIInv == StreamTypeOK /\ UpInOrder /\ DownInOrder

LEMMA WhatTravels == /\ \A n \in Nat : Data(n) \in Items
               /\ Request \in Items /\ \A b \in BOOLEAN : Answer(b) \in Items
  BY DEF Data, Request, Answer, Items

LEMMA RunTail ==
  ASSUME NEW s \in Seq(Items), NEW n \in Nat, s # <<>>, DataAfter(s, n)
  PROVE  /\ Head(s) = Data(n + 1) /\ DataAfter(Tail(s), n + 1)
         /\ Tail(s) \in Seq(Items) /\ Len(Tail(s)) = Len(s) - 1
<1>1. Len(s) \in Nat \ {0} /\ Tail(s) \in Seq(Items) /\ Len(Tail(s)) = Len(s) - 1 /\ Head(s) = s[1]
  BY EmptySeq, LenProperties, HeadTailProperties
<1>2. Head(s) = Data(n + 1) BY <1>1 DEF DataAfter
<1>3. ASSUME NEW i \in 1..Len(Tail(s)) PROVE Tail(s)[i] = Data((n + 1) + i)
  <2>1. Tail(s)[i] = s[i + 1] BY <1>1, <1>3, HeadTailProperties
  <2>2. i + 1 \in 1..Len(s) /\ n + (i + 1) = (n + 1) + i BY <1>1
  <2> QED BY <2>1, <2>2 DEF DataAfter
<1> QED BY <1>1, <1>2, <1>3 DEF DataAfter

LEMMA RunAppend ==
  ASSUME NEW s \in Seq(Items), NEW n \in Nat, DataAfter(s, n), NEW m \in Nat, m = n + Len(s) + 1
  PROVE  /\ DataAfter(Append(s, Data(m)), n) /\ Append(s, Data(m)) \in Seq(Items)
         /\ Append(s, Data(m)) = s \o <<Data(m)>> /\ Len(Append(s, Data(m))) = Len(s) + 1
<1>1. Data(m) \in Items /\ Len(s) \in Nat BY WhatTravels, LenProperties
<1>2. /\ Append(s, Data(m)) \in Seq(Items) /\ Len(Append(s, Data(m))) = Len(s) + 1
      /\ \A i \in 1..Len(s) : Append(s, Data(m))[i] = s[i]
      /\ Append(s, Data(m))[Len(s) + 1] = Data(m)
  BY <1>1, AppendProperties
<1>3. Append(s, Data(m)) = s \o <<Data(m)>> BY <1>1, AppendIsConcat
<1>4. ASSUME NEW i \in 1..(Len(s) + 1) PROVE Append(s, Data(m))[i] = Data(n + i)
  <2>1. CASE i \in 1..Len(s) BY <2>1, <1>2 DEF DataAfter
  <2>2. CASE i = Len(s) + 1
    <3>1. n + i = m BY <2>2, <1>1
    <3> QED BY <2>2, <3>1, <1>2
  <2> QED BY <2>1, <2>2, <1>1
<1> QED BY <1>2, <1>3, <1>4 DEF DataAfter

LEMMA OneMore ==
  ASSUME NEW s \in Seq(Items), DataAfter(s, 0), NEW x, x = Data(Len(s) + 1)
  PROVE  DataAfter(Append(s, x), 0) /\ Append(s, x) \in Seq(Items) /\ Len(Append(s, x)) = Len(s) + 1
<1>1. 0 \in Nat /\ Len(s) + 1 \in Nat /\ Len(s) + 1 = 0 + Len(s) + 1  BY LenProperties
<1> QED BY <1>1, RunAppend

LEMMA OneLonger ==
  ASSUME NEW a \in Nat, NEW b \in Nat, NEW c, a + b = c
  PROVE  a + (b + 1) = c + 1 /\ a <= c + 1
  OBVIOUS

LEMMA Nothing == \A n \in Nat : DataAfter(<<>>, n)
  BY EmptySeq DEF DataAfter

LEMMA HeadedTail ==
  ASSUME NEW s \in Seq(Items), NEW x, Headed(s, x)
  PROVE  /\ Head(s) = x /\ DataAfter(Tail(s), 0) /\ Tail(s) \in Seq(Items)
         /\ Len(Tail(s)) = Len(s) - 1 /\ Len(s) \in Nat \ {0}
  BY EmptySeq, LenProperties, HeadTailProperties DEF Headed

LEMMA HeadedAppend ==
  ASSUME NEW s \in Seq(Items), NEW x, Headed(s, x), NEW m \in Nat, m = Len(s)
  PROVE  /\ Headed(s \o <<Data(m)>>, x) /\ s \o <<Data(m)>> \in Seq(Items)
         /\ Len(s \o <<Data(m)>>) = Len(s) + 1
<1>1. /\ Head(s) = x /\ DataAfter(Tail(s), 0) /\ Tail(s) \in Seq(Items)
      /\ Len(Tail(s)) = Len(s) - 1 /\ Len(s) \in Nat \ {0} /\ s # <<>>
  BY HeadedTail DEF Headed
<1> DEFINE t == s \o <<Data(m)>>
<1>2. t \in Seq(Items) /\ Len(t) = Len(s) + 1 /\ t = Append(s, Data(m))
  BY WhatTravels, AppendProperties, AppendIsConcat
<1>3. t # <<>> /\ Head(t) = s[1] /\ Head(s) = s[1]
  BY <1>1, <1>2, EmptySeq, AppendProperties, HeadTailProperties, WhatTravels
<1>4. ASSUME NEW i \in 1..Len(Tail(t)) PROVE Tail(t)[i] = Data(0 + i)
  <2>1. i \in 1..Len(s) /\ Tail(t)[i] = t[i + 1] BY <1>1, <1>2, <1>3, <1>4, HeadTailProperties
  <2>2. CASE i = Len(s) BY <2>1, <2>2, <1>2, <1>1, AppendProperties, WhatTravels
  <2>3. CASE i # Len(s)
    <3>1. i + 1 \in 1..Len(s) /\ i \in 1..Len(Tail(s)) BY <2>1, <2>3, <1>1
    <3>2. t[i + 1] = s[i + 1] BY <3>1, <1>2, AppendProperties, WhatTravels
    <3>3. Tail(s)[i] = s[i + 1] BY <3>1, <1>1, HeadTailProperties
    <3>4. Tail(s)[i] = Data(0 + i) BY <3>1, <1>1 DEF DataAfter
    <3> QED BY <2>1, <3>2, <3>3, <3>4
  <2> QED BY <2>2, <2>3
<1> QED BY <1>1, <1>2, <1>3, <1>4 DEF Headed, DataAfter

LEMMA HeadedAlone ==
  ASSUME NEW x \in Items
  PROVE  /\ Headed(<<x>>, x) /\ <<x>> \in Seq(Items) /\ Len(<<x>>) = 1 /\ Tail(<<x>>) = <<>>
<1>1. <<x>> \in Seq(Items) /\ Len(<<x>>) = 1 /\ Head(<<x>>) = x /\ Tail(<<x>>) = <<>> /\ <<x>> # <<>> OBVIOUS
<1> QED BY <1>1, Nothing DEF Headed

LEMMA HeadedPair ==
  ASSUME NEW x \in Items
  PROVE  /\ Headed(<<x, Data(1)>>, x) /\ <<x, Data(1)>> \in Seq(Items) /\ Len(<<x, Data(1)>>) = 2
<1>1. Data(1) \in Items BY WhatTravels
<1> DEFINE t == <<x, Data(1)>>
<1>2. t \in Seq(Items) /\ Len(t) = 2 /\ t[1] = x /\ t[2] = Data(1) /\ t # <<>> BY <1>1
<1>3. Head(t) = x /\ Len(Tail(t)) = 1 /\ Tail(t)[1] = t[2]
  BY <1>2, HeadTailProperties
<1>4. \A i \in 1..Len(Tail(t)) : Tail(t)[i] = Data(0 + i) BY <1>2, <1>3
<1> QED BY <1>2, <1>3, <1>4 DEF Headed, DataAfter

\* What an answer heads is no run of data.
LEMMA HeadedNotRun ==
  ASSUME NEW s \in Seq(Items), NEW n \in Nat, NEW b \in BOOLEAN, Headed(s, Answer(b)), DataAfter(s, n)
  PROVE  FALSE
<1>1. Head(s) = Answer(b) /\ s # <<>> BY DEF Headed
<1>2. Head(s) = Data(n + 1) BY <1>1, RunTail
<1> QED BY <1>1, <1>2 DEF Answer, Data

LEMMA ThereAreStreams == StreamInit => RelayIInv
<1> SUFFICES ASSUME StreamInit PROVE RelayIInv OBVIOUS
<1>1. StreamTypeOK BY DEF StreamInit, StreamTypeOK, NearKind, FarKind
<1>2. Len(near.got) = 0 /\ Len(far.got) = 0 /\ DataAfter(near.got, 0) /\ DataAfter(far.got, 0)
  BY Nothing DEF StreamInit
<1>3. UpInOrder BY <1>2 DEF StreamInit, UpInOrder
<1>4. DownInOrder
  <2>1. Relaying BY <1>2, Nothing DEF StreamInit, Relaying
  <2> QED BY <1>2, <2>1 DEF StreamInit, DownInOrder, Unanswered
<1> QED BY <1>1, <1>3, <1>4 DEF RelayIInv

LEMMA ClientWritesInOrder == RelayIInv /\ ClientWrites => RelayIInv'
<1> SUFFICES ASSUME RelayIInv, ClientWrites PROVE RelayIInv' OBVIOUS
<1>1. /\ near \in NearKind /\ far \in FarKind /\ up \in Seq(Items) /\ down \in Seq(Items)
      /\ near.sent \in Nat /\ Len(far.got) \in Nat /\ Len(up) \in Nat
  BY LenProperties DEF RelayIInv, StreamTypeOK, NearKind, FarKind
<1>2. /\ near' \in NearKind /\ near'.asked /\ near'.sent = near.sent + 1 /\ near'.got = near.got
      /\ near'.shut = near.shut /\ near'.answer = near.answer /\ near'.failed = near.failed
      /\ far' = far /\ down' = down /\ streamProtocol' = streamProtocol
  <2>1. /\ near' = [near EXCEPT !.asked = TRUE, !.sent = @ + 1]
        /\ far' = far /\ down' = down /\ streamProtocol' = streamProtocol
    BY DEF ClientWrites
  <2>2. near.sent + 1 \in Nat BY <1>1
  <2> QED BY <1>1, <2>1, <2>2 DEF NearKind
<1>3. DownInOrder'
  BY <1>2 DEF RelayIInv, DownInOrder, Unanswered, Accepting, Refusing, Relaying
<1>4. up' \in Seq(Items) /\ UpInOrder'
  <2> DEFINE d == Data(near.sent + 1)
  <2>1. CASE far.shut
    BY <1>1, <1>2, <2>1 DEF RelayIInv, UpInOrder, ClientWrites
  <2>2. CASE ~far.shut /\ far.at = "none" /\ ~near.asked
    <3>1. up = <<>> /\ near.sent = 0 BY <2>2 DEF RelayIInv, UpInOrder
    <3>2. up' = up \o <<Request, Data(1)>> BY <2>2, <3>1 DEF ClientWrites, WithRequest
    <3>3. /\ Headed(<<Request, Data(1)>>, Request) /\ <<Request, Data(1)>> \in Seq(Items)
          /\ Len(<<Request, Data(1)>>) = 2
      BY HeadedPair, WhatTravels
    <3>4. up' = <<Request, Data(1)>> BY <3>1, <3>2, <3>3, ConcatEmptySeq
    <3> QED BY <1>1, <1>2, <2>2, <3>1, <3>3, <3>4 DEF RelayIInv, UpInOrder
  <2>3. CASE ~far.shut /\ far.at = "none" /\ near.asked
    <3>1. Headed(up, Request) /\ Len(up) = near.sent + 1 BY <2>3 DEF RelayIInv, UpInOrder
    <3>2. up' = up \o <<d>> BY <2>3 DEF ClientWrites, WithRequest
    <3>3. Headed(up', Request) /\ up' \in Seq(Items) /\ Len(up') = Len(up) + 1
      BY <1>1, <3>1, <3>2, HeadedAppend
    <3> QED BY <1>1, <1>2, <2>3, <3>1, <3>3 DEF RelayIInv, UpInOrder
  <2>4. CASE ~far.shut /\ far.at = "handled"
    <3>1. near.asked /\ DataAfter(up, Len(far.got)) /\ Len(far.got) + Len(up) = near.sent
      BY <2>4 DEF RelayIInv, UpInOrder
    <3>2. up' = up \o <<d>> BY <2>4, <3>1 DEF ClientWrites, WithRequest
    <3>3. DataAfter(up', Len(far.got)) /\ up' \in Seq(Items) /\ Len(up') = Len(up) + 1
      <4>1. near.sent + 1 \in Nat /\ near.sent + 1 = Len(far.got) + Len(up) + 1 BY <1>1, <3>1
      <4>2. up \in Seq(Items) /\ Len(far.got) \in Nat /\ DataAfter(up, Len(far.got)) BY <1>1, <3>1
      <4>3. /\ DataAfter(Append(up, d), Len(far.got)) /\ Append(up, d) \in Seq(Items)
            /\ Append(up, d) = up \o <<d>> /\ Len(Append(up, d)) = Len(up) + 1
        BY <4>1, <4>2, RunAppend
      <4> QED BY <3>2, <4>3
    <3>4. DataAfter(up', Len(far'.got)) /\ far'.at = "handled" /\ ~far'.shut /\ near'.asked
      BY <1>2, <2>4, <3>3
    <3>5. Len(far'.got) = Len(far.got) BY <1>2
    <3>6. Len(far'.got) + Len(up') = near'.sent /\ Len(far'.got) <= near'.sent
      <4>1. Len(far.got) + Len(up) = near.sent BY <3>1
      <4>2. near'.sent = near.sent + 1 /\ Len(up') = Len(up) + 1 BY <1>2, <3>3
      <4>3. Len(far.got) \in Nat /\ Len(up) \in Nat /\ near.sent \in Nat BY <1>1
      <4>4. Len(far.got) + (Len(up) + 1) = near.sent + 1 /\ Len(far.got) <= near.sent + 1
        BY <4>1, <4>3, OneLonger
      <4> QED BY <3>5, <4>2, <4>4
    <3>7. DataAfter(far'.got, 0) BY <1>2 DEF RelayIInv, UpInOrder
    <3> QED BY <3>3, <3>4, <3>6, <3>7 DEF UpInOrder
  <2> QED BY <1>1, <2>1, <2>2, <2>3, <2>4 DEF FarKind, RelayIInv, UpInOrder
<1> QED BY <1>1, <1>2, <1>3, <1>4 DEF RelayIInv, StreamTypeOK

LEMMA ClientReadsInOrder == RelayIInv /\ ClientReads => RelayIInv'
<1> SUFFICES ASSUME RelayIInv, ClientReads PROVE RelayIInv' OBVIOUS
<1>1. /\ near \in NearKind /\ far \in FarKind /\ up \in Seq(Items) /\ down \in Seq(Items)
      /\ near.got \in Seq(Items) /\ far.sent \in Nat
      /\ ~near.shut /\ down # <<>> /\ down' = Tail(down) /\ far' = far /\ up' = up
      /\ streamProtocol' = streamProtocol
      /\ Len(near.got) \in Nat /\ Len(down) \in Nat \ {0} /\ Head(down) \in Items /\ down' \in Seq(Items)
  BY LenProperties, HeadTailProperties, EmptySeq
     DEF RelayIInv, StreamTypeOK, NearKind, FarKind, ClientReads
<1> DEFINE h == Head(down)
           opened == h.ok /\ h.is = "answer"
<1>2. CASE streamProtocol = "tuic" \/ near.answer
  <2>1. Relaying /\ ~near.failed
    BY <1>1, <1>2 DEF RelayIInv, DownInOrder, Unanswered, Accepting, Refusing
  <2>2. /\ h = Data(Len(near.got) + 1) /\ DataAfter(down', Len(near.got) + 1) /\ Len(down') = Len(down) - 1
    BY <1>1, <2>1, RunTail DEF Relaying
  <2>3. near' = [near EXCEPT !.got = Append(@, h)] BY <1>2 DEF ClientReads
  <2>4. DataAfter(near.got, 0) BY DEF RelayIInv, DownInOrder
  <2>5. /\ DataAfter(Append(near.got, h), 0) /\ Append(near.got, h) \in Seq(Items)
        /\ Len(Append(near.got, h)) = Len(near.got) + 1
    <3>1. near.got \in Seq(Items) BY <1>1
    <3> QED BY <2>2, <2>4, <3>1, OneMore
  <2>6. /\ near' \in NearKind /\ near'.got = Append(near.got, h) /\ near'.asked = near.asked
        /\ near'.sent = near.sent /\ near'.shut = near.shut /\ near'.answer = near.answer
        /\ near'.failed = near.failed
    BY <1>1, <2>3, <2>5 DEF NearKind
  <2>7. Len(near.got) + Len(down) = far.sent BY <2>1 DEF Relaying
  <2>8. Relaying'
    BY <1>1, <2>2, <2>5, <2>6, <2>7 DEF Relaying
  <2>9. DownInOrder'
    BY <1>1, <1>2, <2>1, <2>5, <2>6, <2>7, <2>8 DEF RelayIInv, DownInOrder, Unanswered
  <2>10. UpInOrder' BY <1>1, <2>6 DEF RelayIInv, UpInOrder
  <2> QED BY <1>1, <2>6, <2>9, <2>10 DEF RelayIInv, StreamTypeOK
<1>3. CASE streamProtocol # "tuic" /\ ~near.answer
  <2>1. near' = [near EXCEPT !.answer = opened, !.failed = @ \/ ~opened]
    BY <1>3 DEF ClientReads
  <2>2. /\ near' \in NearKind /\ near'.got = near.got /\ near'.asked = near.asked
        /\ near'.sent = near.sent /\ near'.shut = near.shut /\ near'.answer = opened
        /\ near'.failed = (near.failed \/ ~opened)
    BY <1>1, <2>1 DEF NearKind, Items
  <2>3. UpInOrder' BY <1>1, <2>2 DEF RelayIInv, UpInOrder
  <2>4. far.answered BY <1>1, <1>3 DEF RelayIInv, DownInOrder, Unanswered
  <2>5. DataAfter(near.got, 0) /\ Len(near.got) <= far.sent BY DEF RelayIInv, DownInOrder
  <2>6. CASE Accepting /\ ~near.failed
    <3>1. /\ h = Answer(TRUE) /\ DataAfter(down', 0) /\ Len(down') = far.sent
      <4>1. Headed(down, Answer(TRUE)) /\ Len(down) = far.sent + 1 BY <2>6 DEF Accepting
      <4>2. /\ Head(down) = Answer(TRUE) /\ DataAfter(Tail(down), 0) /\ Len(Tail(down)) = Len(down) - 1
        BY <1>1, <4>1, HeadedTail
      <4>3. Len(Tail(down)) = far.sent BY <1>1, <4>1, <4>2
      <4> QED BY <1>1, <4>2, <4>3
    <3>2. opened BY <3>1 DEF Answer
    <3>3. Len(near.got) = 0
      BY <2>6 DEF Accepting
    <3>4. Relaying' BY <1>1, <2>2, <3>1, <3>3 DEF Relaying
    <3> QED BY <1>1, <1>3, <2>2, <2>3, <2>4, <2>5, <2>6, <3>2, <3>4 DEF RelayIInv, StreamTypeOK, DownInOrder
  <2>7. CASE Refusing
    <3>1. down = <<Answer(FALSE)>> BY <1>1, <2>7 DEF Refusing
    <3>2. h = Answer(FALSE) /\ down' = <<>> BY <1>1, <3>1, HeadedAlone, WhatTravels DEF Headed
    <3>3. ~opened BY <3>2 DEF Answer
    <3>4. Refusing' /\ far.refused /\ far.sent = 0 BY <1>1, <2>2, <2>7, <3>2, <3>3 DEF Refusing
    <3> QED BY <1>1, <1>3, <2>2, <2>3, <2>4, <2>5, <3>4 DEF RelayIInv, StreamTypeOK, DownInOrder
  <2> QED BY <1>1, <1>3, <2>4, <2>6, <2>7 DEF RelayIInv, DownInOrder
<1> QED BY <1>2, <1>3

LEMMA ClientClosesInOrder == RelayIInv /\ ClientCloses => RelayIInv'
<1> SUFFICES ASSUME RelayIInv, ClientCloses PROVE RelayIInv' OBVIOUS
<1>1. near \in NearKind BY DEF RelayIInv, StreamTypeOK
<1>2. /\ near' \in NearKind /\ near'.got = near.got /\ near'.asked = near.asked
      /\ near'.sent = near.sent /\ near'.shut /\ near'.answer = near.answer /\ near'.failed = near.failed
      /\ down' = <<>> /\ far' = far /\ up' = up /\ streamProtocol' = streamProtocol
  BY <1>1 DEF ClientCloses, NearKind
<1>3. UpInOrder' BY <1>2 DEF RelayIInv, UpInOrder
<1>4. DownInOrder' BY <1>2 DEF RelayIInv, DownInOrder
<1> QED BY <1>2, <1>3, <1>4 DEF RelayIInv, StreamTypeOK

LEMMA ServerTakesInOrder == RelayIInv /\ ServerTakes => RelayIInv'
<1> SUFFICES ASSUME RelayIInv, ServerTakes PROVE RelayIInv' OBVIOUS
<1>1. near \in NearKind /\ far \in FarKind /\ up \in Seq(Items) /\ near.sent \in Nat
  BY DEF RelayIInv, StreamTypeOK, NearKind
<1>2. /\ near.asked /\ Headed(up, Request) /\ Len(up) = near.sent + 1
      /\ far.got = <<>> /\ far.sent = 0 /\ ~far.shut
  BY <1>1 DEF RelayIInv, UpInOrder, ServerTakes, NearKind
<1>3. /\ Head(up) = Request /\ DataAfter(up', 0) /\ up' \in Seq(Items) /\ Len(up') = near.sent
  BY <1>1, <1>2, HeadedTail DEF ServerTakes
<1>4. /\ far' \in FarKind /\ far'.at = "handled" /\ far'.got = far.got /\ far'.sent = far.sent
      /\ far'.answered = far.answered /\ far'.refused = far.refused /\ far'.shut = far.shut
      /\ near' = near /\ down' = down /\ streamProtocol' = streamProtocol
  BY <1>1, <1>3 DEF ServerTakes, FarKind
<1>5. Len(far.got) = 0 BY <1>2
<1>6. UpInOrder' BY <1>1, <1>2, <1>3, <1>4, <1>5 DEF RelayIInv, UpInOrder
<1>7. DownInOrder' BY <1>4 DEF RelayIInv, DownInOrder, Unanswered, Accepting, Refusing, Relaying
<1> QED BY <1>3, <1>4, <1>6, <1>7 DEF RelayIInv, StreamTypeOK

LEMMA ServerReadsInOrder == RelayIInv /\ ServerReads => RelayIInv'
<1> SUFFICES ASSUME RelayIInv, ServerReads PROVE RelayIInv' OBVIOUS
<1>1. /\ near \in NearKind /\ far \in FarKind /\ up \in Seq(Items) /\ near.sent \in Nat /\ far.got \in Seq(Items)
      /\ Len(far.got) \in Nat /\ Len(up) \in Nat
  BY LenProperties DEF RelayIInv, StreamTypeOK, NearKind, FarKind
<1>2. /\ near.asked /\ DataAfter(up, Len(far.got)) /\ Len(far.got) + Len(up) = near.sent
      /\ DataAfter(far.got, 0) /\ up # <<>> /\ far.at = "handled"
  BY DEF RelayIInv, UpInOrder, ServerReads
<1>3. /\ Head(up) = Data(Len(far.got) + 1) /\ DataAfter(up', Len(far.got) + 1)
      /\ up' \in Seq(Items) /\ Len(up') = Len(up) - 1
  BY <1>1, <1>2, RunTail DEF ServerReads
<1>4. /\ DataAfter(Append(far.got, Head(up)), 0) /\ Append(far.got, Head(up)) \in Seq(Items)
      /\ Len(Append(far.got, Head(up))) = Len(far.got) + 1
  <2>1. far.got \in Seq(Items) /\ DataAfter(far.got, 0) /\ Head(up) = Data(Len(far.got) + 1)
    BY <1>1, <1>2, <1>3
  <2> QED BY <2>1, OneMore
<1>5. /\ far' \in FarKind /\ far'.at = far.at /\ far'.got = Append(far.got, Head(up)) /\ far'.sent = far.sent
      /\ far'.answered = far.answered /\ far'.refused = far.refused /\ far'.shut = far.shut /\ ~far.shut
      /\ near' = near /\ down' = down /\ streamProtocol' = streamProtocol
  BY <1>1, <1>4 DEF ServerReads, FarKind
<1>6. Len(up) > 0 BY <1>1, <1>2, EmptySeq
<1>7. UpInOrder' BY <1>1, <1>2, <1>3, <1>4, <1>5, <1>6 DEF RelayIInv, UpInOrder
<1>8. DownInOrder' BY <1>5 DEF RelayIInv, DownInOrder, Unanswered, Accepting, Refusing, Relaying
<1> QED BY <1>3, <1>5, <1>7, <1>8 DEF RelayIInv, StreamTypeOK

\* A step of the handler that sends items moves neither what was read nor the way up.
LEMMA TheHandlerLeavesTheWayUp ==
  ASSUME RelayIInv, far' \in FarKind, far'.at = far.at, far'.got = far.got, far'.shut = far.shut,
         far.at = "handled", UNCHANGED <<up, near>>
  PROVE  UpInOrder'
<1>1. far.at # "none" OBVIOUS
<1> QED BY <1>1 DEF RelayIInv, UpInOrder

LEMMA HandshakesKeepOrder == RelayIInv /\ (HandshakeSuccess \/ HandshakeFailure) => RelayIInv'
<1> SUFFICES ASSUME RelayIInv, HandshakeSuccess \/ HandshakeFailure PROVE RelayIInv' OBVIOUS
<1>1. PICK ok \in BOOLEAN :
        /\ far.at = "handled" /\ ~far.shut /\ streamProtocol # "tuic" /\ Sends(Answers(ok))
        /\ far' = [far EXCEPT !.answered = TRUE, !.refused = IF ok THEN @ ELSE TRUE]
        /\ streamProtocol' = streamProtocol /\ up' = up /\ near' = near
  <2>1. CASE HandshakeSuccess
    <3>1. far \in FarKind BY DEF RelayIInv, StreamTypeOK
    <3>2. [far EXCEPT !.answered = TRUE] = [far EXCEPT !.answered = TRUE, !.refused = IF TRUE THEN @ ELSE TRUE]
      BY <3>1 DEF FarKind
    <3> QED BY <2>1, <3>2 DEF HandshakeSuccess
  <2>2. CASE HandshakeFailure BY <2>2 DEF HandshakeFailure
  <2> QED BY <2>1, <2>2
<1>2. /\ near \in NearKind /\ far \in FarKind /\ up \in Seq(Items) /\ down \in Seq(Items)
  BY DEF RelayIInv, StreamTypeOK
<1>3. /\ far' \in FarKind /\ far'.at = far.at /\ far'.got = far.got /\ far'.shut = far.shut
      /\ far'.sent = far.sent /\ far'.answered /\ far'.refused = (far.refused \/ ~ok)
  BY <1>1, <1>2 DEF FarKind
<1>4. UpInOrder' BY <1>1, <1>3, TheHandlerLeavesTheWayUp
<1>5. down' \in Seq(Items) /\ DownInOrder'
  <2>1. CASE near.shut
    BY <1>1, <1>3, <2>1 DEF Sends, RelayIInv, DownInOrder
  <2>2. CASE ~near.shut /\ far.answered
    <3>1. down' = down BY <1>1, <1>2, <2>2, ConcatEmptySeq DEF Sends, Answers
    <3> QED BY <1>1, <1>2, <1>3, <2>2, <3>1 DEF RelayIInv, DownInOrder, Accepting, Refusing, Relaying
  <2>3. CASE ~near.shut /\ ~far.answered
    <3>1. down = <<>> /\ ~near.answer /\ far.sent = 0 /\ ~near.failed
      BY <1>1, <2>3 DEF RelayIInv, DownInOrder, Unanswered
    <3>2. Answer(ok) \in Items BY WhatTravels
    <3>3. /\ Headed(<<Answer(ok)>>, Answer(ok)) /\ <<Answer(ok)>> \in Seq(Items) /\ Len(<<Answer(ok)>>) = 1
      BY <3>2, HeadedAlone
    <3>4. down' = <<Answer(ok)>>
      BY <1>1, <2>3, <3>1, <3>3, ConcatEmptySeq DEF Sends, Answers
    <3>5. near.got = <<>>
      BY <1>2, <3>1, LenProperties, EmptySeq DEF RelayIInv, DownInOrder, NearKind
    <3>6. CASE ok
      <4>1. Answer(ok) = Answer(TRUE) BY <3>6
      <4>2. Headed(down', Answer(TRUE)) /\ Len(down') = 1 BY <3>3, <3>4, <4>1
      <4>3. far'.sent = 0 /\ near' = near /\ 0 + 1 = 1 BY <1>1, <1>3, <3>1
      <4>4. Len(down') = far'.sent + 1 BY <4>2, <4>3
      <4>5. Accepting' BY <3>1, <3>5, <4>2, <4>3, <4>4 DEF Accepting
      <4> QED BY <1>1, <1>3, <2>3, <3>1, <3>3, <3>4, <4>5 DEF RelayIInv, DownInOrder
    <3>7. CASE ~ok
      <4>1. Answer(ok) = Answer(FALSE) BY <3>7
      <4>2. Refusing' BY <1>1, <1>3, <3>1, <3>4, <3>7, <4>1 DEF Refusing
      <4> QED BY <1>1, <1>3, <2>3, <3>1, <3>3, <3>4, <4>2 DEF RelayIInv, DownInOrder
    <3> QED BY <3>6, <3>7
  <2> QED BY <2>1, <2>2, <2>3
<1> QED BY <1>1, <1>2, <1>3, <1>4, <1>5 DEF RelayIInv, StreamTypeOK

LEMMA ServerWritesInOrder == RelayIInv /\ ServerWrites => RelayIInv'
<1> SUFFICES ASSUME RelayIInv, ServerWrites PROVE RelayIInv' OBVIOUS
<1> DEFINE d == Data(far.sent + 1)
<1>1. /\ far.at = "handled" /\ ~far.shut /\ ~far.refused
      /\ far' = [far EXCEPT !.answered = TRUE, !.sent = @ + 1]
      /\ streamProtocol' = streamProtocol /\ up' = up /\ near' = near
  BY DEF ServerWrites
<1>2. /\ near \in NearKind /\ far \in FarKind /\ up \in Seq(Items) /\ down \in Seq(Items)
      /\ far.sent \in Nat /\ far.sent + 1 \in Nat /\ d \in Items /\ <<d>> \in Seq(Items)
      /\ Len(near.got) \in Nat /\ Len(down) \in Nat
  BY WhatTravels, LenProperties DEF RelayIInv, StreamTypeOK, NearKind, FarKind
<1>3. /\ far' \in FarKind /\ far'.at = far.at /\ far'.got = far.got /\ far'.shut = far.shut
      /\ far'.sent = far.sent + 1 /\ far'.answered /\ far'.refused = far.refused
  BY <1>1, <1>2 DEF FarKind
<1>4. UpInOrder' BY <1>1, <1>3, TheHandlerLeavesTheWayUp
<1>5. DataAfter(near.got, 0) /\ Len(near.got) <= far.sent /\ ~near.failed
  BY <1>1 DEF RelayIInv, DownInOrder
<1>6. DataAfter(near'.got, 0) /\ Len(near'.got) <= far'.sent /\ near'.shut = near.shut /\ ~near'.failed
  BY <1>1, <1>2, <1>3, <1>5
<1>7. CASE near.shut
  <2>1. down' = <<>> BY <1>7 DEF ServerWrites, Sends
  <2>2. DownInOrder' BY <1>6, <1>7, <2>1 DEF DownInOrder
  <2> QED BY <1>1, <1>2, <1>3, <1>4, <2>1, <2>2 DEF RelayIInv, StreamTypeOK
<1>8. CASE ~near.shut /\ (streamProtocol = "tuic" \/ far.answered)
  <2>1. down' = down \o <<d>>
    <3>1. Answers(TRUE) \o <<d>> = <<d>> BY <1>2, <1>8, ConcatEmptySeq DEF Answers
    <3> QED BY <1>8, <3>1 DEF ServerWrites, Sends
  <2>2. CASE Relaying
    <3>1. DataAfter(down, Len(near.got)) /\ Len(near.got) + Len(down) = far.sent BY <2>2 DEF Relaying
    <3>2. far.sent + 1 = Len(near.got) + Len(down) + 1 BY <1>2, <3>1
    <3>3. /\ DataAfter(Append(down, d), Len(near.got)) /\ Append(down, d) \in Seq(Items)
          /\ Append(down, d) = down \o <<d>> /\ Len(Append(down, d)) = Len(down) + 1
      BY <1>2, <3>1, <3>2, RunAppend
    <3>4. near'.got = near.got /\ near'.answer = near.answer BY <1>1
    <3>5. DataAfter(down', Len(near'.got)) BY <2>1, <3>3, <3>4
    <3>6. Len(near.got) + Len(down') = far'.sent
      <4>1. Len(down') = Len(down) + 1 BY <2>1, <3>3
      <4>2. Len(near.got) + Len(down) = far.sent BY <3>1
      <4>3. Len(near.got) \in Nat /\ Len(down) \in Nat /\ far.sent \in Nat BY <1>2
      <4>4. Len(near.got) + (Len(down) + 1) = far.sent + 1
        <5> DEFINE k == Len(near.got)
                   l == Len(down)
        <5>1. k \in Nat /\ l \in Nat /\ k + l = far.sent BY <4>2, <4>3
        <5> HIDE DEF k, l
        <5>2. k + (l + 1) = far.sent + 1 BY <5>1, OneLonger
        <5> QED BY <5>2 DEF k, l
      <4>5. far'.sent = far.sent + 1 BY <1>3
      <4> QED BY <4>1, <4>4, <4>5
    <3>7. Relaying' BY <3>4, <3>5, <3>6 DEF Relaying
    <3>8. streamProtocol # "tuic" => near.answer
      BY <1>1, <1>2, <1>8, <3>1, HeadedNotRun DEF RelayIInv, DownInOrder, Accepting, Refusing
    <3>9. DownInOrder' BY <1>1, <1>3, <1>6, <1>8, <3>4, <3>7, <3>8 DEF DownInOrder
    <3> QED BY <1>1, <1>2, <1>3, <1>4, <2>1, <3>3, <3>9 DEF RelayIInv, StreamTypeOK
  <2>3. CASE Accepting /\ streamProtocol # "tuic"
    <3>1. Headed(down, Answer(TRUE)) /\ Len(down) = far.sent + 1 /\ ~near.answer /\ near.got = <<>>
      BY <2>3 DEF Accepting
    <3>2. /\ Headed(down \o <<d>>, Answer(TRUE)) /\ down \o <<d>> \in Seq(Items)
          /\ Len(down \o <<d>>) = Len(down) + 1
      BY <1>2, <3>1, HeadedAppend
    <3>3. Len(down') = far'.sent + 1
      <4>1. Len(down') = Len(down) + 1 BY <2>1, <3>2
      <4> QED BY <1>2, <1>3, <3>1, <4>1
    <3>4. Accepting' BY <1>1, <2>1, <3>1, <3>2, <3>3 DEF Accepting
    <3>5. DownInOrder' BY <1>1, <1>3, <1>6, <1>8, <2>3, <3>4 DEF DownInOrder
    <3> QED BY <1>1, <1>2, <1>3, <1>4, <2>1, <3>2, <3>5 DEF RelayIInv, StreamTypeOK
  <2> QED BY <1>1, <1>8, <2>2, <2>3 DEF RelayIInv, DownInOrder, Refusing
<1>9. CASE ~near.shut /\ streamProtocol # "tuic" /\ ~far.answered
  <2>1. down = <<>> /\ ~near.answer /\ far.sent = 0
    BY <1>9 DEF RelayIInv, DownInOrder, Unanswered
  <2>2. near.got = <<>> BY <1>2, <1>5, <2>1, LenProperties, EmptySeq DEF NearKind
  <2>3. /\ Headed(<<Answer(TRUE)>>, Answer(TRUE)) /\ <<Answer(TRUE)>> \in Seq(Items)
        /\ Len(<<Answer(TRUE)>>) = 1
    BY WhatTravels, HeadedAlone
  <2>4. /\ Headed(<<Answer(TRUE)>> \o <<d>>, Answer(TRUE)) /\ <<Answer(TRUE)>> \o <<d>> \in Seq(Items)
        /\ Len(<<Answer(TRUE)>> \o <<d>>) = 2
    <3>1. far.sent + 1 = Len(<<Answer(TRUE)>>) BY <2>1, <2>3
    <3>2. far.sent + 1 \in Nat BY <1>2
    <3>3. 1 + 1 = 2 OBVIOUS
    <3>4. /\ Headed(<<Answer(TRUE)>> \o <<d>>, Answer(TRUE)) /\ <<Answer(TRUE)>> \o <<d>> \in Seq(Items)
          /\ Len(<<Answer(TRUE)>> \o <<d>>) = Len(<<Answer(TRUE)>>) + 1
      BY <2>3, <3>1, <3>2, HeadedAppend
    <3> QED BY <2>3, <3>3, <3>4
  <2>5. down' = <<Answer(TRUE)>> \o <<d>>
    <3>1. down' = down \o (<<Answer(TRUE)>> \o <<d>>) BY <1>9 DEF ServerWrites, Sends, Answers
    <3> QED BY <2>1, <2>4, <3>1, ConcatEmptySeq
  <2>6. Len(down') = far'.sent + 1 BY <1>3, <2>1, <2>4, <2>5
  <2>7. Accepting' BY <1>1, <2>1, <2>2, <2>4, <2>5, <2>6 DEF Accepting
  <2>8. DownInOrder' BY <1>1, <1>3, <1>6, <1>9, <2>7 DEF DownInOrder
  <2> QED BY <1>1, <1>2, <1>3, <1>4, <2>4, <2>5, <2>8 DEF RelayIInv, StreamTypeOK
<1> QED BY <1>7, <1>8, <1>9

LEMMA ServerClosesInOrder == RelayIInv /\ ServerCloses => RelayIInv'
<1> SUFFICES ASSUME RelayIInv, ServerCloses PROVE RelayIInv' OBVIOUS
<1>1. far \in FarKind /\ far.at = "handled" /\ ~far.shut
  BY DEF RelayIInv, StreamTypeOK, UpInOrder, ServerCloses
<1>2. /\ far' \in FarKind /\ far'.at = far.at /\ far'.got = far.got /\ far'.shut
      /\ far'.sent = far.sent /\ far'.answered = far.answered /\ far'.refused = far.refused
      /\ up' = <<>> /\ near' = near /\ down' = down /\ streamProtocol' = streamProtocol
  BY <1>1 DEF ServerCloses, FarKind
<1>3. UpInOrder' BY <1>1, <1>2 DEF RelayIInv, UpInOrder
<1>4. DownInOrder' BY <1>2 DEF RelayIInv, DownInOrder, Unanswered, Accepting, Refusing, Relaying
<1> QED BY <1>2, <1>3, <1>4 DEF RelayIInv, StreamTypeOK

LEMMA StreamStepKeepsOrder == RelayIInv /\ [StreamNext]_streamVars => RelayIInv'
<1> SUFFICES ASSUME RelayIInv, [StreamNext]_streamVars PROVE RelayIInv' OBVIOUS
<1>1. CASE StreamNext
  BY <1>1, ClientWritesInOrder, ClientReadsInOrder, ClientClosesInOrder, ServerTakesInOrder, ServerReadsInOrder,
     HandshakesKeepOrder, ServerWritesInOrder, ServerClosesInOrder DEF StreamNext
<1>2. CASE UNCHANGED streamVars
  BY <1>2 DEF streamVars, RelayIInv, StreamTypeOK, UpInOrder, DownInOrder, Unanswered, Accepting, Refusing, Relaying
<1> QED BY <1>1, <1>2

LEMMA OrderIsRelay == RelayIInv => RelayInv
<1> SUFFICES ASSUME RelayIInv PROVE RelayInv OBVIOUS
<1>1. /\ DataAfter(near.got, 0) /\ DataAfter(far.got, 0) /\ Len(near.got) <= far.sent
      /\ Len(far.got) <= near.sent /\ far.at # "rejected"
      /\ near.failed => far.refused /\ far.sent = 0
  BY DEF RelayIInv, UpInOrder, DownInOrder
<1>2. near.got \in Seq(Items) BY DEF RelayIInv, StreamTypeOK, NearKind
<1>3. near.failed => near.got = <<>> BY <1>1, <1>2, LenProperties, EmptySeq
<1>4. \A i \in 1..Len(near.got) : near.got[i] = Data(i) BY <1>1, <1>2, LenProperties DEF DataAfter
<1>5. far.got \in Seq(Items) BY DEF RelayIInv, StreamTypeOK, FarKind
<1>6. \A i \in 1..Len(far.got) : far.got[i] = Data(i) BY <1>1, <1>5, LenProperties DEF DataAfter
<1> QED BY <1>1, <1>3, <1>4, <1>6 DEF RelayInv

\* In whatever order the two ends of a proxied stream read, write, answer and close: each reader
\* gets the other's data from its first byte and neither request nor answer, only a stream whose
\* request came first is handled, and failure is heard of only when the handler refused unread.
THEOREM RelaysKeepOrder == StreamSpec => []RelayInv
<1>1. StreamSpec => []RelayIInv BY ThereAreStreams, StreamStepKeepsOrder, PTL DEF StreamSpec
<1> QED BY <1>1, OrderIsRelay, PTL

-----------------------------------------------------------------------------
(* Assembler: a frame is its own symbols *)

\* What the sender's way of cutting says of the symbols of a layout.
LEMMA LayoutFacts ==
  ASSUME layout \in Layouts
  PROVE  /\ Len(layout) \in Nat /\ Esis \subseteq Nat
         /\ \A e \in Esis : /\ Symbol(e).count \in Nat /\ Symbol(e).index \in 0..(Symbol(e).count - 1)
                            /\ FirstOf(e) \in Nat
         /\ \A d, e \in Esis : FirstOf(d) = FirstOf(e) =>
              Symbol(d).frame = Symbol(e).frame /\ Symbol(d).count = Symbol(e).count
         /\ \A d, e \in Esis : Symbol(d).frame = Symbol(e).frame => FirstOf(d) = FirstOf(e)
<1>1. AsSent(layout) BY AssemblerConstants
<1>2. layout \in Seq(Range(layout)) BY <1>1 DEF AsSent
<1>3. Len(layout) \in Nat /\ DOMAIN layout = 1..Len(layout) BY <1>2, LenProperties
<1>4. \A e \in Esis : e \in Nat /\ e + 1 \in DOMAIN layout BY <1>3 DEF Esis
<1>5. \A e \in Esis : Symbol(e).count \in Nat /\ Symbol(e).index \in 0..(Symbol(e).count - 1)
  BY <1>1, <1>4 DEF AsSent, Symbol
<1>6. \A e \in Esis : Symbol(e).index \in Nat BY <1>5
<1>7. ASSUME NEW e \in Esis, NEW k \in 1..Symbol(e).index
      PROVE  /\ (e + 1) - k > 0
             /\ layout[(e + 1) - k] = [frame |-> Symbol(e).frame, index |-> Symbol(e).index - k, count |-> Symbol(e).count]
  <2>1. Follow(layout, e + 1) BY <1>1, <1>4 DEF AsSent
  <2> QED BY <2>1 DEF Follow, Symbol
<1>8. ASSUME NEW e \in Esis PROVE FirstOf(e) \in Nat
  <2>1. Symbol(e).index \in Nat /\ e \in Nat BY <1>4, <1>6
  <2>2. CASE Symbol(e).index = 0 BY <2>1, <2>2 DEF FirstOf
  <2>3. CASE Symbol(e).index > 0
    <3>1. Symbol(e).index \in 1..Symbol(e).index BY <2>1, <2>3
    <3>2. (e + 1) - Symbol(e).index > 0 BY <1>7, <3>1
    <3> QED BY <2>1, <3>2 DEF FirstOf
  <2> QED BY <2>1, <2>2, <2>3
<1>9. ASSUME NEW d \in Esis, NEW e \in Esis, FirstOf(d) = FirstOf(e), d <= e
      PROVE  Symbol(d).frame = Symbol(e).frame /\ Symbol(d).count = Symbol(e).count
  <2>1. Symbol(e).index \in Nat /\ Symbol(d).index \in Nat /\ d \in Nat /\ e \in Nat BY <1>4, <1>6
  <2>2. CASE d = e BY <2>2
  <2>3. CASE d < e
    <3> DEFINE k == e - d
    <3>1. k \in 1..Symbol(e).index /\ (e + 1) - k = d + 1 BY <1>9, <2>1, <2>3 DEF FirstOf
    <3> HIDE DEF k
    <3>2. layout[d + 1] = [frame |-> Symbol(e).frame, index |-> Symbol(e).index - k, count |-> Symbol(e).count]
      BY <1>7, <3>1
    <3> QED BY <3>2 DEF Symbol
  <2> QED BY <1>9, <2>1, <2>2, <2>3
<1>10. ASSUME NEW d \in Esis, NEW e \in Esis, Symbol(d).frame = Symbol(e).frame PROVE FirstOf(d) = FirstOf(e)
  <2>1. (d + 1) - Symbol(d).index = (e + 1) - Symbol(e).index BY <1>1, <1>4, <1>10 DEF AsSent, Symbol
  <2>2. Symbol(e).index \in Nat /\ Symbol(d).index \in Nat /\ d \in Nat /\ e \in Nat BY <1>4, <1>6
  <2> QED BY <2>1, <2>2 DEF FirstOf
<1>11. ASSUME NEW d \in Esis, NEW e \in Esis, FirstOf(d) = FirstOf(e)
      PROVE  Symbol(d).frame = Symbol(e).frame /\ Symbol(d).count = Symbol(e).count
  <2>1. CASE d <= e BY <1>9, <1>11, <2>1
  <2>2. CASE e <= d BY <1>9, <1>11, <2>2
  <2> QED BY <1>4, <2>1, <2>2
<1> QED BY <1>3, <1>4, <1>5, <1>8, <1>10, <1>11

\* The symbols of e's frame, and what a complete set of them is.
Mates(e) == {d \in Esis : FirstOf(d) = FirstOf(e)}
LEMMA CompleteIsAll ==
  ASSUME layout \in Layouts, NEW e \in Esis, NEW S \in SUBSET Mates(e)
  PROVE  /\ IsFiniteSet(S) /\ Cardinality(S) \in Nat /\ Cardinality(S) <= Symbol(e).count
         /\ Cardinality(S) = Symbol(e).count =>
              S = FrameSymbols(Symbol(e).frame) /\ \A d \in S : Symbol(d).count = Cardinality(S)
<1> DEFINE R == FirstOf(e)..(FirstOf(e) + Symbol(e).count - 1)
<1>1. Symbol(e).count \in Nat /\ Symbol(e).count > 0 /\ FirstOf(e) \in Nat BY LayoutFacts
<1>2. IsFiniteSet(R) /\ Cardinality(R) = Symbol(e).count
  <2> DEFINE a == FirstOf(e)
             b == FirstOf(e) + Symbol(e).count - 1
  <2>1. a \in Int /\ b \in Int /\ ~(a > b) /\ b - a + 1 = Symbol(e).count BY <1>1
  <2> HIDE DEF a, b
  <2>2. IsFiniteSet(a..b) /\ Cardinality(a..b) = b - a + 1 BY <2>1, FS_Interval
  <2> QED BY <2>1, <2>2 DEF a, b
<1>3. Mates(e) \subseteq R
  <2> SUFFICES ASSUME NEW d \in Mates(e) PROVE d \in R OBVIOUS
  <2>1. d \in Esis /\ FirstOf(d) = FirstOf(e) /\ d \in Nat BY LayoutFacts DEF Mates
  <2>2. Symbol(d).count = Symbol(e).count /\ Symbol(d).index \in 0..(Symbol(d).count - 1) BY <2>1, LayoutFacts
  <2>3. d = FirstOf(e) + Symbol(d).index BY <2>1, <2>2 DEF FirstOf
  <2> QED BY <1>1, <2>2, <2>3
<1>4. S \in SUBSET R BY <1>3
<1> HIDE DEF R
<1>5. IsFiniteSet(S) /\ Cardinality(S) <= Cardinality(R) /\ (Cardinality(R) = Cardinality(S) => R = S)
  BY <1>2, <1>4, FS_Subset
<1>6. Cardinality(S) \in Nat BY <1>5, FS_CardinalityType
<1>7. ASSUME Cardinality(S) = Symbol(e).count
      PROVE  S = FrameSymbols(Symbol(e).frame) /\ \A d \in S : Symbol(d).count = Cardinality(S)
  <2>1. S = R BY <1>2, <1>5, <1>7
  <2>2. FrameSymbols(Symbol(e).frame) = Mates(e) BY LayoutFacts DEF FrameSymbols, Mates
  <2>3. S = Mates(e) BY <1>3, <2>1
  <2>4. \A d \in S : Symbol(d).count = Symbol(e).count BY LayoutFacts DEF Mates
  <2> QED BY <1>7, <2>2, <2>3, <2>4
<1> QED BY <1>2, <1>5, <1>6, <1>7

\* A group of the table: symbols of one frame that was cut, not yet all of them.
GroupKind == [first : Nat, count : Nat, parts : SUBSET Esis]
RunOf(g) ==
  /\ g \in GroupKind /\ Cardinality(g.parts) < g.count
  /\ \E e \in Esis : FirstOf(e) = g.first /\ Symbol(e).count = g.count /\ g.parts \subseteq Mates(e)
TableOK(gs) ==
  /\ IsFiniteSet(gs) /\ Cardinality(gs) <= MaxGroups
  /\ \A g \in gs : RunOf(g)
  /\ \A g, o \in gs : g.first = o.first => g = o
Waits(g, t) == g.parts # {} /\ ~Stale(t, g.first, g.count)

AssemblerIInv ==
  /\ layout \in Layouts /\ top \in Int /\ top >= -1 /\ (top = -1 => groups = {})
  /\ TableOK(groups) /\ \A g \in groups : Waits(g, top)
  /\ \A h \in handed : h.from = FrameSymbols(h.frame) /\ \A e \in h.from : Symbol(e).count = Cardinality(h.from)

\* What a table is depends on the layout, which no step changes.
LEMMA TableStays == ASSUME layout' = layout, TableOK(groups') PROVE TableOK(groups)'
<1>1. \A e \in Esis : FirstOf(e)' = FirstOf(e) /\ Symbol(e)' = Symbol(e) /\ Mates(e)' = Mates(e)
  BY DEF FirstOf, Symbol, Mates, Esis
<1>2. GroupKind' = GroupKind /\ Esis' = Esis BY DEF GroupKind, Esis
<1>3. \A g \in groups' : RunOf(g)' BY <1>1, <1>2 DEF TableOK, RunOf
<1> QED BY <1>3 DEF TableOK

LEMMA FewerIsTable ==
  ASSUME NEW gs, TableOK(gs), NEW P \in SUBSET gs PROVE TableOK(P) /\ Cardinality(P) \in Nat
<1>1. IsFiniteSet(P) /\ Cardinality(P) <= Cardinality(gs) BY FS_Subset DEF TableOK
<1>2. Cardinality(P) \in Nat /\ Cardinality(gs) \in Nat BY <1>1, FS_CardinalityType DEF TableOK
<1>3. Cardinality(P) <= MaxGroups BY <1>1, <1>2, AssemblerConstants DEF TableOK
<1> QED BY <1>1, <1>2, <1>3 DEF TableOK

\* note and prune leave nothing behind the slack of the newest symbol.
LEMMA PruneFits ==
  ASSUME AssemblerIInv, NEW e \in Esis
  PROVE  /\ TableOK(Pruned(e)) /\ Pruned(e) \subseteq groups /\ Noted(e) \in Nat
         /\ \A g \in Pruned(e) : Waits(g, Noted(e))
<1>1. e \in Nat BY LayoutFacts DEF AssemblerIInv
<1>2. Pruned(e) \subseteq groups BY DEF Pruned
<1>3. TableOK(Pruned(e)) BY <1>2, FewerIsTable DEF AssemblerIInv
<1>4. Noted(e) \in Nat BY <1>1 DEF AssemblerIInv, Noted
<1>5. ASSUME NEW g \in Pruned(e) PROVE Waits(g, Noted(e))
  <2>1. g \in groups /\ Waits(g, top) /\ top # -1 BY <1>2, <1>5 DEF AssemblerIInv
  <2>2. CASE e > top
    <3>1. top >= 0 BY <2>1 DEF AssemblerIInv
    <3>2. ~Stale(e, g.first, g.count) BY <1>5, <2>2, <3>1 DEF Pruned
    <3> QED BY <2>1, <2>2, <3>2 DEF Noted, Waits
  <2>3. CASE ~(e > top) BY <2>1, <2>3 DEF Noted
  <2> QED BY <2>2, <2>3
<1> QED BY <1>2, <1>3, <1>4, <1>5

\* A full table makes room for one more.
LEMMA RoomIsMade ==
  ASSUME NEW gs, TableOK(gs)
  PROVE  RoomFor(gs) \subseteq gs /\ IsFiniteSet(RoomFor(gs)) /\ Cardinality(RoomFor(gs)) + 1 <= MaxGroups
<1>1. Cardinality(gs) \in Nat /\ MaxGroups \in Nat /\ MaxGroups > 0
  BY FS_CardinalityType, AssemblerConstants DEF TableOK
<1>2. CASE Cardinality(gs) < MaxGroups BY <1>1, <1>2 DEF RoomFor, TableOK
<1>3. CASE ~(Cardinality(gs) < MaxGroups)
  <2>1. Cardinality(gs) = MaxGroups /\ gs # {} BY <1>1, <1>3, FS_EmptySet DEF TableOK
  <2> DEFINE F == {g.first : g \in gs}
  <2>2. F \subseteq Nat /\ F # {} BY <2>1 DEF TableOK, RunOf, GroupKind
  <2>3. \E x \in F : \A y \in F : x <= y
    <3> HIDE DEF F
    <3> QED BY <2>2, LeastNatural
  <2>4. \E g \in gs : \A o \in gs : g.first <= o.first BY <2>3
  <2> DEFINE x == CHOOSE g \in gs : \A o \in gs : g.first <= o.first
  <2>5. x \in gs BY <2>4
  <2>6. RoomFor(gs) = gs \ {x} BY <1>3 DEF RoomFor
  <2> HIDE DEF x
  <2>7. IsFiniteSet(gs \ {x}) /\ Cardinality(gs \ {x}) = Cardinality(gs) - 1
    BY <2>5, FS_RemoveElement DEF TableOK
  <2> QED BY <1>1, <2>1, <2>6, <2>7
<1> QED BY <1>2, <1>3

\* The group of a symbol's frame is opened where it is not there, and is the only one.
LEMMA OpenedFits ==
  ASSUME layout \in Layouts, NEW gs, TableOK(gs), NEW e \in Esis, Symbol(e).count > 1
  PROVE  /\ TableOK(Opened(gs, e))
         /\ \A g \in Opened(gs, e) : g \in gs \/ g = NewGroup(e)
         /\ \E g \in Opened(gs, e) : GroupOf(Opened(gs, e), e) = {g} /\ g.first = FirstOf(e)
                                     /\ g.count = Symbol(e).count /\ g.parts \subseteq Mates(e)
<1> DEFINE new == NewGroup(e)
<1>1. /\ Symbol(e).count \in Nat /\ FirstOf(e) \in Nat
      /\ \A d \in Esis : FirstOf(d) = FirstOf(e) => Symbol(d).count = Symbol(e).count
  BY LayoutFacts
<1>2. RunOf(new) /\ new.first = FirstOf(e) /\ new.count = Symbol(e).count /\ new.parts = {}
  <2>1. Cardinality({}) = 0 BY FS_EmptySet
  <2> QED BY <1>1, <2>1 DEF NewGroup, RunOf, GroupKind
<1>3. CASE GroupOf(gs, e) # {}
  <2>1. Opened(gs, e) = gs BY <1>3 DEF Opened
  <2>2. PICK g \in gs : g.first = FirstOf(e) BY <1>3 DEF GroupOf
  <2>3. GroupOf(gs, e) = {g} BY <2>2 DEF GroupOf, TableOK
  <2>4. PICK d \in Esis : FirstOf(d) = g.first /\ Symbol(d).count = g.count /\ g.parts \subseteq Mates(d)
    BY <2>2 DEF TableOK, RunOf
  <2>5. Mates(d) = Mates(e) /\ g.count = Symbol(e).count BY <1>1, <2>2, <2>4 DEF Mates
  <2> QED BY <2>1, <2>2, <2>3, <2>4, <2>5
<1>4. CASE GroupOf(gs, e) = {}
  <2> DEFINE R == RoomFor(gs)
  <2>1. Opened(gs, e) = R \cup {new} BY <1>4 DEF Opened
  <2>2. R \subseteq gs /\ IsFiniteSet(R) /\ Cardinality(R) + 1 <= MaxGroups BY RoomIsMade
  <2>3. \A g \in R : g.first # FirstOf(e) BY <1>4, <2>2 DEF GroupOf
  <2> HIDE DEF R, new
  <2>4. Cardinality(R) \in Nat /\ MaxGroups \in Nat BY <2>2, FS_CardinalityType, AssemblerConstants
  <2>5. IsFiniteSet(R \cup {new}) /\ Cardinality(R \cup {new}) = IF new \in R THEN Cardinality(R) ELSE Cardinality(R) + 1
    BY <2>2, FS_AddElement
  <2>6. TableOK(R \cup {new}) BY <1>2, <2>2, <2>3, <2>4, <2>5 DEF TableOK
  <2>7. GroupOf(R \cup {new}, e) = {new} BY <1>2, <2>3 DEF GroupOf
  <2> QED BY <1>2, <2>1, <2>2, <2>6, <2>7 DEF new
<1> QED BY <1>3, <1>4

\* A symbol that arrives fills its frame's group, or ends it with the frame whole.
LEMMA ArrivalKeepsWhole ==
  ASSUME AssemblerIInv, NEW e \in Esis, Arrived(e), top' = Noted(e), layout' = layout
  PROVE  AssemblerIInv'
<1>1. layout \in Layouts BY DEF AssemblerIInv
<1>2. /\ TableOK(Pruned(e)) /\ Pruned(e) \subseteq groups /\ Noted(e) \in Nat
      /\ \A g \in Pruned(e) : Waits(g, Noted(e))
  BY PruneFits
<1>3. Symbol(e).count \in Nat /\ Symbol(e).count > 0 /\ e \in Mates(e) BY <1>1, LayoutFacts DEF Mates
<1>4. ASSUME NEW S, S = FrameSymbols(Symbol(e).frame), \A d \in S : Symbol(d).count = Cardinality(S), Gives(e, S)
      PROVE  \A h \in handed' : h.from = FrameSymbols(h.frame)' /\ \A d \in h.from : Symbol(d)'.count = Cardinality(h.from)
  BY <1>4 DEF Gives, AssemblerIInv, FrameSymbols, Symbol, Esis
<1>5. ASSUME UNCHANGED handed
      PROVE  \A h \in handed' : h.from = FrameSymbols(h.frame)' /\ \A d \in h.from : Symbol(d)'.count = Cardinality(h.from)
  BY <1>5 DEF AssemblerIInv, FrameSymbols, Symbol, Esis
<1>6. ASSUME TableOK(groups'), \A g \in groups' : Waits(g, Noted(e)),
             \A h \in handed' : h.from = FrameSymbols(h.frame)' /\ \A d \in h.from : Symbol(d)'.count = Cardinality(h.from)
      PROVE  AssemblerIInv'
  <2>1. TableOK(groups)' BY <1>6, TableStays
  <2>2. top' \in Int /\ top' >= -1 /\ top' # -1 BY <1>2
  <2>3. \A g \in groups' : Waits(g, top)' BY <1>6 DEF Waits, Stale
  <2> QED BY <1>1, <1>6, <2>1, <2>2, <2>3 DEF AssemblerIInv
<1>7. CASE Symbol(e).count = 1
  <2>1. Gives(e, {e}) /\ groups' = Pruned(e) BY <1>7 DEF Arrived
  <2>2. Cardinality({e}) = 1 BY FS_Singleton
  <2>3. {e} = FrameSymbols(Symbol(e).frame) /\ \A d \in {e} : Symbol(d).count = Cardinality({e})
    BY <1>1, <1>3, <1>7, <2>2, CompleteIsAll
  <2> QED BY <1>2, <1>4, <1>6, <2>1, <2>3
<1>8. CASE Symbol(e).count > 1 /\ Stale(Noted(e), FirstOf(e), Symbol(e).count)
  <2>1. groups' = Pruned(e) /\ UNCHANGED handed BY <1>8, <1>3 DEF Arrived
  <2> QED BY <1>2, <1>5, <1>6, <2>1
<1>9. CASE Symbol(e).count > 1 /\ ~Stale(Noted(e), FirstOf(e), Symbol(e).count)
  <2> DEFINE gs == Opened(Pruned(e), e)
             g == CHOOSE x \in GroupOf(gs, e) : TRUE
             more == [g EXCEPT !.parts = @ \cup {e}]
  <2>1. IF Cardinality(more.parts) = g.count
        THEN Gives(e, more.parts) /\ groups' = gs \ {g}
        ELSE groups' = (gs \ {g}) \cup {more} /\ UNCHANGED <<outgoing, handed>>
    BY <1>3, <1>9 DEF Arrived
  <2>2. /\ TableOK(gs) /\ \A x \in gs : x \in Pruned(e) \/ x = NewGroup(e)
        /\ \E x \in gs : GroupOf(gs, e) = {x} /\ x.first = FirstOf(e)
                         /\ x.count = Symbol(e).count /\ x.parts \subseteq Mates(e)
    BY <1>1, <1>2, <1>9, OpenedFits
  <2> HIDE DEF gs
  <2>3. g \in gs /\ g.first = FirstOf(e) /\ g.count = Symbol(e).count /\ g.parts \subseteq Mates(e)
    BY <2>2
  <2> HIDE DEF g
  <2>4. g \in GroupKind BY <2>2, <2>3 DEF TableOK, RunOf
  <2>5. /\ more \in GroupKind /\ more.first = g.first /\ more.count = g.count /\ more.parts = g.parts \cup {e}
        /\ more.parts \subseteq Mates(e)
    BY <1>3, <2>3, <2>4 DEF GroupKind
  <2> HIDE DEF more
  <2>6. /\ Cardinality(more.parts) \in Nat /\ Cardinality(more.parts) <= Symbol(e).count
        /\ Cardinality(more.parts) = Symbol(e).count =>
             /\ more.parts = FrameSymbols(Symbol(e).frame)
             /\ \A d \in more.parts : Symbol(d).count = Cardinality(more.parts)
    BY <1>1, <2>5, CompleteIsAll
  <2>7. TableOK(gs \ {g}) /\ Cardinality(gs \ {g}) \in Nat BY <2>2, FewerIsTable
  <2>8. \A x \in gs \ {g} : x.first # FirstOf(e) BY <2>2, <2>3 DEF TableOK
  <2>9. \A x \in gs \ {g} : Waits(x, Noted(e)) BY <1>2, <2>2, <2>8 DEF NewGroup
  <2>10. CASE Cardinality(more.parts) = g.count BY <1>4, <1>6, <2>1, <2>3, <2>6, <2>7, <2>9, <2>10
  <2>11. CASE Cardinality(more.parts) # g.count
    <3>1. groups' = (gs \ {g}) \cup {more} /\ UNCHANGED handed BY <2>1, <2>11
    <3>2. RunOf(more) BY <1>3, <2>3, <2>5, <2>6, <2>11 DEF RunOf
    <3>3. Waits(more, Noted(e)) BY <1>9, <2>3, <2>5 DEF Waits
    <3>4. IsFiniteSet(gs) /\ Cardinality(gs) <= MaxGroups /\ Cardinality(gs) \in Nat
      BY <2>2, FS_CardinalityType DEF TableOK
    <3>5. IsFiniteSet(gs \ {g}) /\ Cardinality(gs \ {g}) = Cardinality(gs) - 1 BY <2>3, <3>4, FS_RemoveElement
    <3>6. /\ IsFiniteSet((gs \ {g}) \cup {more})
          /\ Cardinality((gs \ {g}) \cup {more}) =
               IF more \in gs \ {g} THEN Cardinality(gs \ {g}) ELSE Cardinality(gs \ {g}) + 1
      BY <3>5, FS_AddElement
    <3>7. Cardinality((gs \ {g}) \cup {more}) <= MaxGroups BY <3>4, <3>5, <3>6, AssemblerConstants
    <3>8. TableOK(groups')
      BY <2>3, <2>5, <2>7, <2>8, <3>1, <3>2, <3>6, <3>7 DEF TableOK
    <3> QED BY <1>5, <1>6, <2>9, <3>1, <3>3, <3>8
  <2> QED BY <2>10, <2>11
<1> QED BY <1>3, <1>7, <1>8, <1>9

\* What is told lost takes its frame's group with it.
LEMMA LossKeepsWhole ==
  ASSUME AssemblerIInv, NEW e \in Esis, LostIn(e) PROVE AssemblerIInv'
<1>1. /\ TableOK(Pruned(e)) /\ Noted(e) \in Nat /\ \A g \in Pruned(e) : Waits(g, Noted(e))
  BY PruneFits
<1>2. /\ groups' \subseteq Pruned(e) /\ top' = Noted(e) /\ layout' = layout /\ handed' = handed
  BY DEF LostIn
<1>3. TableOK(groups') BY <1>1, <1>2, FewerIsTable
<1>4. TableOK(groups)' BY <1>2, <1>3, TableStays
<1>5. top' \in Int /\ top' >= -1 /\ top' # -1 BY <1>1, <1>2
<1>6. \A g \in groups' : Waits(g, top)' BY <1>1, <1>2 DEF Waits, Stale
<1>7. \A h \in handed' : h.from = FrameSymbols(h.frame)' /\ \A d \in h.from : Symbol(d)'.count = Cardinality(h.from)
  BY <1>2 DEF AssemblerIInv, FrameSymbols, Symbol, Esis
<1> QED BY <1>2, <1>4, <1>5, <1>6, <1>7 DEF AssemblerIInv

LEMMA AssemblerStepKeepsWhole == AssemblerIInv /\ [AssemblerNext]_assemblerVars => AssemblerIInv'
<1> SUFFICES ASSUME AssemblerIInv, [AssemblerNext]_assemblerVars PROVE AssemblerIInv' OBVIOUS
<1>1. ASSUME UNCHANGED <<layout, groups, top, handed>> PROVE AssemblerIInv'
  BY <1>1 DEF AssemblerIInv, TableOK, RunOf, GroupKind, Mates, FirstOf, FrameSymbols, Symbol, Esis, Waits, Stale
<1>2. CASE QueuesFrame \/ Receives \/ PathEnds \/ UNCHANGED assemblerVars
  BY <1>1, <1>2 DEF QueuesFrame, Receives, PathEnds, assemblerVars
<1>3. ASSUME NEW e \in Esis, SourceIn(e) \/ RecoveredIn(e) PROVE AssemblerIInv'
  <2>1. Arrived(e) /\ top' = Noted(e) /\ layout' = layout BY <1>3 DEF SourceIn, RecoveredIn
  <2> QED BY <2>1, ArrivalKeepsWhole
<1>4. ASSUME NEW e \in Esis, LostIn(e) PROVE AssemblerIInv' BY <1>4, LossKeepsWhole
<1> QED BY <1>2, <1>3, <1>4 DEF AssemblerNext

LEMMA AssemblerStarts == AssemblerInit => AssemblerIInv
<1> SUFFICES ASSUME AssemblerInit PROVE AssemblerIInv OBVIOUS
<1>1. IsFiniteSet({}) /\ Cardinality({}) = 0 BY FS_EmptySet
<1>2. TableOK(groups) BY <1>1, AssemblerConstants DEF AssemblerInit, TableOK
<1> QED BY <1>2 DEF AssemblerInit, AssemblerIInv

\* Whatever arrives, is recovered or is told lost, in whatever order and however often, for any
\* frames cut in any way: a frame is given up from all of its symbols and no others (assembler.
\* arrived), a group that waits lacks a symbol and is within the slack, and the table is bounded.
THEOREM FramesAreAssembledWhole == AssemblerSpec => []AssemblerInv
<1>1. AssemblerSpec => []AssemblerIInv
  BY AssemblerStarts, AssemblerStepKeepsWhole, PTL DEF AssemblerSpec
<1>2. AssemblerIInv => AssemblerInv
  BY DEF AssemblerIInv, AssemblerInv, TableOK, RunOf, Waits
<1> QED BY <1>1, <1>2, PTL

-----------------------------------------------------------------------------
(* CodedSend: what the loop took goes out whole or is refused *)

\* The frames the loop took from the queue.
TakenUp == accepted - Len(queuedFrames)
JobKind == [frames : Seq(Frames), part : Nat, size : {SizeOf(p) : p \in Seq(Frames)} \cup Int]

CodedTypes ==
  /\ accepted \in 0..Len(FrameSizes) /\ queuedFrames \in Seq(Frames) /\ Len(queuedFrames) <= accepted
  /\ \A i \in 1..Len(queuedFrames) : queuedFrames[i] = TakenUp + i
  /\ packed \in Seq(Frames) /\ jobs \in Seq(JobKind)
  /\ room \in Rooms /\ limit \in Rooms /\ refused \subseteq 1..TakenUp
  /\ cutInto \in [Frames -> Nat] /\ \A f \in Frames : f > TakenUp => cutInto[f] = 0
  /\ seqs \in [next : Nat, sent : Nat] /\ seqs.next = seqs.sent
  /\ burst \in [symbols : Nat, repairs : Nat]
  /\ loop \in [at : {"waits", "drains", "repairs", "flushes", "protects", "ended"}, rate : Nat, want : Int]

\* What each place of the loop leaves behind it.
Stages ==
  /\ loop.at \in {"waits", "drains"} => loop.want = 0
  /\ loop.at = "repairs" => loop.want \in {0, 1}
  /\ loop.at = "flushes" => loop.want = 1
  /\ loop.at \in {"waits", "flushes", "protects"} \/ (loop.at = "repairs" /\ loop.want = 1) => packed = <<>>
  /\ loop.at \in {"waits", "protects"} => jobs = <<>>
  /\ loop.at = "waits" => burst.symbols = 0

\* A frame that was taken is refused, or somewhere: packed, to be emitted, or carried, whole
\* or all of its fragments.
HasPlace(f) ==
  \/ f \in refused
  \/ /\ cutInto[f] = 0
     /\ \/ f \in Range(packed)
        \/ \E j \in Range(jobs) : j.part = 0 /\ f \in Range(j.frames)
        \/ \E s \in carried : s.part = 0 /\ f \in Range(s.frames)
  \/ /\ cutInto[f] # 0
     /\ \A i \in 1..cutInto[f] : \/ [frames |-> <<f>>, part |-> i] \in carried
                                 \/ \E j \in Range(jobs) : j.frames = <<f>> /\ j.part = i
WholeTaken(fs) == \A f \in Range(fs) : f <= TakenUp /\ cutInto[f] = 0
FragmentOfTaken(j) == \E f \in 1..TakenUp : j.frames = <<f>> /\ cutInto[f] # 0 /\ f \notin refused
Places ==
  /\ WholeTaken(packed)
  /\ \A j \in Range(jobs) : IF j.part = 0 THEN WholeTaken(j.frames) ELSE FragmentOfTaken(j)
  /\ \A i, k \in DOMAIN jobs : i < k /\ jobs[i].part # 0 => jobs[k].frames = jobs[i].frames
  /\ \A f \in 1..TakenUp : HasPlace(f)
CodedIInv == CodedTypes /\ Stages /\ Places

LEMMA RangeOfNone == Range(<<>>) = {}
BY DEF Range

\* What a sequence loses with its first, and what two make together.
LEMMA RangeOfRest ==
  ASSUME NEW S, NEW s \in Seq(S), s # <<>>
  PROVE  /\ Head(s) \in S /\ Tail(s) \in Seq(S) /\ Range(s) = {Head(s)} \cup Range(Tail(s))
         /\ Head(s) = s[1] /\ 1 \in DOMAIN s
         /\ DOMAIN Tail(s) = 1..(Len(s) - 1) /\ \A i \in DOMAIN Tail(s) : i + 1 \in DOMAIN s /\ Tail(s)[i] = s[i + 1]
<1>1. /\ Len(s) \in Nat /\ Len(s) > 0 /\ DOMAIN s = 1..Len(s) /\ Head(s) = s[1] /\ Head(s) \in S
      /\ Tail(s) \in Seq(S) /\ Len(Tail(s)) = Len(s) - 1 /\ DOMAIN Tail(s) = 1..(Len(s) - 1)
      /\ \A i \in 1..(Len(s) - 1) : Tail(s)[i] = s[i + 1]
  BY HeadTailProperties, LenProperties, EmptySeq
<1>2. \A i \in DOMAIN s : i = 1 \/ (i - 1 \in DOMAIN Tail(s) /\ s[i] = Tail(s)[i - 1])
  BY <1>1
<1> QED BY <1>1, <1>2 DEF Range

LEMMA RangeOfBoth ==
  ASSUME NEW S, NEW s \in Seq(S), NEW t \in Seq(S)
  PROVE  /\ s \o t \in Seq(S) /\ Range(s \o t) = Range(s) \cup Range(t)
         /\ DOMAIN (s \o t) = 1..(Len(s) + Len(t))
         /\ \A i \in 1..Len(s) : (s \o t)[i] = s[i]
         /\ \A i \in 1..Len(t) : (s \o t)[Len(s) + i] = t[i]
<1>1. /\ Len(s) \in Nat /\ Len(t) \in Nat /\ DOMAIN s = 1..Len(s) /\ DOMAIN t = 1..Len(t)
      /\ s \o t \in Seq(S) /\ DOMAIN (s \o t) = 1..(Len(s) + Len(t))
      /\ \A i \in 1..(Len(s) + Len(t)) : (s \o t)[i] = IF i <= Len(s) THEN s[i] ELSE t[i - Len(s)]
  BY ConcatProperties, LenProperties
<1>2. \A i \in 1..Len(s) : i \in 1..(Len(s) + Len(t)) /\ (s \o t)[i] = s[i] BY <1>1
<1>3. \A i \in 1..Len(t) : Len(s) + i \in 1..(Len(s) + Len(t)) /\ (s \o t)[Len(s) + i] = t[i] BY <1>1
<1>4. ASSUME NEW i \in 1..(Len(s) + Len(t))
      PROVE  i \in 1..Len(s) \/ (i - Len(s) \in 1..Len(t) /\ (s \o t)[i] = t[i - Len(s)])
  <2>1. CASE i <= Len(s) BY <1>1, <2>1
  <2>2. CASE ~(i <= Len(s))
    <3>1. i - Len(s) \in 1..Len(t) BY <1>1, <2>2
    <3> QED BY <1>1, <2>2, <3>1
  <2> QED BY <2>1, <2>2
<1>5. Range(s) = {s[i] : i \in 1..Len(s)} /\ Range(t) = {t[i] : i \in 1..Len(t)}
      /\ Range(s \o t) = {(s \o t)[i] : i \in 1..(Len(s) + Len(t))}
  BY <1>1 DEF Range
<1>6. Range(s) \cup Range(t) \subseteq Range(s \o t)
  <2>1. \A i \in 1..Len(s) : s[i] \in Range(s \o t) BY <1>2, <1>5
  <2>2. \A i \in 1..Len(t) : t[i] \in Range(s \o t) BY <1>3, <1>5
  <2> QED BY <1>5, <2>1, <2>2
<1>7. Range(s \o t) \subseteq Range(s) \cup Range(t)
  <2> SUFFICES ASSUME NEW i \in 1..(Len(s) + Len(t)) PROVE (s \o t)[i] \in Range(s) \cup Range(t) BY <1>5
  <2> QED BY <1>2, <1>4, <1>5
<1> QED BY <1>1, <1>2, <1>3, <1>6, <1>7

LEMMA SizesAndRooms ==
  /\ Len(FrameSizes) \in Nat /\ Frames = 1..Len(FrameSizes) /\ \A f \in Frames : FrameSizes[f] \in Nat \ {0}
  /\ Biggest \in Rooms /\ Rooms \subseteq Nat
<1>1. FrameSizes \in Seq(Nat \ {0}) BY CodedConstants
<1>2. Len(FrameSizes) \in Nat /\ \A f \in 1..Len(FrameSizes) : FrameSizes[f] \in Nat \ {0} BY <1>1, LenProperties, ElementOfSeq
<1> QED BY <1>2, CodedConstants DEF Frames, Biggest

LEMMA CodedStarts == CodedInit => CodedIInv
<1> SUFFICES ASSUME CodedInit PROVE CodedIInv OBVIOUS
<1>1. /\ <<>> \in Seq(Frames) /\ <<>> \in Seq(JobKind) /\ Len(<<>>) = 0
      /\ Range(<<>>) = {} /\ DOMAIN <<>> = {}
  <2>1. <<>> \in Seq(Frames) /\ <<>> \in Seq(JobKind) /\ Len(<<>>) = 0 BY EmptySeq
  <2>2. DOMAIN <<>> = {} BY <2>1, LenProperties
  <2> QED BY <2>1, <2>2, RangeOfNone
<1>2. TakenUp = 0
  <2>1. accepted = 0 /\ queuedFrames = <<>> BY DEF CodedInit
  <2>2. Len(queuedFrames) = 0 BY <1>1, <2>1
  <2>3. TakenUp = 0 - 0 BY <2>1, <2>2 DEF TakenUp
  <2> QED BY <2>3
<1>3. CodedTypes BY <1>1, <1>2, SizesAndRooms DEF CodedInit, CodedTypes, NoBurst, AtRest
<1>4. Stages BY DEF CodedInit, Stages, AtRest, NoBurst
<1>5. Places BY <1>1, <1>2 DEF CodedInit, Places, WholeTaken
<1> QED BY <1>3, <1>4, <1>5 DEF CodedIInv

\* A step that takes nothing, packs nothing, emits nothing and refuses nothing.
LEMMA PlacesStay ==
  ASSUME Places, TakenUp' = TakenUp, UNCHANGED <<packed, jobs, carried, refused, cutInto>> PROVE Places'
BY DEF Places, WholeTaken, FragmentOfTaken, HasPlace

LEMMA RepairsKeepPlaces ==
  ASSUME CodedIInv, NEW count, SendRepair(count)
  PROVE  /\ seqs' \in [next : Nat, sent : Nat] /\ seqs'.next = seqs'.sent /\ limit' \in Rooms
         /\ burst' \in [symbols : Nat, repairs : Nat]
<1>1. /\ seqs \in [next : Nat, sent : Nat] /\ seqs.next = seqs.sent /\ limit \in Rooms /\ room \in Rooms
      /\ burst \in [symbols : Nat, repairs : Nat]
  BY DEF CodedIInv, CodedTypes
<1> QED BY <1>1 DEF SendRepair, Taken, Oversize, Untake, NoBurst

\* The steps that leave the frames where they are.
LEMMA QuietStepsKeepPlaces ==
  ASSUME CodedIInv,
         \/ RoomMoves \/ RunningRepair \/ RepairsEarned \/ TailRepair \/ Protected \/ CarrierFails
         \/ \E rate \in CodeRates : ProtectBegins(rate)
  PROVE  CodedIInv'
<1> USE DEF CodedIInv
<1>1. CASE RoomMoves
  BY <1>1, PlacesStay DEF RoomMoves, CodedTypes, Stages, TakenUp
<1>2. CASE RunningRepair
  <2>1. /\ seqs' \in [next : Nat, sent : Nat] /\ seqs'.next = seqs'.sent /\ limit' \in Rooms
        /\ burst' \in [symbols : Nat, repairs : Nat]
    BY <1>2, RepairsKeepPlaces DEF RunningRepair
  <2> QED BY <1>2, <2>1, PlacesStay DEF RunningRepair, CodedTypes, Stages, TakenUp
<1>3. CASE RepairsEarned
  <2>1. burst' \in [symbols : Nat, repairs : Nat] BY <1>3 DEF RepairsEarned, Covers, NoBurst, CodedTypes
  <2> QED BY <1>3, <2>1, PlacesStay DEF RepairsEarned, CodedTypes, Stages, TakenUp
<1>4. CASE TailRepair
  <2>1. /\ seqs' \in [next : Nat, sent : Nat] /\ seqs'.next = seqs'.sent /\ limit' \in Rooms
        /\ burst' \in [symbols : Nat, repairs : Nat]
    BY <1>4, RepairsKeepPlaces DEF TailRepair
  <2> QED BY <1>4, <2>1, PlacesStay DEF TailRepair, CodedTypes, Stages, TakenUp
<1>5. CASE Protected
  BY <1>5, PlacesStay DEF Protected, AtRest, NoBurst, CodedTypes, Stages, TakenUp
<1>6. CASE CarrierFails
  BY <1>6, PlacesStay DEF CarrierFails, AtRest, CodedTypes, Stages, TakenUp
<1>7. ASSUME NEW rate \in CodeRates, ProtectBegins(rate) PROVE CodedIInv'
  <2>1. rate \in Nat BY CodedConstants
  <2>2. rate * burst.symbols \in Int BY <2>1 DEF CodedTypes
  <2> QED BY <1>7, <2>1, <2>2, PlacesStay
          DEF ProtectBegins, TailRepairs, AtRest, CodedTypes, Stages, TakenUp
<1> QED BY <1>1, <1>2, <1>3, <1>4, <1>5, <1>6, <1>7

LEMMA SendKeepsPlaces == CodedIInv /\ SendFrame => CodedIInv'
<1> SUFFICES ASSUME CodedIInv, SendFrame PROVE CodedIInv' OBVIOUS
<1>1. /\ accepted \in 0..Len(FrameSizes) /\ accepted < Len(FrameSizes) /\ queuedFrames \in Seq(Frames)
      /\ Len(queuedFrames) \in Nat /\ accepted' = accepted + 1 /\ queuedFrames' = Append(queuedFrames, accepted + 1)
      /\ accepted + 1 \in Frames
  BY SizesAndRooms, LenProperties DEF CodedIInv, CodedTypes, SendFrame
<1>2. /\ queuedFrames' \in Seq(Frames) /\ Len(queuedFrames') = Len(queuedFrames) + 1
      /\ \A i \in 1..Len(queuedFrames) : queuedFrames'[i] = queuedFrames[i]
      /\ queuedFrames'[Len(queuedFrames) + 1] = accepted + 1
  BY <1>1, AppendProperties
<1>3. TakenUp' = TakenUp /\ TakenUp + (Len(queuedFrames) + 1) = accepted + 1
  BY <1>1, <1>2, SizesAndRooms DEF TakenUp
<1>4. \A i \in 1..Len(queuedFrames') : queuedFrames'[i] = TakenUp' + i
  <2> SUFFICES ASSUME NEW i \in 1..Len(queuedFrames') PROVE queuedFrames'[i] = TakenUp' + i OBVIOUS
  <2>1. CASE i = Len(queuedFrames) + 1 BY <1>2, <1>3, <2>1
  <2>2. CASE i \in 1..Len(queuedFrames) BY <1>2, <1>3, <2>2 DEF CodedIInv, CodedTypes
  <2> QED BY <1>1, <1>2, <2>1, <2>2
<1>5. accepted' \in 0..Len(FrameSizes) /\ Len(queuedFrames') <= accepted' BY <1>1, <1>2, SizesAndRooms DEF CodedIInv, CodedTypes
<1>6. CodedTypes' BY <1>2, <1>3, <1>4, <1>5 DEF CodedIInv, CodedTypes, SendFrame
<1>7. Stages' BY DEF CodedIInv, Stages, SendFrame
<1>8. Places' BY <1>3, PlacesStay DEF CodedIInv, SendFrame
<1> QED BY <1>6, <1>7, <1>8 DEF CodedIInv

\* The symbol being packed, as it is to be emitted.
LEMMA PackedSymbol ==
  ASSUME packed \in Seq(Frames)
  PROVE  /\ Packed \in Seq(JobKind) /\ \A j \in Range(Packed) : j.part = 0 /\ j.frames = packed
         /\ packed # <<>> => \E j \in Range(Packed) : j.part = 0 /\ j.frames = packed
         /\ Len(Packed) \in Nat /\ \A i \in 1..Len(Packed) : Packed[i].part = 0
<1>1. CASE packed = <<>>
  <2>1. Packed = <<>> /\ <<>> \in Seq(JobKind) /\ Len(<<>>) = 0 /\ Range(<<>>) = {} BY <1>1, EmptySeq DEF Packed, Range
  <2> QED BY <1>1, <2>1
<1>2. CASE packed # <<>>
  <2> DEFINE j == [frames |-> packed, size |-> SizeOf(packed), part |-> 0]
  <2>1. j \in JobKind BY DEF JobKind
  <2>2. Packed = <<j>> BY <1>2 DEF Packed
  <2>3. j.part = 0 /\ j.frames = packed OBVIOUS
  <2> HIDE DEF j
  <2>4. <<j>> \in Seq(JobKind) /\ Len(<<j>>) = 1 /\ Range(<<j>>) = {j} /\ <<j>>[1] = j BY <2>1 DEF Range
  <2> QED BY <2>2, <2>3, <2>4
<1> QED BY <1>1, <1>2

\* A frame too large for a symbol is cut into at least one fragment.
LEMMA CutIsCounted ==
  ASSUME NEW f \in Frames, limit \in Rooms, FrameSizes[f] > SymbolPayload
  PROVE  Count(f) \in Nat \ {0} /\ SymbolPayload \in Nat \ {0}
<1>1. limit \in Nat /\ FrameSizes[f] \in Nat BY SizesAndRooms
<1>2. SymbolPayload \in Nat \ {0} BY <1>1 DEF SymbolPayload
<1> DEFINE p == SymbolPayload
           n == FrameSizes[f] + p - 1
<1>3. p \in Nat \ {0} /\ n \in Nat /\ n >= p BY <1>1, <1>2
<1> HIDE DEF p, n
<1>4. n \div p \in Int /\ n = p * (n \div p) + (n % p) /\ n % p \in 0..(p - 1) BY <1>3
<1>5. n \div p >= 1
  <2> SUFFICES ASSUME n \div p <= 0 PROVE FALSE BY <1>4
  <2> DEFINE q == n \div p
  <2> HIDE DEF q
  <2>1. q \in Int /\ q <= 0 /\ p * q <= 0 BY <1>3, <1>4 DEF q
  <2> QED BY <1>3, <1>4, <2>1 DEF q
<1>6. Count(f) = n \div p BY DEF Count, n, p
<1> QED BY <1>2, <1>4, <1>5, <1>6

LEMMA FragmentsFacts ==
  ASSUME NEW f \in Frames, limit \in Rooms, FrameSizes[f] > SymbolPayload
  PROVE  /\ Fragments(f) \in Seq(JobKind) /\ Len(Fragments(f)) = Count(f)
         /\ \A i \in 1..Count(f) : Fragments(f)[i].frames = <<f>> /\ Fragments(f)[i].part = i
<1>1. Count(f) \in Nat /\ SymbolPayload \in Nat /\ FrameSizes[f] \in Nat BY CutIsCounted, SizesAndRooms
<1>2. \A i \in 1..Count(f) : Fragment(f, i) \in JobKind /\ Fragment(f, i).frames = <<f>> /\ Fragment(f, i).part = i
  <2> SUFFICES ASSUME NEW i \in 1..Count(f)
               PROVE  Fragment(f, i) \in JobKind /\ Fragment(f, i).frames = <<f>> /\ Fragment(f, i).part = i
      OBVIOUS
  <2>1. i \in Nat /\ (i - 1) * SymbolPayload \in Int BY <1>1
  <2>2. (IF i < Count(f) THEN SymbolPayload ELSE FrameSizes[f] - (i - 1) * SymbolPayload) \in Int BY <1>1, <2>1
  <2>3. <<f>> \in Seq(Frames) OBVIOUS
  <2> QED BY <2>1, <2>2, <2>3 DEF Fragment, JobKind
<1> QED BY <1>1, <1>2 DEF Fragments

\* The next frame of the queue is the next one taken.
LEMMA NextIsTaken ==
  ASSUME CodedTypes, queuedFrames # <<>>, queuedFrames' = Tail(queuedFrames), UNCHANGED accepted
  PROVE  /\ TakenUp \in Nat /\ TakenUp' = TakenUp + 1 /\ Head(queuedFrames) = TakenUp + 1
         /\ TakenUp + 1 \in Frames /\ queuedFrames' \in Seq(Frames) /\ Len(queuedFrames') <= accepted'
         /\ \A i \in 1..Len(queuedFrames') : queuedFrames'[i] = TakenUp' + i
<1>1. /\ queuedFrames \in Seq(Frames) /\ Len(queuedFrames) \in Nat /\ Len(queuedFrames) > 0
      /\ accepted \in Nat /\ Len(queuedFrames) <= accepted
  BY SizesAndRooms, LenProperties, EmptySeq DEF CodedTypes
<1>2. /\ Head(queuedFrames) \in Frames /\ Head(queuedFrames) = queuedFrames[1] /\ queuedFrames' \in Seq(Frames)
      /\ Len(queuedFrames') = Len(queuedFrames) - 1
      /\ \A i \in 1..(Len(queuedFrames) - 1) : i + 1 \in 1..Len(queuedFrames) /\ queuedFrames'[i] = queuedFrames[i + 1]
  BY <1>1, HeadTailProperties
<1>3. TakenUp \in Nat /\ TakenUp' = TakenUp + 1 BY <1>1, <1>2 DEF TakenUp
<1>4. 1 \in 1..Len(queuedFrames) BY <1>1
<1>5. Head(queuedFrames) = TakenUp + 1 BY <1>2, <1>4 DEF CodedTypes
<1>6. \A i \in 1..Len(queuedFrames') : queuedFrames'[i] = TakenUp' + i
  <2> SUFFICES ASSUME NEW i \in 1..Len(queuedFrames') PROVE queuedFrames'[i] = TakenUp' + i OBVIOUS
  <2>1. i \in 1..(Len(queuedFrames) - 1) /\ i \in Nat BY <1>1, <1>2
  <2>2. queuedFrames'[i] = TakenUp + (i + 1) BY <1>2, <2>1 DEF CodedTypes
  <2> QED BY <1>3, <2>1, <2>2
<1> QED BY <1>1, <1>2, <1>3, <1>5, <1>6

\* A frame is cut, packed with its neighbours or packed after they are to be emitted.
LEMMA AppendKeepsPlaces == CodedIInv /\ Appends => CodedIInv'
<1> SUFFICES ASSUME CodedIInv, Appends PROVE CodedIInv' OBVIOUS
<1>1. /\ loop.at \in {"waits", "drains"} /\ jobs = <<>> /\ queuedFrames # <<>> /\ queuedFrames' = Tail(queuedFrames)
      /\ loop' = [loop EXCEPT !.at = "drains"]
      /\ UNCHANGED <<accepted, window, credit, burst, room, limit, seqs, carried, refused, coded>>
  BY DEF Appends
<1>0. PICK f \in Frames : f = TakenUp + 1 BY <1>1, NextIsTaken DEF CodedIInv
<1>2. /\ TakenUp \in Nat /\ TakenUp' = f /\ Head(queuedFrames) = f /\ f \in Frames /\ queuedFrames' \in Seq(Frames)
      /\ Len(queuedFrames') <= accepted' /\ \A i \in 1..Len(queuedFrames') : queuedFrames'[i] = TakenUp' + i
  BY <1>1, <1>0, NextIsTaken DEF CodedIInv
<1>3. /\ packed \in Seq(Frames) /\ limit \in Rooms /\ refused \subseteq 1..TakenUp /\ cutInto \in [Frames -> Nat]
      /\ cutInto[f] = 0 /\ WholeTaken(packed) /\ \A g \in 1..TakenUp : HasPlace(g)
  <2>1. packed \in Seq(Frames) /\ limit \in Rooms /\ refused \subseteq 1..TakenUp /\ cutInto \in [Frames -> Nat]
    BY DEF CodedIInv, CodedTypes
  <2>2. f > TakenUp /\ (\A g \in Frames : g > TakenUp => cutInto[g] = 0) BY <1>2, <1>0 DEF CodedIInv, CodedTypes
  <2>3. WholeTaken(packed) /\ \A g \in 1..TakenUp : HasPlace(g) BY DEF CodedIInv, Places
  <2> QED BY <2>1, <2>2, <2>3
<1>4. \/ /\ FrameSizes[f] > SymbolPayload /\ jobs' = Packed \o Fragments(f) /\ packed' = <<>>
         /\ cutInto' = [cutInto EXCEPT ![f] = Count(f)]
      \/ jobs' = Packed /\ packed' = <<f>> /\ UNCHANGED cutInto
      \/ packed' = Append(packed, f) /\ UNCHANGED <<jobs, cutInto>>
  BY <1>2 DEF Appends
<1>5. \A g \in 1..TakenUp : g # f /\ g \in Nat /\ g <= f BY <1>2, <1>0
<1>6. \A g \in Frames : g \in Range(packed) => g \in 1..TakenUp
  <2>1. \A g \in Frames : g \in Nat /\ g >= 1 BY SizesAndRooms
  <2> QED BY <1>2, <1>3, <2>1 DEF WholeTaken
<1>7. Range(packed) \subseteq Frames BY <1>3, LenProperties, ElementOfSeq DEF Range
<1>8. Range(packed) \subseteq 1..TakenUp BY <1>6, <1>7
<1>9. 1..f = (1..TakenUp) \cup {f} BY <1>2, <1>0
<1>10. Stages' BY <1>1 DEF CodedIInv, Stages
<1>11. ASSUME packed' \in Seq(Frames), jobs' \in Seq(JobKind), cutInto' \in [Frames -> Nat],
              \A g \in Frames : g # f => cutInto'[g] = cutInto[g]
       PROVE  CodedTypes'
  <2>1. refused' \subseteq 1..TakenUp' BY <1>1, <1>2, <1>3, <1>9
  <2>2. \A g \in Frames : g > TakenUp' => cutInto'[g] = 0
    <3> SUFFICES ASSUME NEW g \in Frames, g > TakenUp' PROVE cutInto'[g] = 0 OBVIOUS
    <3>1. g # f /\ g > TakenUp BY <1>2, <1>0, SizesAndRooms
    <3> QED BY <1>11, <3>1 DEF CodedIInv, CodedTypes
  <2> QED BY <1>1, <1>2, <1>11, <2>1, <2>2 DEF CodedIInv, CodedTypes
<1>12. /\ Packed \in Seq(JobKind) /\ \A j \in Range(Packed) : j.part = 0 /\ j.frames = packed
       /\ packed # <<>> => \E j \in Range(Packed) : j.part = 0 /\ j.frames = packed
       /\ Len(Packed) \in Nat /\ \A i \in 1..Len(Packed) : Packed[i].part = 0
  BY <1>3, PackedSymbol
<1>13. Range(<<>>) = {} BY RangeOfNone
<1>14. /\ Range(jobs) = {} /\ \A g \in 1..TakenUp : cutInto[g] # 0 => g \in refused
                                \/ \A i \in 1..cutInto[g] : [frames |-> <<g>>, part |-> i] \in carried
       /\ \A g \in 1..TakenUp : cutInto[g] = 0 => g \in refused \/ g \in Range(packed)
                                \/ \E s \in carried : s.part = 0 /\ g \in Range(s.frames)
  BY <1>1, <1>3, <1>13 DEF HasPlace
<1>15. CASE /\ FrameSizes[f] > SymbolPayload /\ jobs' = Packed \o Fragments(f) /\ packed' = <<>>
            /\ cutInto' = [cutInto EXCEPT ![f] = Count(f)]
  <2>1. /\ Fragments(f) \in Seq(JobKind) /\ Len(Fragments(f)) = Count(f) /\ Count(f) \in Nat \ {0}
        /\ \A i \in 1..Count(f) : Fragments(f)[i].frames = <<f>> /\ Fragments(f)[i].part = i
    BY <1>2, <1>3, <1>15, FragmentsFacts, CutIsCounted
  <2>2. /\ jobs' \in Seq(JobKind) /\ Range(jobs') = Range(Packed) \cup Range(Fragments(f))
        /\ DOMAIN jobs' = 1..(Len(Packed) + Count(f))
        /\ \A i \in 1..Len(Packed) : jobs'[i] = Packed[i]
        /\ \A i \in 1..Count(f) : jobs'[Len(Packed) + i] = Fragments(f)[i]
    BY <1>12, <1>15, <2>1, RangeOfBoth
  <2>3. /\ cutInto' \in [Frames -> Nat] /\ cutInto'[f] = Count(f) /\ \A g \in Frames : g # f => cutInto'[g] = cutInto[g]
    BY <1>2, <1>3, <1>15, <2>1
  <2>4. packed' \in Seq(Frames) BY <1>15
  <2>5. CodedTypes' BY <1>11, <2>2, <2>3, <2>4
  <2>6. 1..TakenUp \subseteq Frames BY <1>2, <1>0, SizesAndRooms
  <2>7. Range(Fragments(f)) = {Fragments(f)[i] : i \in 1..Count(f)} BY <2>1, LenProperties DEF Range
  <2>8. \A g \in Range(packed) : g <= TakenUp' /\ cutInto'[g] = 0
    BY <1>2, <1>3, <1>5, <1>8, <2>3, <2>6 DEF WholeTaken
  <2>9. f \notin refused' /\ f \in 1..TakenUp' BY <1>1, <1>2, <1>3, <1>5, <1>9
  <2>10. ASSUME NEW j \in Range(jobs') PROVE IF j.part = 0 THEN WholeTaken(j.frames)' ELSE FragmentOfTaken(j)'
    <3>1. CASE j \in Range(Packed) BY <1>12, <2>8, <3>1 DEF WholeTaken
    <3>2. CASE j \in Range(Fragments(f)) BY <2>1, <2>3, <2>7, <2>9, <3>2 DEF FragmentOfTaken
    <3> QED BY <2>2, <2>10, <3>1, <3>2
  <2>11. ASSUME NEW i \in DOMAIN jobs', NEW k \in DOMAIN jobs', i < k, jobs'[i].part # 0
         PROVE  jobs'[k].frames = jobs'[i].frames
    <3>1. i \notin 1..Len(Packed) BY <1>12, <2>2, <2>11
    <3>2. /\ i - Len(Packed) \in 1..Count(f) /\ k - Len(Packed) \in 1..Count(f)
          /\ i = Len(Packed) + (i - Len(Packed)) /\ k = Len(Packed) + (k - Len(Packed))
      BY <1>12, <2>1, <2>2, <2>11, <3>1
    <3>3. jobs'[i] = Fragments(f)[i - Len(Packed)] /\ jobs'[k] = Fragments(f)[k - Len(Packed)]
      BY <2>2, <3>2
    <3> QED BY <2>1, <3>2, <3>3
  <2>12. ASSUME NEW g \in 1..TakenUp PROVE HasPlace(g)'
    <3>1. cutInto'[g] = cutInto[g] /\ refused' = refused /\ carried' = carried BY <1>1, <1>5, <2>3, <2>6
    <3>2. CASE cutInto[g] = 0 /\ g \in Range(packed)
      <4>1. packed # <<>> BY <1>13, <3>2
      <4>2. \E j \in Range(jobs') : j.part = 0 /\ g \in Range(j.frames) BY <1>12, <2>2, <3>2, <4>1
      <4> QED BY <3>1, <3>2, <4>2 DEF HasPlace
    <3>3. CASE ~(cutInto[g] = 0 /\ g \in Range(packed)) BY <1>14, <3>1, <3>3 DEF HasPlace
    <3> QED BY <3>2, <3>3
  <2>13. HasPlace(f)'
    <3>1. \A i \in 1..cutInto'[f] : \E j \in Range(jobs') : j.frames = <<f>> /\ j.part = i
      BY <2>1, <2>2, <2>3, <2>7
    <3>2. cutInto'[f] # 0 BY <2>1, <2>3
    <3> QED BY <3>1, <3>2 DEF HasPlace
  <2>14. Places'
    <3>1. WholeTaken(packed)' BY <1>13, <1>15 DEF WholeTaken
    <3>2. \A g \in 1..TakenUp' : HasPlace(g)' BY <1>2, <1>9, <2>12, <2>13
    <3> QED BY <2>10, <2>11, <3>1, <3>2 DEF Places
  <2> QED BY <1>10, <2>5, <2>14 DEF CodedIInv
<1>16. CASE jobs' = Packed /\ packed' = <<f>> /\ UNCHANGED cutInto
  <2>1. packed' \in Seq(Frames) /\ Range(packed') = {f} BY <1>2, <1>16 DEF Range
  <2>2. CodedTypes' BY <1>3, <1>11, <1>12, <1>16, <2>1
  <2>3. WholeTaken(packed)' BY <1>2, <1>3, <1>16, <1>0, <2>1 DEF WholeTaken
  <2>4. \A g \in Range(packed) : g <= TakenUp' /\ cutInto'[g] = 0 BY <1>2, <1>3, <1>5, <1>8, <1>16 DEF WholeTaken
  <2>5. \A j \in Range(jobs') : IF j.part = 0 THEN WholeTaken(j.frames)' ELSE FragmentOfTaken(j)'
    BY <1>12, <1>16, <2>4 DEF WholeTaken
  <2>6. \A i, k \in DOMAIN jobs' : i < k /\ jobs'[i].part # 0 => jobs'[k].frames = jobs'[i].frames
    BY <1>12, <1>16, LenProperties
  <2>7. ASSUME NEW g \in 1..TakenUp PROVE HasPlace(g)'
    <3>1. cutInto'[g] = cutInto[g] /\ refused' = refused /\ carried' = carried BY <1>1, <1>16
    <3>2. CASE cutInto[g] = 0 /\ g \in Range(packed)
      <4>1. packed # <<>> BY <1>13, <3>2
      <4>2. \E j \in Range(jobs') : j.part = 0 /\ g \in Range(j.frames) BY <1>12, <1>16, <3>2, <4>1
      <4> QED BY <3>1, <3>2, <4>2 DEF HasPlace
    <3>3. CASE ~(cutInto[g] = 0 /\ g \in Range(packed)) BY <1>14, <3>1, <3>3 DEF HasPlace
    <3> QED BY <3>2, <3>3
  <2>8. HasPlace(f)' BY <1>3, <1>16, <2>1 DEF HasPlace
  <2>9. \A g \in 1..TakenUp' : HasPlace(g)' BY <1>2, <1>9, <2>7, <2>8
  <2> QED BY <1>10, <2>2, <2>3, <2>5, <2>6, <2>9 DEF CodedIInv, Places
<1>17. CASE packed' = Append(packed, f) /\ UNCHANGED <<jobs, cutInto>>
  <2>1. packed' \in Seq(Frames) /\ Range(packed') = Range(packed) \cup {f}
    <3>1. <<f>> \in Seq(Frames) /\ Range(<<f>>) = {f} BY <1>2 DEF Range
    <3>2. packed' = packed \o <<f>> BY <1>2, <1>3, <1>17, AppendIsConcat
    <3> DEFINE tops == <<f>>
    <3>4. packed \in Seq(Frames) /\ tops \in Seq(Frames) BY <1>3, <3>1
    <3> HIDE DEF tops
    <3>3. packed \o tops \in Seq(Frames) /\ Range(packed \o tops) = Range(packed) \cup Range(tops)
      BY <3>4, RangeOfBoth
    <3> QED BY <3>1, <3>2, <3>3 DEF tops
  <2>2. jobs' = <<>> /\ Range(jobs') = {} /\ DOMAIN jobs' = {} BY <1>1, <1>14, <1>17 DEF Range
  <2>3. CodedTypes' BY <1>3, <1>11, <1>17, <2>1, <2>2
  <2>4. WholeTaken(packed)' BY <1>2, <1>3, <1>5, <1>8, <1>17, <1>0, <2>1 DEF WholeTaken
  <2>5. \A g \in 1..TakenUp : HasPlace(g)' BY <1>1, <1>14, <1>17, <2>1 DEF HasPlace
  <2>6. HasPlace(f)' BY <1>3, <1>17, <2>1 DEF HasPlace
  <2>7. \A g \in 1..TakenUp' : HasPlace(g)' BY <1>2, <1>9, <2>5, <2>6
  <2> QED BY <1>10, <2>2, <2>3, <2>4, <2>7 DEF CodedIInv, Places
<1> QED BY <1>4, <1>15, <1>16, <1>17

\* Nothing waits: the symbol is to be emitted.
LEMMA FlushKeepsPlaces == CodedIInv /\ Flushes => CodedIInv'
<1> SUFFICES ASSUME CodedIInv, Flushes PROVE CodedIInv' OBVIOUS
<1>1. /\ jobs = <<>> /\ jobs' = Packed /\ packed' = <<>> /\ loop' = [loop EXCEPT !.at = "flushes", !.want = 1]
      /\ UNCHANGED <<accepted, queuedFrames, burst, room, limit, seqs, carried, refused, cutInto>>
      /\ TakenUp' = TakenUp
  BY DEF Flushes, TakenUp
<1>2. /\ Packed \in Seq(JobKind) /\ \A j \in Range(Packed) : j.part = 0 /\ j.frames = packed
      /\ packed # <<>> => \E j \in Range(Packed) : j.part = 0 /\ j.frames = packed
      /\ Len(Packed) \in Nat /\ \A i \in 1..Len(Packed) : Packed[i].part = 0
  BY PackedSymbol DEF CodedIInv, CodedTypes
<1>3. Range(<<>>) = {} /\ <<>> \in Seq(Frames) BY RangeOfNone
<1>4. CodedTypes'
  <2>1. loop' \in [at : {"waits", "drains", "repairs", "flushes", "protects", "ended"}, rate : Nat, want : Int]
    <3>1. loop \in [at : {"waits", "drains", "repairs", "flushes", "protects", "ended"}, rate : Nat, want : Int]
      BY DEF CodedIInv, CodedTypes
    <3>2. loop' = [at |-> "flushes", rate |-> loop.rate, want |-> 1] BY <3>1 DEF Flushes
    <3>3. 1 \in Int /\ loop.rate \in Nat BY <3>1
    <3> QED BY <3>2, <3>3
  <2>2. packed' \in Seq(Frames) /\ jobs' \in Seq(JobKind) BY <1>1, <1>2, <1>3
  <2> QED BY <1>1, <2>1, <2>2 DEF CodedIInv, CodedTypes
<1>5. Stages' BY <1>1 DEF CodedIInv, CodedTypes, Stages
<1>6. WholeTaken(packed)' BY <1>1, <1>3 DEF WholeTaken
<1>7. \A j \in Range(jobs') : IF j.part = 0 THEN WholeTaken(j.frames)' ELSE FragmentOfTaken(j)'
  BY <1>1, <1>2 DEF WholeTaken, CodedIInv, Places
<1>8. \A i, k \in DOMAIN jobs' : i < k /\ jobs'[i].part # 0 => jobs'[k].frames = jobs'[i].frames
  BY <1>1, <1>2, LenProperties
<1>9. ASSUME NEW g \in 1..TakenUp PROVE HasPlace(g)'
  <2>1. HasPlace(g) /\ Range(jobs) = {} BY <1>1, <1>3 DEF CodedIInv, Places
  <2>2. CASE cutInto[g] = 0 /\ g \in Range(packed)
    <3>1. packed # <<>> BY <1>3, <2>2
    <3>2. \E j \in Range(jobs') : j.part = 0 /\ g \in Range(j.frames) BY <1>1, <1>2, <2>2, <3>1
    <3> QED BY <1>1, <2>2, <3>2 DEF HasPlace
  <2>3. CASE ~(cutInto[g] = 0 /\ g \in Range(packed)) BY <1>1, <2>1, <2>3 DEF HasPlace
  <2> QED BY <2>2, <2>3
<1> QED BY <1>1, <1>4, <1>5, <1>6, <1>7, <1>8, <1>9 DEF CodedIInv, Places

\* A symbol goes to the carrier, or is refused and what is left of its frame with it.
LEMMA EmitKeepsPlaces == ASSUME CodedIInv, NEW rate \in CodeRates, Emits(rate) PROVE CodedIInv'
<1> DEFINE j == Head(jobs)
<1>1. /\ jobs # <<>> /\ loop.at \in {"drains", "flushes"} /\ TakenUp' = TakenUp
      /\ UNCHANGED <<accepted, queuedFrames, packed, room, cutInto>>
  BY DEF Emits, TakenUp
<1>2. /\ j \in JobKind /\ Tail(jobs) \in Seq(JobKind) /\ Range(jobs) = {j} \cup Range(Tail(jobs))
      /\ j = jobs[1] /\ 1 \in DOMAIN jobs /\ DOMAIN Tail(jobs) = 1..(Len(jobs) - 1)
      /\ \A i \in DOMAIN Tail(jobs) : i + 1 \in DOMAIN jobs /\ Tail(jobs)[i] = jobs[i + 1]
  BY <1>1, RangeOfRest DEF CodedIInv, CodedTypes
<1>3. \/ /\ Oversize /\ burst' = NoBurst /\ jobs' = Others(j) /\ refused' = refused \cup Range(j.frames)
         /\ UNCHANGED <<loop, credit, carried>>
      \/ /\ Taken /\ jobs' = Tail(jobs) /\ carried' = carried \cup {[frames |-> j.frames, part |-> j.part]}
         /\ UNCHANGED refused
         /\ \/ /\ burst' = [burst EXCEPT !.symbols = @ + 1]
               /\ loop' = [at |-> "repairs", rate |-> rate, want |-> loop.want]
            \/ burst' = Covers([burst EXCEPT !.symbols = @ + 1]) /\ UNCHANGED loop
  BY DEF Emits
<1> HIDE DEF j
<1>4. /\ WholeTaken(packed)' /\ WholeTaken(packed)
      /\ \A g \in 1..TakenUp : HasPlace(g)
      /\ \A i \in Range(jobs) : IF i.part = 0 THEN WholeTaken(i.frames) ELSE FragmentOfTaken(i)
      /\ \A i, k \in DOMAIN jobs : i < k /\ jobs[i].part # 0 => jobs[k].frames = jobs[i].frames
  BY <1>1 DEF CodedIInv, Places, WholeTaken
<1>5. j \in Range(jobs) /\ j.frames \in Seq(Frames) /\ j.part \in Nat BY <1>2 DEF JobKind
<1>6. Range(j.frames) \subseteq 1..TakenUp
  <2>1. Range(j.frames) \subseteq Frames BY <1>5, LenProperties, ElementOfSeq DEF Range
  <2>2. \A g \in Frames : g \in Nat /\ g >= 1 BY SizesAndRooms
  <2>3. TakenUp \in Int BY SizesAndRooms, LenProperties DEF CodedIInv, CodedTypes, TakenUp
  <2>4. CASE j.part = 0
    <3>1. \A g \in Range(j.frames) : g <= TakenUp BY <1>4, <1>5, <2>4 DEF WholeTaken
    <3> QED BY <2>1, <2>2, <2>3, <3>1
  <2>5. CASE j.part # 0
    <3>1. PICK f \in 1..TakenUp : j.frames = <<f>> BY <1>4, <1>5, <2>5 DEF FragmentOfTaken
    <3>2. Range(<<f>>) = {f} BY DEF Range
    <3> QED BY <3>1, <3>2
  <2> QED BY <2>4, <2>5
<1>7. ASSUME jobs' = Tail(jobs)
      PROVE  \A i, k \in DOMAIN jobs' : i < k /\ jobs'[i].part # 0 => jobs'[k].frames = jobs'[i].frames
  <2> SUFFICES ASSUME NEW i \in DOMAIN Tail(jobs), NEW k \in DOMAIN Tail(jobs), i < k, Tail(jobs)[i].part # 0
               PROVE  Tail(jobs)[k].frames = Tail(jobs)[i].frames
      BY <1>7
  <2>1. i \in Int /\ k \in Int BY <1>2
  <2>2. i + 1 \in DOMAIN jobs /\ k + 1 \in DOMAIN jobs /\ i + 1 < k + 1 BY <1>2, <2>1
  <2> QED BY <1>2, <1>4, <2>2
<1>8. CASE /\ Taken /\ jobs' = Tail(jobs) /\ carried' = carried \cup {[frames |-> j.frames, part |-> j.part]}
           /\ UNCHANGED refused
           /\ \/ /\ burst' = [burst EXCEPT !.symbols = @ + 1]
                 /\ loop' = [at |-> "repairs", rate |-> rate, want |-> loop.want]
              \/ burst' = Covers([burst EXCEPT !.symbols = @ + 1]) /\ UNCHANGED loop
  <2>1. /\ burst' \in [symbols : Nat, repairs : Nat]
        /\ loop' \in [at : {"waits", "drains", "repairs", "flushes", "protects", "ended"}, rate : Nat, want : Int]
        /\ seqs' \in [next : Nat, sent : Nat] /\ seqs'.next = seqs'.sent /\ limit' = limit
    <3>1. /\ burst \in [symbols : Nat, repairs : Nat] /\ rate \in Nat
          /\ loop \in [at : {"waits", "drains", "repairs", "flushes", "protects", "ended"}, rate : Nat, want : Int]
          /\ seqs \in [next : Nat, sent : Nat] /\ seqs.next = seqs.sent
      BY CodedConstants DEF CodedIInv, CodedTypes
    <3>2. [burst EXCEPT !.symbols = @ + 1] \in [symbols : Nat, repairs : Nat] BY <3>1
    <3>3. burst' \in [symbols : Nat, repairs : Nat] BY <1>8, <3>2 DEF Covers, NoBurst
    <3>4. loop' \in [at : {"waits", "drains", "repairs", "flushes", "protects", "ended"}, rate : Nat, want : Int]
      BY <1>1, <1>8, <3>1
    <3>5. seqs' \in [next : Nat, sent : Nat] /\ seqs'.next = seqs'.sent /\ limit' = limit BY <1>8, <3>1 DEF Taken
    <3> QED BY <3>3, <3>4, <3>5
  <2>2. CodedTypes' BY <1>1, <1>2, <1>8, <2>1 DEF CodedIInv, CodedTypes
  <2>3. Stages' BY <1>1, <1>8 DEF CodedIInv, CodedTypes, Stages
  <2>4. ASSUME NEW i \in Range(jobs') PROVE IF i.part = 0 THEN WholeTaken(i.frames)' ELSE FragmentOfTaken(i)'
    <3>1. i \in Range(jobs) BY <1>2, <1>8, <2>4
    <3> QED BY <1>1, <1>4, <1>8, <3>1 DEF WholeTaken, FragmentOfTaken
  <2>5. ASSUME NEW g \in 1..TakenUp PROVE HasPlace(g)'
    <3>1. HasPlace(g) /\ refused' = refused /\ cutInto' = cutInto /\ packed' = packed BY <1>1, <1>4, <1>8
    <3>2. CASE cutInto[g] = 0 /\ \E i \in Range(jobs) : i.part = 0 /\ g \in Range(i.frames)
      <4>1. PICK i \in Range(jobs) : i.part = 0 /\ g \in Range(i.frames) BY <3>2
      <4>2. CASE i = j
        <5>1. \E s \in carried' : s.part = 0 /\ g \in Range(s.frames)
          <6> DEFINE s == [frames |-> j.frames, part |-> j.part]
          <6>1. s \in carried' BY <1>8
          <6>2. s.part = 0 /\ g \in Range(s.frames) BY <4>1, <4>2
          <6> QED BY <6>1, <6>2
        <5> QED BY <3>1, <3>2, <5>1 DEF HasPlace
      <4>3. CASE i # j
        <5>1. i \in Range(jobs') BY <1>2, <1>8, <4>1, <4>3
        <5> QED BY <3>1, <3>2, <4>1, <5>1 DEF HasPlace
      <4> QED BY <4>2, <4>3
    <3>3. CASE g \in refused \/ (cutInto[g] = 0 /\ (g \in Range(packed) \/ \E s \in carried : s.part = 0 /\ g \in Range(s.frames)))
      BY <1>8, <3>1, <3>3 DEF HasPlace
    <3>4. CASE /\ cutInto[g] # 0
               /\ \A i \in 1..cutInto[g] : \/ [frames |-> <<g>>, part |-> i] \in carried
                                           \/ \E k \in Range(jobs) : k.frames = <<g>> /\ k.part = i
      <4>1. ASSUME NEW i \in 1..cutInto[g]
            PROVE  \/ [frames |-> <<g>>, part |-> i] \in carried'
                   \/ \E k \in Range(jobs') : k.frames = <<g>> /\ k.part = i
        BY <1>2, <1>8, <3>4
      <4> QED BY <3>1, <3>4, <4>1 DEF HasPlace
    <3> QED BY <3>1, <3>2, <3>3, <3>4 DEF HasPlace
  <2> QED BY <1>1, <1>4, <1>7, <1>8, <2>2, <2>3, <2>4, <2>5 DEF CodedIInv, Places
<1>9. CASE /\ Oversize /\ burst' = NoBurst /\ jobs' = Others(j) /\ refused' = refused \cup Range(j.frames)
           /\ UNCHANGED <<loop, credit, carried>>
  <2>1. /\ burst' \in [symbols : Nat, repairs : Nat] /\ limit' \in Rooms
        /\ seqs' \in [next : Nat, sent : Nat] /\ seqs'.next = seqs'.sent
    BY <1>9 DEF CodedIInv, CodedTypes, Oversize, Untake, NoBurst
  <2>2. jobs' \in Seq(JobKind) BY <1>2, <1>9 DEF Others
  <2>3. refused' \subseteq 1..TakenUp' BY <1>1, <1>6, <1>9 DEF CodedIInv, CodedTypes
  <2>4. CodedTypes' BY <1>1, <1>9, <2>1, <2>2, <2>3 DEF CodedIInv, CodedTypes
  <2>5. Stages' BY <1>1, <1>9, <2>1 DEF CodedIInv, CodedTypes, Stages
  <2>6. CASE j.part = 0
    <3>1. jobs' = Tail(jobs) BY <1>9, <2>6 DEF Others
    <3>2. \A g \in Range(j.frames) : cutInto[g] = 0 BY <1>4, <1>5, <2>6 DEF WholeTaken
    <3>3. ASSUME NEW i \in Range(jobs') PROVE IF i.part = 0 THEN WholeTaken(i.frames)' ELSE FragmentOfTaken(i)'
      <4>1. i \in Range(jobs) BY <1>2, <3>1, <3>3
      <4> QED BY <1>1, <1>4, <1>9, <3>2, <4>1 DEF WholeTaken, FragmentOfTaken
    <3>4. ASSUME NEW g \in 1..TakenUp PROVE HasPlace(g)'
      <4>1. HasPlace(g) /\ cutInto' = cutInto /\ packed' = packed /\ carried' = carried BY <1>1, <1>4, <1>9
      <4>2. CASE g \in refused \cup Range(j.frames) BY <1>9, <4>2 DEF HasPlace
      <4>3. CASE g \notin refused \cup Range(j.frames)
        <5>1. \A i \in Range(jobs) : i.part = 0 /\ g \in Range(i.frames) => i \in Range(jobs')
          BY <1>2, <3>1, <4>3
        <5>2. \A i \in Range(jobs) : i.part # 0 => i \in Range(jobs') BY <1>2, <2>6, <3>1
        <5>3. \A n \in 1..cutInto[g] : n # 0 OBVIOUS
        <5> QED BY <4>1, <4>3, <5>1, <5>2, <5>3 DEF HasPlace
      <4> QED BY <4>2, <4>3
    <3> QED BY <1>1, <1>4, <1>7, <2>4, <2>5, <3>1, <3>3, <3>4 DEF CodedIInv, Places
  <2>7. CASE j.part # 0
    <3>1. jobs' = <<>> /\ Range(jobs') = {} /\ DOMAIN jobs' = {} BY <1>9, <2>7, RangeOfNone DEF Others
    <3>2. PICK f \in 1..TakenUp : j.frames = <<f>> /\ cutInto[f] # 0 BY <1>4, <1>5, <2>7 DEF FragmentOfTaken
    <3>3. Range(<<f>>) = {f} /\ \A g : <<g>> = <<f>> => g = f BY DEF Range
    <3>4. \A i \in Range(jobs) : i.frames = <<f>>
      <4> SUFFICES ASSUME NEW k \in DOMAIN jobs PROVE jobs[k].frames = <<f>> BY DEF Range
      <4>1. k \in Nat /\ k >= 1 BY LenProperties DEF CodedIInv, CodedTypes
      <4>2. CASE k = 1 BY <1>2, <3>2, <4>2
      <4>3. CASE 1 < k BY <1>2, <1>4, <2>7, <3>2, <4>3
      <4> QED BY <4>1, <4>2, <4>3
    <3>5. ASSUME NEW g \in 1..TakenUp PROVE HasPlace(g)'
      <4>1. HasPlace(g) /\ cutInto' = cutInto /\ packed' = packed /\ carried' = carried BY <1>1, <1>4, <1>9
      <4>2. CASE g \in refused \cup {f} BY <1>9, <3>2, <3>3, <4>2 DEF HasPlace
      <4>3. CASE g \notin refused \cup {f}
        <5>1. \A i \in Range(jobs) : g \notin Range(i.frames) /\ i.frames # <<g>> BY <3>3, <3>4, <4>3
        <5> QED BY <4>1, <4>3, <5>1 DEF HasPlace
      <4> QED BY <4>2, <4>3
    <3> QED BY <1>1, <1>4, <2>4, <2>5, <3>1, <3>5 DEF CodedIInv, Places
  <2> QED BY <2>6, <2>7
<1> QED BY <1>3, <1>8, <1>9

LEMMA CodedStepKeepsPlaces == CodedIInv /\ [CodedNext]_codedVars => CodedIInv'
<1> SUFFICES ASSUME CodedIInv, [CodedNext]_codedVars PROVE CodedIInv' OBVIOUS
<1>1. CASE UNCHANGED codedVars
  <2>1. TakenUp' = TakenUp BY <1>1 DEF codedVars, TakenUp
  <2> QED BY <1>1, <2>1, PlacesStay DEF codedVars, CodedIInv, CodedTypes, Stages
<1>2. CASE CodedNext
  BY <1>2, SendKeepsPlaces, AppendKeepsPlaces, FlushKeepsPlaces, EmitKeepsPlaces, QuietStepsKeepPlaces DEF CodedNext
<1> QED BY <1>1, <1>2

LEMMA PlacesAreWhole == CodedIInv => CodedInv
<1> SUFFICES ASSUME CodedIInv PROVE CodedInv OBVIOUS
<1>1. seqs.next = seqs.sent /\ (loop.at = "waits" => packed = <<>> /\ jobs = <<>> /\ burst.symbols = 0)
  BY DEF CodedIInv, CodedTypes, Stages
<1>2. ASSUME loop.at = "waits", NEW f \in 1..TakenUp PROVE WholeOut(f) \/ f \in refused
  <2>1. Range(packed) = {} /\ Range(jobs) = {} BY <1>1, <1>2, RangeOfNone
  <2> QED BY <1>2, <2>1 DEF CodedIInv, Places, HasPlace, WholeOut
<1>3. ASSUME NEW i \in DOMAIN jobs, jobs[i].part > 1 PROVE Head(jobs[i].frames) \notin refused
  <2>1. jobs[i] \in Range(jobs) /\ jobs[i].part # 0 BY <1>3 DEF Range
  <2>2. PICK f \in 1..TakenUp : jobs[i].frames = <<f>> /\ f \notin refused
    BY <2>1 DEF CodedIInv, Places, FragmentOfTaken
  <2> QED BY <2>2
<1> QED BY <1>1, <1>2, <1>3 DEF CodedInv, TakenUp

\* For any frames, rates of the code and moves of the carrier's limit: the peer sees no gap the
\* wire never made (untake), whenever the loop waits each frame it took went out whole or was
\* refused for its size, and no fragment follows one that was refused (sendFragments).
THEOREM FramesGoOutWhole == CodedSpec => []CodedInv
<1>1. CodedSpec => []CodedIInv BY CodedStarts, CodedStepKeepsPlaces, PTL DEF CodedSpec
<1> QED BY <1>1, PlacesAreWhole, PTL

-----------------------------------------------------------------------------
(* FecWindow: rows are equations, and reducing them keeps their solutions *)

\* The larger of two numbers, and the smaller.
LEMMA MaxOfTwo ==
  ASSUME NEW a \in Int, NEW b \in Int
  PROVE  Max({a, b}) = IF a >= b THEN a ELSE b
<1>1. \E x \in {a, b} : \A y \in {a, b} : x >= y
  OBVIOUS
<1>2. Max({a, b}) \in {a, b} /\ \A y \in {a, b} : Max({a, b}) >= y
  BY <1>1 DEF Max
<1> QED BY <1>2

LEMMA MinOfTwo ==
  ASSUME NEW a \in Int, NEW b \in Int
  PROVE  Min({a, b}) = IF a <= b THEN a ELSE b
<1>1. \E x \in {a, b} : \A y \in {a, b} : x <= y
  OBVIOUS
<1>2. Min({a, b}) \in {a, b} /\ \A y \in {a, b} : Min({a, b}) <= y
  BY <1>1 DEF Min
<1> QED BY <1>2

\* A number is its remainder and a multiple, and there is one way to say so.
LEMMA Divides ==
  ASSUME NEW n \in Nat \ {0}, NEW a \in Int
  PROVE  a % n \in 0..(n - 1) /\ a \div n \in Int /\ a = n * (a \div n) + (a % n)
OBVIOUS

LEMMA RemainderIs ==
  ASSUME NEW n \in Nat \ {0}, NEW q \in Int, NEW m \in 0..(n - 1)
  PROVE  (n * q + m) % n = m
<1> DEFINE a == n * q + m
           p == a \div n
           k == a % n
<1>1. a \in Int /\ k \in 0..(n - 1) /\ p \in Int /\ a = n * p + k
  <2>1. n * q \in Int OBVIOUS
  <2> QED BY <2>1, Divides
<1>2. a = n * q + m OBVIOUS
<1> HIDE DEF a, p, k
<1>3. n * (p - q) = m - k
  <2>1. n * (p - q) = n * p - n * q BY <1>1
  <2>2. n * p \in Int /\ n * q \in Int BY <1>1
  <2> QED BY <1>1, <1>2, <2>1, <2>2
<1> DEFINE d == p - q
           nd == n * d
<1>4. d \in Int /\ nd = m - k /\ nd < n /\ -nd < n BY <1>1, <1>3
<1>5. d = 0
  <2> HIDE DEF d
  <2>1. ASSUME d >= 1 PROVE FALSE
    <3>1. n * d >= n BY <1>4, <2>1
    <3> QED BY <1>4, <3>1
  <2>2. ASSUME d <= -1 PROVE FALSE
    <3>1. PICK e \in Nat : d = -1 - e
      <4>1. -1 - d \in Nat /\ d = -1 - (-1 - d) BY <1>4, <2>2
      <4> QED BY <4>1
    <3>2. n * d = -n - n * e /\ n * e \in Nat BY <3>1
    <3> QED BY <1>4, <3>2
  <2> QED BY <1>4, <2>1, <2>2
<1>6. nd = 0
  <2> HIDE DEF d
  <2> QED BY <1>5
<1> QED BY <1>4, <1>6 DEF k, a

\* Numbers that are a multiple apart have the same remainder.
LEMMA Apart ==
  ASSUME NEW n \in Nat \ {0}, NEW a \in Int, NEW b \in Int, NEW k \in Int, a = b + n * k
  PROVE  a % n = b % n
<1> DEFINE q == b \div n
           m == b % n
<1>1. m \in 0..(n - 1) /\ q \in Int /\ b = n * q + m BY Divides
<1> HIDE DEF q, m
<1>2. n * (q + k) = n * q + n * k BY <1>1
<1>3. n * q \in Int /\ n * k \in Int BY <1>1
<1>4. a = n * (q + k) + m BY <1>1, <1>2, <1>3
<1>5. q + k \in Int BY <1>1
<1>6. a % n = m BY <1>1, <1>4, <1>5, RemainderIs
<1> QED BY <1>6 DEF m

LEMMA RemainderTimes ==
  ASSUME NEW n \in Nat \ {0}, NEW f \in Int, NEW a \in Int
  PROVE  (f * (a % n)) % n = (f * a) % n
<1> DEFINE q == a \div n
           m == a % n
<1>1. m \in Int /\ q \in Int /\ a = n * q + m BY Divides
<1> HIDE DEF q, m
<1>2. f * m = f * a + n * (f * (-q))
  <2>1. f * a = f * (n * q) + f * m BY <1>1
  <2>2. f * (n * q) = n * (f * q) /\ n * (f * (-q)) = -(n * (f * q)) BY <1>1
  <2>3. f * m \in Int /\ f * a \in Int /\ n * (f * q) \in Int BY <1>1
  <2> QED BY <2>1, <2>2, <2>3
<1>3. f * m \in Int /\ f * a \in Int /\ f * (-q) \in Int BY <1>1
<1> QED BY <1>2, <1>3, Apart DEF m

LEMMA RemainderLess ==
  ASSUME NEW n \in Nat \ {0}, NEW a \in Int, NEW b \in Int, NEW c \in Int
  PROVE  ((a % n) - c * (b % n)) % n = (a - c * b) % n
<1> DEFINE p == a \div n
           k == a % n
           q == b \div n
           m == b % n
<1>1. k \in Int /\ p \in Int /\ a = n * p + k /\ m \in Int /\ q \in Int /\ b = n * q + m BY Divides
<1> HIDE DEF p, k, q, m
<1>2. k - c * m = (a - c * b) + n * (c * q - p)
  <2>1. c * b = c * (n * q) + c * m BY <1>1
  <2>2. c * (n * q) = n * (c * q) /\ n * (c * q - p) = n * (c * q) - n * p
    <3>1. c * q \in Int BY <1>1
    <3>2. c * (n * q) = n * (c * q) BY <1>1
    <3> DEFINE u == c * q
    <3> HIDE DEF u
    <3>3. u \in Int BY <3>1 DEF u
    <3>4. n * (u - p) = n * u - n * p BY <1>1, <3>3
    <3> QED BY <3>2, <3>4 DEF u
  <2>3. c * m \in Int /\ c * b \in Int /\ n * (c * q) \in Int /\ n * p \in Int BY <1>1
  <2> QED BY <1>1, <2>1, <2>2, <2>3
<1>3. k - c * m \in Int /\ a - c * b \in Int /\ c * q - p \in Int BY <1>1
<1>4. (k - c * m) % n = (a - c * b) % n BY <1>2, <1>3, Apart
<1> QED BY <1>4 DEF k, m

\* A row over the unknowns D: a partial function to what is not zero, and a constant.
RowOver(r, D) ==
  /\ DOMAIN r.coef \subseteq D /\ r.coef = [e \in DOMAIN r.coef |-> r.coef[e]]
  /\ \A e \in DOMAIN r.coef : r.coef[e] \in 1..(Prime - 1)
  /\ r.data \in 0..(Prime - 1)

LEMMA ValueType == ASSUME NEW e \in Int PROVE Value(e) \in 1..(Prime - 1)
<1>1. Prime - 1 \in Nat \ {0} BY FecConstants
<1>2. e % (Prime - 1) \in 0..((Prime - 1) - 1) BY <1>1, Divides
<1> QED BY <1>1, <1>2 DEF Value

LEMMA CoefType ==
  ASSUME NEW r, NEW D, RowOver(r, D), NEW e
  PROVE  Coef(r, e) \in 0..(Prime - 1) /\ (Coef(r, e) = 0 <=> e \notin DOMAIN r.coef)
BY FecConstants DEF Coef, RowOver

\* The sum of a row over all unknowns of D.
TermsOf(r, D) == [e \in D |-> Coef(r, e) * Value(e)]
SumOf(r, D) == SumFunctionOnSet(TermsOf(r, D), D)

LEMMA DotIsSum ==
  ASSUME NEW D, IsFiniteSet(D), D \subseteq Int, NEW r, RowOver(r, D)
  PROVE  SumOf(r, D) \in Nat /\ Dot(r.coef) = SumOf(r, D) % Prime /\ \A e \in D : TermsOf(r, D)[e] \in Nat
<1> DEFINE E == DOMAIN r.coef
           f == TermsOf(r, D)
           g == [e \in E |-> r.coef[e] * Value(e)]
<1>1. E \subseteq D /\ IsFiniteSet(E) /\ IsFiniteSet(D \ E) /\ E \cap (D \ E) = {} /\ E \cup (D \ E) = D
  BY FS_Subset, FS_Difference DEF RowOver
<1>2. \A e \in D : f[e] \in Nat /\ f[e] = Coef(r, e) * Value(e)
  <2> SUFFICES ASSUME NEW e \in D PROVE f[e] \in Nat /\ f[e] = Coef(r, e) * Value(e) OBVIOUS
  <2>1. f[e] = Coef(r, e) * Value(e) BY DEF TermsOf
  <2>2. Coef(r, e) \in Nat /\ Value(e) \in Nat
    <3>1. Coef(r, e) \in 0..(Prime - 1) BY CoefType
    <3>2. Value(e) \in 1..(Prime - 1) BY ValueType
    <3> QED BY <3>1, <3>2
  <2> DEFINE a == Coef(r, e)
             b == Value(e)
  <2> HIDE DEF a, b, f
  <2>3. a \in Nat /\ b \in Nat /\ f[e] = a * b BY <2>1, <2>2 DEF a, b
  <2>4. a * b \in Nat BY <2>3
  <2> QED BY <2>1, <2>3, <2>4
<1>3. \A e \in E : g[e] = f[e]
  <2>1. \A e \in E : e \in D /\ Coef(r, e) = r.coef[e] BY <1>1 DEF Coef
  <2> QED BY <1>2, <2>1
<1>4. \A e \in D \ E : f[e] = 0
  <2> SUFFICES ASSUME NEW e \in D \ E PROVE f[e] = 0 OBVIOUS
  <2>1. Coef(r, e) = 0 /\ Value(e) \in Int BY FecConstants, ValueType DEF Coef
  <2>2. 0 * Value(e) = 0 BY <2>1
  <2> QED BY <1>2, <2>1, <2>2
<1> HIDE DEF f, g, E
<1>5. SumFunctionOnSet(f, D) = SumFunctionOnSet(f, E) + SumFunctionOnSet(f, D \ E) BY <1>1, <1>2, SumUnion
<1>6. SumFunctionOnSet(f, D \ E) = 0 BY <1>1, <1>4, SumZero
<1>7. SumFunctionOnSet(g, E) = SumFunctionOnSet(f, E) BY <1>1, <1>2, <1>3, SumSame
<1>8. SumFunctionOnSet(f, D) \in Nat /\ SumFunctionOnSet(f, E) \in Nat BY <1>1, <1>2, SumType
<1>9. SumFunctionOnSet(g, E) = SumFunctionOnSet(f, D) BY <1>5, <1>6, <1>7, <1>8
<1> QED BY <1>2, <1>8, <1>9 DEF Dot, SumOf, f, g, E

\* Taking a row's pivot out of another leaves a row, over the unknowns of both.
LEMMA LessIsRow ==
  ASSUME NEW D, NEW r, RowOver(r, D), NEW s, RowOver(s, D)
  PROVE  /\ RowOver(Less(r, s), D) /\ Less(r, s).pivot = r.pivot
         /\ Less(r, s).data = (r.data - Coef(r, s.pivot) * s.data) % Prime
         /\ \A e : Coef(Less(r, s), e) = LeftOf(r, s, e)
         /\ DOMAIN Less(r, s).coef \subseteq DOMAIN r.coef \cup DOMAIN s.coef
<1> DEFINE E == {x \in DOMAIN r.coef \cup DOMAIN s.coef : LeftOf(r, s, x) # 0}
<1>1. Prime \in Nat \ {0} BY FecConstants
<1>2. \A e : LeftOf(r, s, e) \in 0..(Prime - 1)
  <2> SUFFICES ASSUME NEW e PROVE LeftOf(r, s, e) \in 0..(Prime - 1) OBVIOUS
  <2> DEFINE a == Coef(r, e)
             b == Coef(r, s.pivot)
             c == Coef(s, e)
  <2>1. a \in Int /\ b \in Int /\ c \in Int BY CoefType
  <2>2. LeftOf(r, s, e) = (a - b * c) % Prime BY DEF LeftOf
  <2> HIDE DEF a, b, c
  <2>3. a - b * c \in Int BY <2>1
  <2> QED BY <1>1, <2>2, <2>3, Divides
<1>3. /\ Less(r, s).coef = [e \in E |-> LeftOf(r, s, e)] /\ Less(r, s).pivot = r.pivot
      /\ Less(r, s).data = (r.data - Coef(r, s.pivot) * s.data) % Prime
  BY DEF Less
<1>4. DOMAIN Less(r, s).coef = E /\ \A e \in E : Less(r, s).coef[e] = LeftOf(r, s, e) BY <1>3
<1>5. \A e : e \notin DOMAIN r.coef \cup DOMAIN s.coef => LeftOf(r, s, e) = 0
  <2> SUFFICES ASSUME NEW e, e \notin DOMAIN r.coef \cup DOMAIN s.coef PROVE LeftOf(r, s, e) = 0 OBVIOUS
  <2>1. Coef(r, e) = 0 /\ Coef(s, e) = 0 BY DEF Coef
  <2> DEFINE b == Coef(r, s.pivot)
  <2>2. b \in Int BY CoefType
  <2>3. LeftOf(r, s, e) = (0 - b * 0) % Prime BY <2>1 DEF LeftOf
  <2> HIDE DEF b
  <2>4. 0 - b * 0 = Prime * 0 + 0 BY <1>1, <2>2
  <2>5. 0 \in 0..(Prime - 1) BY <1>1
  <2>6. (Prime * 0 + 0) % Prime = 0 BY <1>1, <2>5, RemainderIs
  <2> QED BY <2>3, <2>4, <2>6
<1>6. \A e : Coef(Less(r, s), e) = LeftOf(r, s, e)
  <2> SUFFICES ASSUME NEW e PROVE Coef(Less(r, s), e) = LeftOf(r, s, e) OBVIOUS
  <2>1. CASE e \in E BY <1>4, <2>1 DEF Coef
  <2>2. CASE e \notin E BY <1>4, <1>5, <2>2 DEF Coef
  <2> QED BY <2>1, <2>2
<1>7. Less(r, s).data \in 0..(Prime - 1)
  <2> DEFINE b == Coef(r, s.pivot)
  <2>1. b \in Int /\ r.data \in Int /\ s.data \in Int
    <3>1. b \in 0..(Prime - 1) BY CoefType
    <3>2. r.data \in 0..(Prime - 1) /\ s.data \in 0..(Prime - 1) BY DEF RowOver
    <3> HIDE DEF b
    <3> QED BY <3>1, <3>2
  <2>2. Less(r, s).data = (r.data - b * s.data) % Prime BY <1>3
  <2> HIDE DEF b
  <2>3. r.data - b * s.data \in Int BY <2>1
  <2> QED BY <1>1, <2>2, <2>3, Divides
<1>8. RowOver(Less(r, s), D)
  <2>1. E \subseteq D BY DEF RowOver
  <2>2. \A e \in E : LeftOf(r, s, e) \in 1..(Prime - 1) BY <1>1, <1>2
  <2> HIDE DEF E
  <2>3. Less(r, s).coef = [e \in E |-> Less(r, s).coef[e]] BY <1>3
  <2> QED BY <1>4, <1>7, <2>1, <2>2, <2>3 DEF RowOver
<1> QED BY <1>3, <1>4, <1>6, <1>8

\* What solves two rows solves the one that is left of them.
LEMMA LessHolds ==
  ASSUME NEW D, IsFiniteSet(D), D \subseteq Int, NEW r, RowOver(r, D), NEW s, RowOver(s, D), RowHolds(r), RowHolds(s)
  PROVE  RowHolds(Less(r, s))
<1> DEFINE t == Less(r, s)
           c == Coef(r, s.pivot)
           Over(e) == -((Coef(r, e) - c * Coef(s, e)) \div Prime)
           fr == TermsOf(r, D)
           fs == TermsOf(s, D)
           ft == TermsOf(t, D)
           fk == [e \in D |-> Over(e) * Value(e)]
           fcs == [e \in D |-> c * fs[e]]
           fpk == [e \in D |-> Prime * fk[e]]
           h == [e \in D |-> ft[e] + fcs[e]]
<1>1. Prime \in Nat \ {0} /\ c \in Nat BY FecConstants, CoefType
<1>2. RowOver(t, D) /\ t.data = (r.data - c * s.data) % Prime /\ \A e : Coef(t, e) = LeftOf(r, s, e) BY LessIsRow
<1>3. /\ SumFunctionOnSet(fr, D) \in Nat /\ SumFunctionOnSet(fr, D) % Prime = r.data
      /\ SumFunctionOnSet(fs, D) \in Nat /\ SumFunctionOnSet(fs, D) % Prime = s.data
      /\ SumFunctionOnSet(ft, D) \in Nat /\ Dot(t.coef) = SumFunctionOnSet(ft, D) % Prime
      /\ \A e \in D : fr[e] \in Nat /\ fs[e] \in Nat /\ ft[e] \in Nat
  BY <1>2, DotIsSum DEF RowHolds, SumOf
<1>4. ASSUME NEW e \in D
      PROVE  Over(e) \in Nat /\ fk[e] \in Nat /\ ft[e] + c * fs[e] = fr[e] + Prime * fk[e]
  <2> DEFINE a == Coef(r, e)
             b == Coef(s, e)
             x == a - c * b
             m == Coef(t, e)
             k == Over(e)
             v == Value(e)
  <2>1. a \in Nat /\ a < Prime /\ b \in Nat /\ v \in Nat /\ c * b \in Nat /\ x \in Int /\ x < Prime
    <3>1. a \in 0..(Prime - 1) /\ b \in 0..(Prime - 1) /\ v \in 1..(Prime - 1) BY CoefType, ValueType
    <3> HIDE DEF a, b, c, v
    <3>2. c * b \in Nat BY <1>1, <3>1
    <3> QED BY <1>1, <3>1, <3>2
  <2>2. m = x % Prime /\ k = -(x \div Prime) BY <1>2 DEF LeftOf
  <2>3. m \in 0..(Prime - 1) /\ x = Prime * (-k) + m /\ k \in Int
    <3> HIDE DEF x, m, k
    <3>1. x % Prime \in 0..(Prime - 1) /\ x \div Prime \in Int /\ x = Prime * (x \div Prime) + (x % Prime) BY <1>1, <2>1, Divides
    <3> DEFINE q == x \div Prime
    <3> HIDE DEF q
    <3>2. q \in Int /\ k = -q BY <2>2, <3>1 DEF q
    <3>3. -k = q BY <3>2
    <3> QED BY <2>2, <3>1, <3>2, <3>3 DEF q
  <2>4. k \in Nat
    <3> HIDE DEF x, m, k
    <3>1. ASSUME -k >= 1 PROVE FALSE
      <4>1. Prime * (-k) >= Prime BY <1>1, <2>3, <3>1
      <4> QED BY <1>1, <2>1, <2>3, <4>1
    <3> QED BY <2>3, <3>1
  <2>5. fr[e] = a * v /\ fs[e] = b * v /\ ft[e] = m * v /\ fk[e] = k * v BY DEF TermsOf
  <2>6. m + c * b = a + Prime * k
    <3> HIDE DEF a, b, c, m, k
    <3>1. Prime * (-k) = -(Prime * k) /\ Prime * k \in Int BY <1>1, <2>4
    <3> QED BY <1>1, <2>1, <2>3, <3>1
  <2> HIDE DEF a, b, c, m, k, v, x
  <2>7. m * v + c * (b * v) = a * v + Prime * (k * v)
    <3> DEFINE cb == c * b
               pk == Prime * k
    <3>1. cb \in Int /\ pk \in Int /\ m + cb = a + pk /\ m \in Int BY <1>1, <2>1, <2>3, <2>4, <2>6
    <3>2. c * (b * v) = cb * v /\ Prime * (k * v) = pk * v BY <1>1, <2>1, <2>4
    <3> HIDE DEF cb, pk
    <3>3. m * v + cb * v = (m + cb) * v /\ (a + pk) * v = a * v + pk * v BY <2>1, <3>1
    <3> QED BY <3>1, <3>2, <3>3
  <2>8. k * v \in Nat BY <2>1, <2>4
  <2> QED BY <2>4, <2>5, <2>7, <2>8 DEF k
<1>5. \A e \in D : /\ fcs[e] = c * fs[e] /\ fpk[e] = Prime * fk[e]
                   /\ fk[e] \in Nat /\ h[e] = ft[e] + fcs[e] /\ h[e] = fr[e] + fpk[e] /\ fcs[e] \in Nat /\ fpk[e] \in Nat
  <2> SUFFICES ASSUME NEW e \in D
               PROVE  /\ fcs[e] = c * fs[e] /\ fpk[e] = Prime * fk[e]
                      /\ fk[e] \in Nat /\ h[e] = ft[e] + fcs[e] /\ h[e] = fr[e] + fpk[e] /\ fcs[e] \in Nat /\ fpk[e] \in Nat
    OBVIOUS
  <2>1. fk[e] \in Nat /\ ft[e] + c * fs[e] = fr[e] + Prime * fk[e] /\ fs[e] \in Nat BY <1>3, <1>4
  <2>2. fcs[e] = c * fs[e] /\ fpk[e] = Prime * fk[e] /\ h[e] = ft[e] + fcs[e] OBVIOUS
  <2> HIDE DEF fcs, fpk, h, fk, fs, c, ft, fr
  <2>3. c * fs[e] \in Nat /\ Prime * fk[e] \in Nat BY <1>1, <2>1
  <2> QED BY <2>1, <2>2, <2>3
<1> DEFINE R == SumFunctionOnSet(fr, D)
           S == SumFunctionOnSet(fs, D)
           T == SumFunctionOnSet(ft, D)
           K == SumFunctionOnSet(fk, D)
<1> HIDE DEF fr, fs, ft, fk, fcs, fpk, h, c, t
<1>6. SumFunctionOnSet(fcs, D) = c * S /\ SumFunctionOnSet(fpk, D) = Prime * K
  <2>1. Prime \in Nat /\ \A e \in D : fs[e] \in Nat /\ fk[e] \in Nat /\ fcs[e] = c * fs[e] /\ fpk[e] = Prime * fk[e]
    BY <1>1, <1>3, <1>5
  <2>2. SumFunctionOnSet(fcs, D) = c * S BY <1>1, <2>1, SumTimes
  <2>3. SumFunctionOnSet(fpk, D) = Prime * K BY <2>1, SumTimes
  <2> QED BY <2>2, <2>3
<1>7. SumFunctionOnSet(h, D) = T + c * S /\ SumFunctionOnSet(h, D) = R + Prime * K
  <2>1. SumFunctionOnSet(h, D) = SumFunctionOnSet(ft, D) + SumFunctionOnSet(fcs, D) BY <1>3, <1>5, SumPlus
  <2>2. SumFunctionOnSet(h, D) = SumFunctionOnSet(fr, D) + SumFunctionOnSet(fpk, D) BY <1>3, <1>5, SumPlus
  <2> QED BY <1>6, <2>1, <2>2
<1>8. R \in Nat /\ S \in Nat /\ T \in Nat /\ K \in Nat /\ R % Prime = r.data /\ S % Prime = s.data /\ Dot(t.coef) = T % Prime
  BY <1>3, <1>5, SumType
<1> HIDE DEF R, S, T, K
<1>9. T % Prime = (R - c * S) % Prime
  <2>1. T = (R - c * S) + Prime * K
    <3>1. c * S \in Int /\ Prime * K \in Int BY <1>1, <1>8
    <3> QED BY <1>7, <1>8, <3>1
  <2>2. R - c * S \in Int BY <1>1, <1>8
  <2> DEFINE x == R - c * S
  <2>3. x \in Int /\ T = x + Prime * K /\ T \in Int /\ K \in Int BY <1>8, <2>1, <2>2
  <2> HIDE DEF x
  <2>4. T % Prime = x % Prime BY <1>1, <2>3, Apart
  <2> QED BY <2>4 DEF x
<1>10. (R - c * S) % Prime = (r.data - c * s.data) % Prime
  <2>1. R \in Int /\ S \in Int /\ c \in Int BY <1>1, <1>8
  <2>2. ((R % Prime) - c * (S % Prime)) % Prime = (R - c * S) % Prime BY ONLY <1>1, <2>1, RemainderLess
  <2> QED BY <1>8, <2>2
<1> QED BY <1>2, <1>8, <1>9, <1>10 DEF RowHolds, t

LEMMA UnitIsRow ==
  ASSUME NEW D, NEW e \in D, NEW v \in 0..(Prime - 1)
  PROVE  /\ RowOver(Unit(e, v), D) /\ DOMAIN Unit(e, v).coef = {e} /\ Unit(e, v).pivot = e
         /\ Unit(e, v).coef[e] = 1 /\ Unit(e, v).data = v
BY FecConstants DEF Unit, RowOver

\* A row over one unknown is that symbol, if its coefficient is one.
LEMMA OneUnknown ==
  ASSUME NEW r, NEW e \in Int, DOMAIN r.coef = {e}, r.coef[e] = 1
  PROVE  Dot(r.coef) = Value(e)
<1> DEFINE g == [x \in DOMAIN r.coef |-> r.coef[x] * Value(x)]
<1>1. Prime \in Nat \ {0} /\ Value(e) \in 0..(Prime - 1) BY FecConstants, ValueType
<1>2. g[e] = Value(e)
  <2>1. g[e] = 1 * Value(e) OBVIOUS
  <2> QED BY <1>1, <2>1
<1>3. SumFunctionOnSet(g, {e}) = Value(e)
  <2> HIDE DEF g
  <2>1. IsFiniteSet({}) /\ e \notin {} /\ {} \cup {e} = {e} BY FS_EmptySet
  <2>2. \A y \in {} \cup {e} : g[y] \in Nat BY <1>1, <1>2
  <2>3. SumFunctionOnSet(g, {} \cup {e}) = SumFunctionOnSet(g, {}) + g[e] BY <2>1, <2>2, SumAdd
  <2>4. SumFunctionOnSet(g, {}) = 0 BY SumEmpty
  <2> QED BY <1>1, <1>2, <2>1, <2>3, <2>4
<1>4. Dot(r.coef) = Value(e) % Prime BY <1>3 DEF Dot
<1> DEFINE v == Value(e)
<1> HIDE DEF v
<1>5. v \in 0..(Prime - 1) /\ Dot(r.coef) = v % Prime BY <1>1, <1>4 DEF v
<1>6. v = Prime * 0 + v BY <1>1, <1>5
<1>7. (Prime * 0 + v) % Prime = v BY <1>1, <1>5, RemainderIs
<1> QED BY <1>5, <1>6, <1>7 DEF v

LEMMA UnitHolds == ASSUME NEW e \in Int PROVE RowHolds(Unit(e, Value(e)))
<1>1. Value(e) \in 0..(Prime - 1) BY FecConstants, ValueType
<1>2. DOMAIN Unit(e, Value(e)).coef = {e} /\ Unit(e, Value(e)).coef[e] = 1 /\ Unit(e, Value(e)).data = Value(e)
  BY <1>1, UnitIsRow
<1> QED BY <1>2, OneUnknown DEF RowHolds

LEMMA LeadingIsFirst ==
  ASSUME NEW r, NEW lo \in Int, \A e \in DOMAIN r.coef : e \in Int /\ e >= lo, DOMAIN r.coef # {}
  PROVE  Leading(r) \in DOMAIN r.coef
<1> DEFINE E == DOMAIN r.coef
           S == {e - lo : e \in E}
<1>1. S \subseteq Nat /\ S # {}
  <2>1. \A e \in E : e - lo \in Nat OBVIOUS
  <2> QED BY <2>1
<1>2. PICK x \in S : \A y \in S : x <= y
  <2> HIDE DEF S
  <2> QED BY <1>1, LeastNatural
<1>3. PICK e \in E : x = e - lo BY <1>2
<1>4. \A y \in E : e <= y
  <2> SUFFICES ASSUME NEW y \in E PROVE e <= y OBVIOUS
  <2>1. x <= y - lo BY <1>2
  <2> QED BY <1>3, <2>1
<1> QED BY <1>4 DEF Leading

\* Made to lead with one, a row says the same.
LEMMA InvIs ==
  ASSUME NEW c \in 1..(Prime - 1)
  PROVE  Inv(c) \in 1..(Prime - 1) /\ (Inv(c) * c) % Prime = 1
<1>1. \E i \in 1..(Prime - 1) : (i * c) % Prime = 1 BY FecConstants
<1> QED BY <1>1 DEF Inv

LEMMA ScaledIsRow ==
  ASSUME NEW D, IsFiniteSet(D), D \subseteq Int, NEW lo \in Int, \A e \in D : e >= lo,
         NEW r, RowOver(r, D), DOMAIN r.coef # {}
  PROVE  /\ RowOver(Scaled(r), D) /\ DOMAIN Scaled(r).coef = DOMAIN r.coef
         /\ Scaled(r).pivot \in DOMAIN r.coef /\ Scaled(r).coef[Scaled(r).pivot] = 1
         /\ RowHolds(r) => RowHolds(Scaled(r))
<1> DEFINE p == Leading(r)
           c == r.coef[p]
           f == Inv(c)
           t == Scaled(r)
           fr == TermsOf(r, D)
           ft == TermsOf(t, D)
<1>1. Prime \in Nat \ {0} /\ Prime - 1 \in Nat BY FecConstants
<1>2. p \in DOMAIN r.coef /\ c \in 1..(Prime - 1)
  <2>1. p \in DOMAIN r.coef BY LeadingIsFirst DEF RowOver
  <2> QED BY <2>1 DEF RowOver
<1>3. f \in 1..(Prime - 1) /\ (f * c) % Prime = 1 BY <1>2, InvIs
<1>4. /\ t.pivot = p /\ t.data = (f * r.data) % Prime /\ t.coef = [e \in DOMAIN r.coef |-> (f * r.coef[e]) % Prime]
      /\ DOMAIN t.coef = DOMAIN r.coef
  BY DEF Scaled
<1>5. ASSUME NEW e \in DOMAIN r.coef PROVE (f * r.coef[e]) % Prime \in 1..(Prime - 1)
  <2> DEFINE a == r.coef[e]
             m == (f * a) % Prime
  <2>1. a \in Int /\ f \in Int /\ c \in Int /\ a \in 1..(Prime - 1) BY <1>2, <1>3 DEF RowOver
  <2> HIDE DEF a, f, c
  <2>2. f * a \in Int /\ c * a \in Int /\ f * c \in Int BY <2>1
  <2>3. m \in 0..(Prime - 1) BY <1>1, <2>2, Divides
  <2>4. ASSUME m = 0 PROVE FALSE
    <3>1. (c * m) % Prime = (c * (f * a)) % Prime BY <1>1, <2>1, <2>2, RemainderTimes
    <3>2. c * (f * a) = a * (f * c) BY <2>1
    <3>3. (a * (f * c)) % Prime = (a * ((f * c) % Prime)) % Prime BY <1>1, <2>1, <2>2, RemainderTimes
    <3>4. (a * ((f * c) % Prime)) = a BY <1>3, <2>1
    <3>5. c * m = 0 BY <2>1, <2>4
    <3>6. 0 % Prime = a % Prime BY <3>1, <3>2, <3>3, <3>4, <3>5
    <3>7. Prime * 0 + 0 = 0 /\ Prime * 0 + a = a /\ 0 \in 0..(Prime - 1) /\ a \in 0..(Prime - 1) BY <1>1, <2>1
    <3>8. (Prime * 0 + 0) % Prime = 0 /\ (Prime * 0 + a) % Prime = a BY <1>1, <3>7, RemainderIs
    <3> QED BY <2>1, <3>6, <3>7, <3>8
  <2>5. m \in 1..(Prime - 1)
    <3> HIDE DEF m
    <3> QED BY <2>3, <2>4
  <2> QED BY <2>5 DEF a
<1>6. t.data \in 0..(Prime - 1)
  <2>1. f \in Int /\ r.data \in Int BY <1>3 DEF RowOver
  <2> HIDE DEF f
  <2>2. f * r.data \in Int BY <2>1
  <2> QED BY <1>1, <1>4, <2>2, Divides
<1>7. RowOver(t, D)
  <2> HIDE DEF t, f
  <2>1. \A e \in DOMAIN r.coef : t.coef[e] \in 1..(Prime - 1) BY <1>4, <1>5
  <2>2. t.coef = [e \in DOMAIN r.coef |-> t.coef[e]] BY <1>4
  <2>3. DOMAIN r.coef \subseteq D BY DEF RowOver
  <2> QED BY <1>4, <1>6, <2>1, <2>2, <2>3 DEF RowOver
<1>8. t.coef[p] = 1
  <2> HIDE DEF t, f
  <2> QED BY <1>2, <1>3, <1>4
<1>9. ASSUME RowHolds(r) PROVE RowHolds(t)
  <2>1. /\ SumFunctionOnSet(fr, D) \in Nat /\ SumFunctionOnSet(fr, D) % Prime = r.data
        /\ SumFunctionOnSet(ft, D) \in Nat /\ Dot(t.coef) = SumFunctionOnSet(ft, D) % Prime
        /\ \A e \in D : fr[e] \in Nat /\ ft[e] \in Nat
    BY <1>7, <1>9, DotIsSum DEF RowHolds, SumOf
  <2> DEFINE Over(e) == (f * Coef(r, e)) \div Prime
             fk == [e \in D |-> Over(e) * Value(e)]
             ff == [e \in D |-> f * fr[e]]
             fpk == [e \in D |-> Prime * fk[e]]
  <2>2. ASSUME NEW e \in D PROVE fk[e] \in Nat /\ f * fr[e] = ft[e] + Prime * fk[e]
    <3> DEFINE a == Coef(r, e)
               m == Coef(t, e)
               k == Over(e)
               v == Value(e)
    <3>1. a \in Nat /\ f \in Nat /\ v \in Nat
      <4>1. a \in 0..(Prime - 1) /\ v \in 1..(Prime - 1) BY CoefType, ValueType
      <4> HIDE DEF a, v, f
      <4> QED BY <1>3, <4>1
    <3>2. m = (f * a) % Prime
      <4>1. CASE e \in DOMAIN r.coef BY <1>4, <4>1 DEF Coef
      <4>2. CASE e \notin DOMAIN r.coef
        <5>1. a = 0 /\ m = 0 BY <1>4, <4>2 DEF Coef
        <5> HIDE DEF a, m, f
        <5>2. f * a = Prime * 0 + 0 /\ 0 \in 0..(Prime - 1) BY <1>1, <3>1, <5>1
        <5>3. (Prime * 0 + 0) % Prime = 0 BY <1>1, <5>2, RemainderIs
        <5> QED BY <5>1, <5>2, <5>3
      <4> QED BY <4>1, <4>2
    <3>3. fr[e] = a * v /\ ft[e] = m * v /\ fk[e] = k * v /\ k = (f * a) \div Prime BY DEF TermsOf
    <3> HIDE DEF a, m, k, v, fr, ft, fk, f
    <3>4. f * a \in Nat BY <3>1
    <3> DEFINE x == f * a
    <3>5. m \in 0..(Prime - 1) /\ k \in Int /\ x = Prime * k + m
      <4> HIDE DEF x
      <4>1. x \in Int /\ m = x % Prime /\ k = x \div Prime BY <3>2, <3>3, <3>4 DEF x
      <4> QED BY <1>1, <4>1, Divides
    <3>6. k \in Nat
      <4> HIDE DEF x
      <4>1. x \in Nat BY <3>4 DEF x
      <4>2. ASSUME k <= -1 PROVE FALSE
        <5>1. PICK n \in Nat : k = -1 - n
          <6>1. -1 - k \in Nat /\ k = -1 - (-1 - k) BY <3>5, <4>2
          <6> QED BY <6>1
        <5>2. Prime * k = -Prime - Prime * n /\ Prime * n \in Nat BY <1>1, <5>1
        <5> QED BY <1>1, <3>5, <4>1, <5>2
      <4> QED BY <3>5, <4>2
    <3>7. f * (a * v) = x * v BY <3>1
    <3>8. Prime * (k * v) = (Prime * k) * v BY <1>1, <3>1, <3>6
    <3> DEFINE pk == Prime * k
    <3>9. pk \in Int /\ x \in Int /\ x = pk + m /\ m \in Int BY <1>1, <3>4, <3>5, <3>6
    <3> HIDE DEF x, pk
    <3>10. (pk + m) * v = pk * v + m * v /\ pk * v \in Int /\ m * v \in Int BY <3>1, <3>9
    <3>11. f * (a * v) = m * v + Prime * (k * v) BY <3>7, <3>8, <3>9, <3>10 DEF pk
    <3>12. k * v \in Nat BY <3>1, <3>6
    <3> QED BY <3>3, <3>11, <3>12
  <2>3. \A e \in D : /\ ff[e] = f * fr[e] /\ fpk[e] = Prime * fk[e] /\ fk[e] \in Nat /\ fpk[e] \in Nat
                     /\ ff[e] = ft[e] + fpk[e]
    <3> SUFFICES ASSUME NEW e \in D
                 PROVE  /\ ff[e] = f * fr[e] /\ fpk[e] = Prime * fk[e] /\ fk[e] \in Nat /\ fpk[e] \in Nat
                        /\ ff[e] = ft[e] + fpk[e]
      OBVIOUS
    <3>1. fk[e] \in Nat /\ f * fr[e] = ft[e] + Prime * fk[e] BY <2>2
    <3>2. ff[e] = f * fr[e] /\ fpk[e] = Prime * fk[e] OBVIOUS
    <3> HIDE DEF ff, fpk, fk, f, fr, ft
    <3>3. Prime * fk[e] \in Nat BY <1>1, <3>1
    <3> QED BY <3>1, <3>2, <3>3
  <2> DEFINE R == SumFunctionOnSet(fr, D)
             T == SumFunctionOnSet(ft, D)
             K == SumFunctionOnSet(fk, D)
  <2>4. f \in Nat BY <1>3
  <2> HIDE DEF fr, ft, fk, ff, fpk, f, t
  <2>5. SumFunctionOnSet(ff, D) = f * R
    <3>1. \A e \in D : fr[e] \in Nat /\ ff[e] = f * fr[e] BY <2>1, <2>3
    <3> QED BY <2>4, <3>1, SumTimes
  <2>6. SumFunctionOnSet(fpk, D) = Prime * K
    <3>1. Prime \in Nat /\ \A e \in D : fk[e] \in Nat /\ fpk[e] = Prime * fk[e] BY <1>1, <2>3
    <3> QED BY <3>1, SumTimes
  <2>7. f * R = T + Prime * K
    <3>1. SumFunctionOnSet(ff, D) = SumFunctionOnSet(ft, D) + SumFunctionOnSet(fpk, D) BY <2>1, <2>3, SumPlus
    <3> QED BY <2>5, <2>6, <3>1
  <2>8. R \in Nat /\ T \in Nat /\ K \in Nat /\ R % Prime = r.data /\ Dot(t.coef) = T % Prime
    BY <2>1, <2>3, SumType
  <2> HIDE DEF R, T, K
  <2> DEFINE x == f * R
  <2>9. x \in Int /\ x = T + Prime * K BY <2>4, <2>7, <2>8
  <2>10. x % Prime = T % Prime
    <3> HIDE DEF x
    <3>1. T \in Int /\ K \in Int /\ Prime \in Nat \ {0} BY <1>1, <2>8
    <3> QED BY ONLY <2>9, <3>1, Apart
  <2>11. (f * (R % Prime)) % Prime = (f * R) % Prime
    <3>1. f \in Int /\ R \in Int /\ Prime \in Nat \ {0} BY <1>1, <2>4, <2>8
    <3> QED BY ONLY <3>1, RemainderTimes
  <2> QED BY <1>4, <2>8, <2>10, <2>11 DEF RowHolds, x
<1> QED BY <1>2, <1>4, <1>7, <1>8, <1>9

\* One row after the other: what is left of r after the rows s, by what was left before the last.
Further(r, g, s) == IF s = {} THEN r ELSE Less(g[s \ {Picked(s)}], Picked(s))
Reductions(r, rows) == CHOOSE g : g = [s \in SUBSET rows |-> Further(r, g, s)]

LEMMA ReducedIsLast == ASSUME NEW r, NEW rows PROVE Reduced(r, rows) = Reductions(r, rows)[rows]
BY DEF Reduced, FoldSet, MapThenFoldSet, Reductions, Picked, Further

LEMMA ReductionsUnfold ==
  ASSUME NEW rows, IsFiniteSet(rows), NEW r
  PROVE  \A T \in SUBSET rows : Reductions(r, rows)[T] = Further(r, Reductions(r, rows), T)
<1> DEFINE Upto(n) == {s \in SUBSET rows : Cardinality(s) <= n}
           Solved(n) == \E g : g = [s \in Upto(n) |-> Further(r, g, s)]
           Unsolved == {n \in Nat : ~Solved(n)}
<1>1. \A T \in SUBSET rows : IsFiniteSet(T) /\ Cardinality(T) \in Nat /\ Cardinality(T) <= Cardinality(rows)
  BY FS_Subset, FS_CardinalityType
<1>2. ASSUME NEW s \in SUBSET rows, s # {}
      PROVE  s \ {Picked(s)} \in SUBSET rows /\ Cardinality(s \ {Picked(s)}) = Cardinality(s) - 1
  BY <1>1, <1>2, PickedIn, FS_RemoveElement
<1>3. Solved(0)
  <2>1. \A s \in Upto(0) : s = {} BY <1>1, FS_EmptySet
  <2>2. [s \in Upto(0) |-> r] = [s \in Upto(0) |-> Further(r, [t \in Upto(0) |-> r], s)] BY <2>1 DEF Further
  <2> QED BY <2>2
<1>4. ASSUME NEW n \in Nat, Solved(n) PROVE Solved(n + 1)
  <2>1. PICK g : g = [s \in Upto(n) |-> Further(r, g, s)] BY <1>4
  <2> DEFINE h == [s \in Upto(n + 1) |-> Further(r, g, s)]
  <2>2. ASSUME NEW s \in Upto(n + 1) PROVE Further(r, h, s) = Further(r, g, s)
    <3>1. CASE s = {} BY <3>1 DEF Further
    <3>2. CASE s # {}
      <4> DEFINE t == s \ {Picked(s)}
      <4>1. t \in Upto(n) /\ t \in Upto(n + 1) BY <1>1, <1>2, <3>2
      <4> HIDE DEF t
      <4>2. h[t] = Further(r, g, t) /\ g[t] = Further(r, g, t) BY <2>1, <4>1
      <4> HIDE DEF h
      <4> QED BY <4>2 DEF Further, t
    <3> QED BY <3>1, <3>2
  <2>3. h = [s \in Upto(n + 1) |-> Further(r, h, s)]
    <3> HIDE DEF Upto
    <3> QED BY <2>2
  <2> QED BY <2>3
<1>5. Unsolved = {}
  <2> SUFFICES ASSUME Unsolved # {} PROVE FALSE OBVIOUS
  <2>1. Unsolved \subseteq Nat OBVIOUS
  <2>2. \E n \in Unsolved : \A m \in Unsolved : n <= m
    <3> HIDE DEF Unsolved
    <3> QED BY <2>1, LeastNatural
  <2>3. PICK n \in Unsolved : \A m \in Unsolved : n <= m BY <2>2
  <2> HIDE DEF Solved
  <2>4. n # 0 /\ n \in Nat /\ ~Solved(n) BY <1>3
  <2>5. n - 1 \in Nat /\ n - 1 \notin Unsolved BY <2>3, <2>4
  <2>6. Solved(n - 1) BY <2>5
  <2>7. Solved((n - 1) + 1) BY <1>4, <2>5, <2>6
  <2>8. (n - 1) + 1 = n BY <2>4
  <2> QED BY <2>4, <2>7, <2>8
<1>6. Solved(Cardinality(rows))
  <2>1. Cardinality(rows) \in Nat BY <1>1
  <2> HIDE DEF Solved
  <2> QED BY <1>5, <2>1
<1>7. Upto(Cardinality(rows)) = SUBSET rows BY <1>1
<1>8. \E g : g = [s \in SUBSET rows |-> Further(r, g, s)] BY <1>6, <1>7
<1> DEFINE g == Reductions(r, rows)
<1>9. g = [s \in SUBSET rows |-> Further(r, g, s)] BY <1>8 DEF Reductions
<1>10. ASSUME NEW T \in SUBSET rows PROVE g[T] = Further(r, g, T)
  <2> HIDE DEF g
  <2> QED BY <1>9
<1> QED BY <1>10

\* Rows in reduced form: each leads with one, and no other has its pivot.
InReducedForm(rows) ==
  /\ \A s \in rows : s.pivot \in DOMAIN s.coef /\ s.coef[s.pivot] = 1
  /\ \A s, t \in rows : s # t => s.pivot \notin DOMAIN t.coef

\* A row without the pivot of one in reduced form has it no more, and gains no other.
LEMMA PivotLeaves ==
  ASSUME NEW D, NEW r, RowOver(r, D), NEW s, RowOver(s, D), s.pivot \in DOMAIN s.coef, s.coef[s.pivot] = 1
  PROVE  s.pivot \notin DOMAIN Less(r, s).coef
<1>1. RowOver(Less(r, s), D) /\ Coef(Less(r, s), s.pivot) = LeftOf(r, s, s.pivot) BY LessIsRow
<1>2. Coef(s, s.pivot) = 1 BY DEF Coef
<1> DEFINE c == Coef(r, s.pivot)
<1>3. c \in Int BY CoefType
<1>4. LeftOf(r, s, s.pivot) = (c - c * 1) % Prime BY <1>2 DEF LeftOf
<1> HIDE DEF c
<1>5. Prime \in Nat \ {0} /\ c - c * 1 = Prime * 0 + 0 /\ 0 \in 0..(Prime - 1) BY <1>3, FecConstants
<1>6. (Prime * 0 + 0) % Prime = 0 BY <1>5, RemainderIs
<1>7. Coef(Less(r, s), s.pivot) = 0 BY <1>1, <1>4, <1>5, <1>6
<1> QED BY <1>1, <1>7, CoefType

LEMMA ReducedIsRow ==
  ASSUME NEW D, NEW rows, IsFiniteSet(rows), \A s \in rows : RowOver(s, D), NEW r, RowOver(r, D)
  PROVE  /\ RowOver(Reduced(r, rows), D) /\ Reduced(r, rows).pivot = r.pivot
         /\ InReducedForm(rows) => \A s \in rows : s.pivot \notin DOMAIN Reduced(r, rows).coef
         /\ IsFiniteSet(D) /\ D \subseteq Int /\ RowHolds(r) /\ (\A s \in rows : RowHolds(s)) => RowHolds(Reduced(r, rows))
<1> DEFINE g == Reductions(r, rows)
           Fair(T) == /\ RowOver(g[T], D) /\ g[T].pivot = r.pivot
                      /\ InReducedForm(rows) => \A s \in T : s.pivot \notin DOMAIN g[T].coef
                      /\ IsFiniteSet(D) /\ D \subseteq Int /\ RowHolds(r) /\ (\A s \in rows : RowHolds(s)) => RowHolds(g[T])
           Bad == {T \in SUBSET rows : ~Fair(T)}
           Sizes == {Cardinality(T) : T \in Bad}
<1>1. \A T \in SUBSET rows : IsFiniteSet(T) /\ Cardinality(T) \in Nat BY FS_Subset, FS_CardinalityType
<1>2. \A T \in SUBSET rows : g[T] = Further(r, g, T) BY ReductionsUnfold
<1>3. Bad = {}
  <2> SUFFICES ASSUME Bad # {} PROVE FALSE OBVIOUS
  <2>1. Sizes \subseteq Nat /\ Sizes # {} BY <1>1
  <2>2. \E n \in Sizes : \A m \in Sizes : n <= m
    <3> HIDE DEF Sizes
    <3> QED BY <2>1, LeastNatural
  <2>3. PICK T \in Bad : \A U \in Bad : Cardinality(T) <= Cardinality(U) BY <2>2
  <2>4. T \in SUBSET rows /\ ~Fair(T) BY <2>3
  <2> HIDE DEF Bad, Sizes, g
  <2>5. T # {}
    <3> SUFFICES ASSUME T = {} PROVE FALSE OBVIOUS
    <3>1. g[T] = r BY <1>2, <2>4 DEF Further
    <3> QED BY <2>4, <3>1
  <2> DEFINE x == Picked(T)
             U == T \ {x}
  <2>6. U \in SUBSET rows /\ Cardinality(U) = Cardinality(T) - 1 /\ x \in rows /\ x \in T
    BY <1>1, <2>4, <2>5, PickedIn, FS_RemoveElement
  <2>7. U \notin Bad
    <3> HIDE DEF U
    <3>1. Cardinality(T) \in Nat BY <1>1, <2>4
    <3> QED BY <2>3, <2>6, <3>1
  <2>8. Fair(U)
    <3> HIDE DEF Fair, U
    <3> QED BY <2>6, <2>7 DEF Bad
  <2>9. g[T] = Less(g[U], x) BY <1>2, <2>4, <2>5 DEF Further
  <2> HIDE DEF x
  <2>10. RowOver(x, D) BY <2>6
  <2>11. RowOver(g[T], D) /\ g[T].pivot = r.pivot /\ DOMAIN g[T].coef \subseteq DOMAIN g[U].coef \cup DOMAIN x.coef
    <3>1. RowOver(g[U], D) /\ g[U].pivot = r.pivot BY <2>8
    <3> DEFINE u == g[U]
    <3> HIDE DEF u, U, Fair
    <3>2. RowOver(u, D) /\ u.pivot = r.pivot /\ g[T] = Less(u, x) BY <2>9, <3>1 DEF u
    <3>3. RowOver(Less(u, x), D) /\ Less(u, x).pivot = u.pivot
          /\ DOMAIN Less(u, x).coef \subseteq DOMAIN u.coef \cup DOMAIN x.coef
      BY <2>10, <3>2, LessIsRow
    <3> QED BY <3>2, <3>3 DEF u
  <2>12. ASSUME InReducedForm(rows), NEW s \in T PROVE s.pivot \notin DOMAIN g[T].coef
    <3>1. CASE s = x
      <4>1. x.pivot \in DOMAIN x.coef /\ x.coef[x.pivot] = 1 BY <2>6, <2>12 DEF InReducedForm
      <4> QED BY <2>8, <2>9, <2>10, <3>1, <4>1, PivotLeaves
    <3>2. CASE s # x
      <4>1. s \in U /\ s \in rows BY <2>4, <3>2
      <4>2. s.pivot \notin DOMAIN g[U].coef BY <2>8, <2>12, <4>1
      <4>3. s.pivot \notin DOMAIN x.coef BY <2>6, <2>12, <3>2, <4>1 DEF InReducedForm
      <4> QED BY <2>11, <4>2, <4>3
    <3> QED BY <3>1, <3>2
  <2>13. ASSUME IsFiniteSet(D), D \subseteq Int, RowHolds(r), \A s \in rows : RowHolds(s) PROVE RowHolds(g[T])
    <3>1. RowHolds(g[U]) /\ RowHolds(x) BY <2>6, <2>8, <2>13
    <3> QED BY <2>8, <2>9, <2>10, <2>13, <3>1, LessHolds
  <2> QED BY <2>4, <2>11, <2>12, <2>13
<1>4. Fair(rows)
  <2> HIDE DEF Fair
  <2> QED BY <1>3
<1> QED BY <1>4, ReducedIsLast

\* A pivot stays where the row that is taken out does not have it.
LEMMA PivotStays ==
  ASSUME NEW D, NEW r, RowOver(r, D), NEW s, RowOver(s, D),
         r.pivot \in DOMAIN r.coef, r.coef[r.pivot] = 1, r.pivot \notin DOMAIN s.coef
  PROVE  r.pivot \in DOMAIN Less(r, s).coef /\ Less(r, s).coef[r.pivot] = 1
<1> DEFINE c == Coef(r, s.pivot)
           p == r.pivot
<1>1. RowOver(Less(r, s), D) /\ Coef(Less(r, s), p) = LeftOf(r, s, p) BY LessIsRow
<1>2. Coef(r, p) = 1 /\ Coef(s, p) = 0 BY DEF Coef
<1>3. c \in Int BY CoefType
<1>4. LeftOf(r, s, p) = (1 - c * 0) % Prime BY <1>2 DEF LeftOf
<1> HIDE DEF c
<1>5. Prime \in Nat \ {0} /\ 1 - c * 0 = Prime * 0 + 1 /\ 1 \in 0..(Prime - 1) BY <1>3, FecConstants
<1>6. (Prime * 0 + 1) % Prime = 1 BY <1>5, RemainderIs
<1>7. Coef(Less(r, s), p) = 1 BY <1>1, <1>4, <1>5, <1>6
<1> QED BY <1>7 DEF Coef

\* So rows in reduced form are so without another's pivot, and with it.
LEMMA ClearedAreReduced ==
  ASSUME NEW D, NEW rows, \A r \in rows : RowOver(r, D), NEW s, RowOver(s, D),
         InReducedForm(rows), \A r \in rows : r.pivot \notin DOMAIN s.coef
  PROVE  /\ InReducedForm(Cleared(rows, s))
         /\ s.pivot \in DOMAIN s.coef /\ s.coef[s.pivot] = 1 => InReducedForm(Cleared(rows, s) \cup {s})
<1> DEFINE C == Cleared(rows, s)
<1>1. ASSUME NEW r \in rows
      PROVE  /\ Less(r, s).pivot = r.pivot /\ r.pivot \in DOMAIN Less(r, s).coef /\ Less(r, s).coef[r.pivot] = 1
             /\ DOMAIN Less(r, s).coef \subseteq DOMAIN r.coef \cup DOMAIN s.coef
  <2>1. RowOver(r, D) /\ r.pivot \in DOMAIN r.coef /\ r.coef[r.pivot] = 1 /\ r.pivot \notin DOMAIN s.coef BY DEF InReducedForm
  <2> QED BY <2>1, PivotStays, LessIsRow
<1>2. \A a \in C : a.pivot \in DOMAIN a.coef /\ a.coef[a.pivot] = 1
  <2> SUFFICES ASSUME NEW a \in C PROVE a.pivot \in DOMAIN a.coef /\ a.coef[a.pivot] = 1 OBVIOUS
  <2>1. PICK r \in rows : a = Less(r, s) BY DEF Cleared
  <2> QED BY <1>1, <2>1
<1>3. \A a, b \in C : a # b => a.pivot \notin DOMAIN b.coef
  <2> SUFFICES ASSUME NEW a \in C, NEW b \in C, a # b PROVE a.pivot \notin DOMAIN b.coef OBVIOUS
  <2>1. PICK r \in rows : a = Less(r, s) BY DEF Cleared
  <2>2. PICK t \in rows : b = Less(t, s) BY DEF Cleared
  <2>3. r # t BY <2>1, <2>2
  <2>4. r.pivot \notin DOMAIN t.coef /\ r.pivot \notin DOMAIN s.coef BY <2>3 DEF InReducedForm
  <2>5. a.pivot = r.pivot BY <1>1, <2>1
  <2>6. DOMAIN b.coef \subseteq DOMAIN t.coef \cup DOMAIN s.coef BY <1>1, <2>2
  <2> QED BY <2>4, <2>5, <2>6
<1>4. InReducedForm(C)
  <2> HIDE DEF C
  <2> QED BY <1>2, <1>3 DEF InReducedForm
<1>5. ASSUME s.pivot \in DOMAIN s.coef, s.coef[s.pivot] = 1 PROVE InReducedForm(C \cup {s})
  <2>1. \A a \in C : a.pivot \notin DOMAIN s.coef
    <3> SUFFICES ASSUME NEW a \in C PROVE a.pivot \notin DOMAIN s.coef OBVIOUS
    <3>1. PICK r \in rows : a = Less(r, s) BY DEF Cleared
    <3> QED BY <1>1, <3>1
  <2>2. \A a \in C : s.pivot \notin DOMAIN a.coef
    <3> SUFFICES ASSUME NEW a \in C PROVE s.pivot \notin DOMAIN a.coef OBVIOUS
    <3>1. PICK r \in rows : a = Less(r, s) BY DEF Cleared
    <3> QED BY <1>5, <3>1, PivotLeaves
  <2> HIDE DEF C
  <2> QED BY <1>5, <1>2, <1>3, <2>1, <2>2 DEF InReducedForm
<1> QED BY <1>4, <1>5

LEMMA ClearedAreRows ==
  ASSUME NEW D, NEW rows, IsFiniteSet(rows), \A r \in rows : RowOver(r, D), NEW s, RowOver(s, D)
  PROVE  /\ IsFiniteSet(Cleared(rows, s)) /\ Cardinality(Cleared(rows, s)) <= Cardinality(rows)
         /\ \A a \in Cleared(rows, s) : RowOver(a, D)
         /\ s.pivot \in DOMAIN s.coef /\ s.coef[s.pivot] = 1 => \A a \in Cleared(rows, s) : s.pivot \notin DOMAIN a.coef
         /\ IsFiniteSet(D) /\ D \subseteq Int /\ RowHolds(s) /\ (\A r \in rows : RowHolds(r)) => \A a \in Cleared(rows, s) : RowHolds(a)
<1> DEFINE f == [r \in rows |-> Less(r, s)]
           C == Cleared(rows, s)
<1>1. f \in Surjection(rows, C) BY DEF Surjection, Cleared
<1>2. IsFiniteSet(C) /\ Cardinality(C) <= Cardinality(rows) BY <1>1, FS_Surjection
<1>3. \A r \in rows : RowOver(Less(r, s), D) BY LessIsRow
<1>4. \A a \in C : RowOver(a, D) BY <1>3 DEF Cleared
<1>5. ASSUME s.pivot \in DOMAIN s.coef, s.coef[s.pivot] = 1, NEW a \in C PROVE s.pivot \notin DOMAIN a.coef
  <2>1. PICK r \in rows : a = Less(r, s) BY DEF Cleared
  <2> QED BY <1>5, <2>1, PivotLeaves
<1>6. ASSUME IsFiniteSet(D), D \subseteq Int, RowHolds(s), \A r \in rows : RowHolds(r), NEW a \in C PROVE RowHolds(a)
  <2>1. PICK r \in rows : a = Less(r, s) BY DEF Cleared
  <2> QED BY <1>6, <2>1, LessHolds
<1> QED BY <1>2, <1>4, <1>5, <1>6

-----------------------------------------------------------------------------
(* The decoder: its window, its slots and its rows *)

\* What the window lacks; the rows are over that.
Lacks(d) == {e \in d.lo..(d.high - 1) : ~Holds(d, e)}

DecTypes(d) ==
  d \in [started : BOOLEAN, lo : Int, high : Int, origin : Int, slots : [0..(Width - 1) -> [esi : Int, value : Int]],
         rows : {d.rows}, lost : SUBSET Int, recovered : SUBSET Int]
SlotFits(d, i) ==
  d.slots[i] # NoSlot =>
    /\ d.slots[i].esi \in d.lo..(d.high - 1) /\ d.slots[i].esi % Width = i /\ d.slots[i].value \in 0..(Prime - 1)
DecFits(d) ==
  /\ DecTypes(d) /\ d.lo >= 1 - Width /\ d.high <= d.lo + Width
  /\ \A i \in 0..(Width - 1) : SlotFits(d, i)
  /\ IsFiniteSet(d.rows) /\ \A r \in d.rows : RowOver(r, Lacks(d))
  /\ \A e \in d.lost : e < d.lo /\ e \notin d.recovered
  /\ \A e \in d.recovered : e < d.lo \/ Holds(d, e)

\* What is true as long as no source took a row's pivot away.
DecTrue(d) ==
  /\ InReducedForm(d.rows) /\ \A r \in d.rows : RowHolds(r)
  /\ \A i \in 0..(Width - 1) : d.slots[i] # NoSlot => d.slots[i].value = Value(d.slots[i].esi)

LEMMA OnePlace ==
  ASSUME NEW n \in Nat \ {0}, NEW lo \in Int, NEW a \in lo..(lo + n - 1), NEW b \in lo..(lo + n - 1), a % n = b % n
  PROVE  a = b
<1> DEFINE p == a \div n
           q == b \div n
           m == a % n
<1>1. a = n * p + m /\ b = n * q + m /\ p \in Int /\ q \in Int /\ m \in Int BY Divides
<1> HIDE DEF p, q, m
<1>2. a - b = n * (p - q)
  <2>1. n * (p - q) = n * p - n * q /\ n * p \in Int /\ n * q \in Int BY <1>1
  <2> QED BY <1>1, <2>1
<1> DEFINE d == p - q
<1>3. d \in Int /\ n * d = a - b /\ n * d < n /\ -(n * d) < n BY <1>1, <1>2
<1> HIDE DEF d
<1>4. ASSUME d >= 1 PROVE FALSE
  <2>1. n * d >= n BY <1>3, <1>4
  <2> QED BY <1>3, <2>1
<1>5. ASSUME d <= -1 PROVE FALSE
  <2>1. PICK k \in Nat : d = -1 - k
    <3>1. -1 - d \in Nat /\ d = -1 - (-1 - d) BY <1>3, <1>5
    <3> QED BY <3>1
  <2>2. n * d = -n - n * k /\ n * k \in Nat BY <2>1
  <2> QED BY <1>3, <2>2
<1>6. d = 0 BY <1>3, <1>4, <1>5
<1>7. n * d = 0 BY <1>6
<1> QED BY <1>3, <1>7

LEMMA WidthType == Width \in Nat \ {0} /\ \A e \in Int : e % Width \in 0..(Width - 1)
<1>1. Width \in Nat \ {0} BY FecConstants DEF Width
<1> HIDE DEF Width
<1> QED BY <1>1, Divides

\* A slot that is not empty holds the symbol of the window that belongs there.
LEMMA SlotIsHeld ==
  ASSUME NEW d, DecFits(d), NEW e \in d.lo..(d.high - 1)
  PROVE  /\ e \in Int /\ e % Width \in 0..(Width - 1) /\ e # NoSlot.esi
         /\ d.slots[e % Width].esi # NoSlot.esi <=> Holds(d, e)
         /\ d.slots[e % Width] # NoSlot <=> Holds(d, e)
<1> DEFINE i == e % Width
           s == d.slots[i]
<1>1. /\ Width \in Nat \ {0} /\ e \in Int /\ i \in 0..(Width - 1) /\ s.esi \in Int
      /\ d.lo \in Int /\ d.high \in Int /\ d.lo >= 1 - Width /\ d.high <= d.lo + Width
      /\ SlotFits(d, i)
  BY WidthType DEF DecFits, DecTypes
<1>2. NoSlot.esi = -2 * Width BY DEF NoSlot
<1>3. e # NoSlot.esi
  <2> HIDE DEF Width
  <2> QED BY <1>1, <1>2
<1>4. Holds(d, e) <=> s.esi = e BY DEF Holds
<1>5. ASSUME s # NoSlot PROVE s.esi = e
  <2> HIDE DEF Width
  <2>1. s.esi \in d.lo..(d.high - 1) /\ s.esi % Width = i BY <1>1, <1>5 DEF SlotFits
  <2>2. s.esi \in d.lo..(d.lo + Width - 1) /\ e \in d.lo..(d.lo + Width - 1) BY <1>1, <2>1
  <2> QED BY <1>1, <2>1, <2>2, OnePlace
<1>6. s.esi # NoSlot.esi => s # NoSlot OBVIOUS
<1> QED BY <1>1, <1>3, <1>4, <1>5, <1>6

LEMMA LacksType ==
  ASSUME NEW d, DecFits(d)
  PROVE  IsFiniteSet(Lacks(d)) /\ Lacks(d) \subseteq Int /\ d.lo \in Int /\ \A e \in Lacks(d) : e >= d.lo
<1>1. d.lo \in Int /\ d.high \in Int BY DEF DecFits, DecTypes
<1>2. IsFiniteSet(d.lo..(d.high - 1)) BY <1>1, FS_Interval
<1>3. Lacks(d) \subseteq d.lo..(d.high - 1) BY DEF Lacks
<1> QED BY <1>1, <1>2, <1>3, FS_Subset

LEMMA RowsChange ==
  ASSUME NEW d, DecFits(d), NEW R, IsFiniteSet(R), \A r \in R : RowOver(r, Lacks(d)), NEW n, n = [d EXCEPT !.rows = R]
  PROVE  /\ DecFits(n) /\ n.rows = R /\ Lacks(n) = Lacks(d)
         /\ n.lo = d.lo /\ n.high = d.high /\ n.started = d.started /\ n.slots = d.slots /\ n.recovered = d.recovered
         /\ n.lost = d.lost
         /\ DecTrue(d) /\ InReducedForm(R) /\ (\A r \in R : RowHolds(r)) => DecTrue(n)
<1>1. /\ n.rows = R /\ n.lo = d.lo /\ n.high = d.high /\ n.started = d.started /\ n.slots = d.slots
      /\ n.recovered = d.recovered /\ n.lost = d.lost /\ DecTypes(n)
  BY DEF DecFits, DecTypes
<1>2. \A e : Holds(n, e) <=> Holds(d, e) BY <1>1 DEF Holds
<1>3. Lacks(n) = Lacks(d) BY <1>1, <1>2 DEF Lacks
<1>4. \A i \in 0..(Width - 1) : SlotFits(n, i) BY <1>1 DEF DecFits, SlotFits
<1>5. DecFits(n) BY <1>1, <1>2, <1>3, <1>4 DEF DecFits
<1>6. DecTrue(d) /\ InReducedForm(R) /\ (\A r \in R : RowHolds(r)) => DecTrue(n) BY <1>1 DEF DecTrue
<1> QED BY <1>1, <1>3, <1>5, <1>6

\* A symbol is put into its slot, and out of the rows.
LEMMA SubstitutedFits ==
  ASSUME NEW d, DecFits(d), NEW e \in Lacks(d), NEW v \in 0..(Prime - 1), NEW n, n = Substituted(d, e, v)
  PROVE  /\ DecFits(n) /\ Holds(n, e) /\ Cardinality(n.rows) <= Cardinality(d.rows)
         /\ n.lo = d.lo /\ n.high = d.high /\ n.started = d.started /\ n.lost = d.lost /\ n.recovered = d.recovered
         /\ DecTrue(d) /\ v = Value(e) /\ (\A r \in d.rows : r.pivot # e) => DecTrue(n)
<1> DEFINE i == e % Width
           u == Unit(e, v)
           M == Lacks(d)
<1>1. e \in d.lo..(d.high - 1) /\ ~Holds(d, e) BY DEF Lacks
<1>2. e \in Int /\ i \in 0..(Width - 1) /\ e # NoSlot.esi /\ d.slots[i] = NoSlot BY <1>1, SlotIsHeld
<1>3. n = [d EXCEPT !.slots[i] = [esi |-> e, value |-> v], !.rows = Cleared(@, u)] BY <1>1 DEF Substituted
<1>4. v \in Int /\ d.slots \in [0..(Width - 1) -> [esi : Int, value : Int]] BY DEF DecFits, DecTypes
<1>5. /\ n.rows = Cleared(d.rows, u) /\ n.lo = d.lo /\ n.high = d.high /\ n.started = d.started
      /\ n.recovered = d.recovered /\ n.lost = d.lost
      /\ n.slots = [d.slots EXCEPT ![i] = [esi |-> e, value |-> v]]
      /\ DecTypes(n)
  <2>1. [esi |-> e, value |-> v] \in [esi : Int, value : Int] BY <1>2, <1>4
  <2> DEFINE c == [esi |-> e, value |-> v]
             R == Cleared(d.rows, u)
  <2> HIDE DEF c, R, u, i
  <2>2. n = [d EXCEPT !.slots[i] = c, !.rows = R] BY <1>3 DEF c, R
  <2>3. [d.slots EXCEPT ![i] = c] \in [0..(Width - 1) -> [esi : Int, value : Int]] BY <1>2, <1>4, <2>1 DEF c
  <2>4. /\ n.rows = R /\ n.lo = d.lo /\ n.high = d.high /\ n.started = d.started
        /\ n.recovered = d.recovered /\ n.lost = d.lost /\ n.slots = [d.slots EXCEPT ![i] = c]
    BY <2>2 DEF DecFits, DecTypes
  <2>5. DecTypes(n) BY <2>2, <2>3, <2>4 DEF DecFits, DecTypes
  <2> QED BY <2>4, <2>5 DEF c, R
<1>6. n.slots[i] = [esi |-> e, value |-> v] /\ \A j \in 0..(Width - 1) : j # i => n.slots[j] = d.slots[j]
  BY <1>2, <1>4, <1>5
<1>7. Holds(n, e) BY <1>6 DEF Holds
<1>8. \A x \in d.lo..(d.high - 1) : x # e => (Holds(n, x) <=> Holds(d, x))
  <2> SUFFICES ASSUME NEW x \in d.lo..(d.high - 1), x # e PROVE Holds(n, x) <=> Holds(d, x) OBVIOUS
  <2>1. x % Width \in 0..(Width - 1) /\ (d.slots[x % Width] # NoSlot <=> Holds(d, x)) BY SlotIsHeld
  <2>2. CASE x % Width = i
    <3>1. n.slots[x % Width].esi = e BY <1>6, <2>2
    <3> QED BY <1>2, <2>1, <2>2, <3>1 DEF Holds
  <2>3. CASE x % Width # i
    <3>1. n.slots[x % Width] = d.slots[x % Width] BY <1>6, <2>1, <2>3
    <3> QED BY <3>1 DEF Holds
  <2> QED BY <2>2, <2>3
<1>9. Lacks(n) = M \ {e} BY <1>5, <1>7, <1>8 DEF Lacks
<1>10. u.pivot = e /\ DOMAIN u.coef = {e} /\ u.coef[e] = 1 /\ RowOver(u, M) BY UnitIsRow
<1>11. IsFiniteSet(d.rows) /\ \A r \in d.rows : RowOver(r, M) BY DEF DecFits
<1>12. /\ IsFiniteSet(n.rows) /\ Cardinality(n.rows) <= Cardinality(d.rows)
       /\ \A a \in n.rows : RowOver(a, M) /\ e \notin DOMAIN a.coef
  <2> DEFINE C == Cleared(d.rows, u)
  <2>1. u.pivot \in DOMAIN u.coef /\ u.coef[u.pivot] = 1 /\ RowOver(u, M) BY <1>10
  <2> HIDE DEF u, M
  <2>2. /\ IsFiniteSet(C) /\ Cardinality(C) <= Cardinality(d.rows)
        /\ \A a \in C : RowOver(a, M) /\ u.pivot \notin DOMAIN a.coef
    BY ONLY <1>11, <2>1, ClearedAreRows
  <2>3. u.pivot = e /\ n.rows = C BY <1>5, <1>10
  <2> HIDE DEF C
  <2> QED BY ONLY <2>2, <2>3
<1>13. \A a \in n.rows : RowOver(a, Lacks(n)) BY <1>9, <1>12 DEF RowOver
<1>14. \A j \in 0..(Width - 1) : SlotFits(n, j)
  <2> SUFFICES ASSUME NEW j \in 0..(Width - 1) PROVE SlotFits(n, j) OBVIOUS
  <2>1. CASE j = i BY <1>1, <1>5, <1>6, <2>1 DEF SlotFits
  <2>2. CASE j # i
    <3>1. SlotFits(d, j) BY DEF DecFits
    <3> QED BY <1>5, <1>6, <2>2, <3>1 DEF SlotFits
  <2> QED BY <2>1, <2>2
<1>15. \A x \in n.recovered : x < n.lo \/ Holds(n, x)
  <2> SUFFICES ASSUME NEW x \in d.recovered, x >= d.lo PROVE Holds(n, x)
    BY <1>5 DEF DecFits, DecTypes
  <2>1. Holds(d, x) /\ x \in Int /\ d.lo \in Int /\ d.lo >= 1 - Width BY DEF DecFits, DecTypes
  <2>2. x % Width \in 0..(Width - 1) /\ Width \in Nat \ {0} BY <2>1, WidthType
  <2>3. d.slots[x % Width] # NoSlot
    <3>1. d.slots[x % Width].esi = x BY <2>1 DEF Holds
    <3>2. NoSlot.esi = -2 * Width BY DEF NoSlot
    <3> HIDE DEF Width
    <3> QED BY <2>1, <2>2, <3>1, <3>2
  <2>4. x \in d.lo..(d.high - 1)
    <3>1. SlotFits(d, x % Width) /\ d.slots[x % Width].esi = x BY <2>1, <2>2 DEF DecFits, Holds
    <3> QED BY <2>3, <3>1 DEF SlotFits
  <2>5. x # e BY <1>1, <2>1
  <2> QED BY <1>8, <2>1, <2>4, <2>5
<1>16. DecFits(n)
  <2>1. n.lo >= 1 - Width /\ n.high <= n.lo + Width /\ \A x \in n.lost : x < n.lo /\ x \notin n.recovered
    BY <1>5 DEF DecFits
  <2> QED BY <1>5, <1>12, <1>13, <1>14, <1>15, <2>1 DEF DecFits
<1>17. ASSUME DecTrue(d), v = Value(e), \A r \in d.rows : r.pivot # e PROVE DecTrue(n)
  <2>1. InReducedForm(n.rows)
    <3>1. InReducedForm(d.rows) /\ \A r \in d.rows : r.pivot \notin DOMAIN u.coef BY <1>10, <1>17 DEF DecTrue
    <3>2. RowOver(u, M) /\ n.rows = Cleared(d.rows, u) BY <1>5, <1>10
    <3> HIDE DEF u, M
    <3>3. InReducedForm(Cleared(d.rows, u)) BY ONLY <1>11, <3>1, <3>2, ClearedAreReduced
    <3> QED BY <3>2, <3>3
  <2>2. \A a \in n.rows : RowHolds(a)
    <3>1. RowHolds(u) BY <1>2, <1>17, UnitHolds
    <3>2. IsFiniteSet(M) /\ M \subseteq Int /\ \A r \in d.rows : RowHolds(r) BY <1>17, LacksType DEF DecTrue
    <3>3. RowOver(u, M) /\ n.rows = Cleared(d.rows, u) BY <1>5, <1>10
    <3> HIDE DEF u, M
    <3>4. \A a \in Cleared(d.rows, u) : RowHolds(a) BY ONLY <1>11, <3>1, <3>2, <3>3, ClearedAreRows
    <3> QED BY <3>3, <3>4
  <2>3. \A j \in 0..(Width - 1) : n.slots[j] # NoSlot => n.slots[j].value = Value(n.slots[j].esi)
    <3> SUFFICES ASSUME NEW j \in 0..(Width - 1), n.slots[j] # NoSlot PROVE n.slots[j].value = Value(n.slots[j].esi)
      OBVIOUS
    <3>1. CASE j = i BY <1>6, <1>17, <3>1
    <3>2. CASE j # i BY <1>6, <1>17, <3>2 DEF DecTrue
    <3> QED BY <3>1, <3>2
  <2> QED BY <2>1, <2>2, <2>3 DEF DecTrue
<1> QED BY <1>5, <1>7, <1>12, <1>16, <1>17

LEMMA RecoveredFits ==
  ASSUME NEW d, DecFits(d), NEW e \in d.lo..(d.high - 1), Holds(d, e), NEW n, n = [d EXCEPT !.recovered = @ \cup {e}]
  PROVE  /\ DecFits(n) /\ n.rows = d.rows /\ n.lo = d.lo /\ n.high = d.high /\ n.started = d.started
         /\ n.lost = d.lost /\ (DecTrue(d) => DecTrue(n))
<1>1. d.lo \in Int /\ d.high \in Int /\ d.recovered \subseteq Int BY DEF DecFits, DecTypes
<1>2. e \in Int /\ e >= d.lo BY <1>1
<1>3. /\ n.rows = d.rows /\ n.lo = d.lo /\ n.high = d.high /\ n.started = d.started /\ n.slots = d.slots
      /\ n.recovered = d.recovered \cup {e} /\ n.lost = d.lost /\ DecTypes(n)
  BY <1>1, <1>2 DEF DecFits, DecTypes
<1>4. \A x : Holds(n, x) <=> Holds(d, x) BY <1>3 DEF Holds
<1>5. Lacks(n) = Lacks(d) BY <1>3, <1>4 DEF Lacks
<1>6. \A i \in 0..(Width - 1) : SlotFits(n, i) BY <1>3 DEF DecFits, SlotFits
<1>7. \A x \in n.lost : x < n.lo /\ x \notin n.recovered
  <2> SUFFICES ASSUME NEW x \in d.lost PROVE x < d.lo /\ x \notin d.recovered /\ x # e BY <1>3
  <2>1. x < d.lo /\ x \notin d.recovered /\ x \in Int BY DEF DecFits, DecTypes
  <2> QED BY <1>1, <1>2, <2>1
<1>8. DecFits(n) BY <1>3, <1>4, <1>5, <1>6, <1>7 DEF DecFits
<1>9. DecTrue(d) => DecTrue(n) BY <1>3 DEF DecTrue
<1> QED BY <1>3, <1>8, <1>9

-----------------------------------------------------------------------------
(* harvest: every pass takes a row that is a symbol, until there is none *)

Wide(d) == \A r \in d.rows : Cardinality(DOMAIN r.coef) >= 2

LEMMA HarvestFits ==
  ASSUME NEW d, DecFits(d), NEW n, n = Harvest(d)
  PROVE  /\ DecFits(n) /\ n.lo = d.lo /\ n.high = d.high /\ n.started = d.started
         /\ DecTrue(d) => DecTrue(n)
         /\ Wide(d) => Wide(n)
         /\ Wide(n) \/ Cardinality(n.rows) < Cardinality(d.rows)
<1> DEFINE live == {r \in d.rows : DOMAIN r.coef # {}}
           one == {r \in live : Cardinality(DOMAIN r.coef) = 1}
<1>1. IsFiniteSet(d.rows) /\ \A r \in d.rows : RowOver(r, Lacks(d)) BY DEF DecFits
<1>2. \A r \in d.rows : /\ IsFiniteSet(DOMAIN r.coef) /\ Cardinality(DOMAIN r.coef) \in Nat
                        /\ Cardinality(DOMAIN r.coef) = 0 <=> DOMAIN r.coef = {}
  <2> SUFFICES ASSUME NEW r \in d.rows
               PROVE  /\ IsFiniteSet(DOMAIN r.coef) /\ Cardinality(DOMAIN r.coef) \in Nat
                      /\ Cardinality(DOMAIN r.coef) = 0 <=> DOMAIN r.coef = {}
    OBVIOUS
  <2>1. DOMAIN r.coef \subseteq Lacks(d) BY <1>1 DEF RowOver
  <2>2. IsFiniteSet(DOMAIN r.coef) BY <2>1, LacksType, FS_Subset
  <2> QED BY <2>2, FS_CardinalityType, FS_EmptySet
<1>3. DecTrue(d) => \A R \in SUBSET d.rows : InReducedForm(R) /\ \A r \in R : RowHolds(r) BY DEF DecTrue, InReducedForm
<1>4. CASE one = {}
  <2>1. n = [d EXCEPT !.rows = live] BY <1>4 DEF Harvest
  <2>2. IsFiniteSet(live) /\ live \subseteq d.rows BY <1>1, FS_Subset
  <2>3. \A r \in live : Cardinality(DOMAIN r.coef) >= 2
    <3> SUFFICES ASSUME NEW r \in live PROVE Cardinality(DOMAIN r.coef) >= 2 OBVIOUS
    <3>1. Cardinality(DOMAIN r.coef) \in Nat /\ Cardinality(DOMAIN r.coef) # 0 BY <1>2
    <3>2. Cardinality(DOMAIN r.coef) # 1 BY <1>4
    <3> QED BY <3>1, <3>2
  <2> HIDE DEF live, one
  <2>4. \A r \in live : RowOver(r, Lacks(d)) BY <1>1, <2>2
  <2>5. /\ DecFits(n) /\ n.rows = live /\ n.lo = d.lo /\ n.high = d.high /\ n.started = d.started
        /\ DecTrue(d) => DecTrue(n)
    BY <1>3, <2>1, <2>2, <2>4, RowsChange
  <2>6. Wide(n) BY <2>3, <2>5 DEF Wide
  <2> QED BY <2>5, <2>6
<1>5. CASE one # {}
  <2> DEFINE r == CHOOSE x \in one : TRUE
             e == Leading(r)
             R == live \ {r}
             m == [d EXCEPT !.rows = R]
             s == Substituted(m, e, r.data)
  <2>1. r \in one BY <1>5
  <2>2. r \in d.rows /\ Cardinality(DOMAIN r.coef) = 1 /\ RowOver(r, Lacks(d)) BY <1>1, <2>1
  <2>3. R \subseteq d.rows \ {r} OBVIOUS
  <2>4. IsFiniteSet(R) /\ Cardinality(R) < Cardinality(d.rows)
    <3>1. IsFiniteSet(d.rows \ {r}) /\ Cardinality(d.rows \ {r}) = Cardinality(d.rows) - 1 /\ Cardinality(d.rows) \in Nat
      BY <1>1, <2>2, FS_RemoveElement, FS_CardinalityType
    <3> HIDE DEF R, r
    <3>2. IsFiniteSet(R) /\ Cardinality(R) <= Cardinality(d.rows \ {r}) BY <2>3, <3>1, FS_Subset
    <3>3. Cardinality(R) \in Nat BY <3>2, FS_CardinalityType
    <3> QED BY <3>1, <3>2, <3>3
  <2>5. n = IF Holds(d, e) THEN m ELSE [s EXCEPT !.recovered = @ \cup {e}] BY <1>5 DEF Harvest
  <2> HIDE DEF r, R, live, one
  <2>6. \A x \in Lacks(d) : x \in Int /\ x >= d.lo /\ d.lo \in Int BY LacksType
  <2>7. PICK x : DOMAIN r.coef = {x} BY <1>2, <2>2, FS_Singleton
  <2>8. e \in DOMAIN r.coef
    <3>1. d.lo \in Int /\ \A y \in DOMAIN r.coef : y \in Int /\ y >= d.lo BY <2>2, <2>6, LacksType DEF RowOver
    <3> QED BY <2>7, <3>1, LeadingIsFirst
  <2> HIDE DEF e
  <2>9. e \in Lacks(d) /\ e \in Int /\ DOMAIN r.coef = {e} /\ ~Holds(d, e) /\ e \in d.lo..(d.high - 1)
    BY <2>2, <2>6, <2>7, <2>8 DEF RowOver, Lacks
  <2>10. \A t \in R : RowOver(t, Lacks(d)) BY <1>1, <2>3
  <2>11. /\ DecFits(m) /\ m.rows = R /\ Lacks(m) = Lacks(d) /\ m.lo = d.lo /\ m.high = d.high /\ m.started = d.started
         /\ DecTrue(d) => DecTrue(m)
    <3>1. R \subseteq d.rows BY <2>3
    <3> HIDE DEF m
    <3>2. m = [d EXCEPT !.rows = R] BY DEF m
    <3> QED BY <1>3, <2>4, <2>10, <3>1, <3>2, RowsChange
  <2>12. r.data \in 0..(Prime - 1) BY <2>2 DEF RowOver
  <2>13. DecTrue(d) => r.data = Value(e) /\ \A t \in R : t.pivot # e
    <3> SUFFICES ASSUME DecTrue(d) PROVE r.data = Value(e) /\ \A t \in R : t.pivot # e OBVIOUS
    <3>1. r.pivot = e /\ r.coef[e] = 1 /\ RowHolds(r) BY <2>2, <2>9 DEF DecTrue, InReducedForm
    <3>2. r.data = Value(e) BY <2>9, <3>1, OneUnknown DEF RowHolds
    <3>3. \A t \in R : t \in d.rows /\ t # r BY <2>3
    <3>4. \A t \in R : t.pivot \notin DOMAIN r.coef BY <2>2, <3>3 DEF DecTrue, InReducedForm
    <3> QED BY <2>9, <3>2, <3>4
  <2> HIDE DEF m
  <2>14. /\ DecFits(s) /\ Holds(s, e) /\ Cardinality(s.rows) <= Cardinality(m.rows)
         /\ s.lo = m.lo /\ s.high = m.high /\ s.started = m.started
         /\ DecTrue(d) => DecTrue(s)
    <3> HIDE DEF s
    <3>1. s = Substituted(m, e, r.data) /\ e \in Lacks(m) BY <2>9, <2>11 DEF s
    <3>2. /\ DecFits(s) /\ Holds(s, e) /\ Cardinality(s.rows) <= Cardinality(m.rows)
          /\ s.lo = m.lo /\ s.high = m.high /\ s.started = m.started
          /\ DecTrue(m) /\ r.data = Value(e) /\ (\A t \in m.rows : t.pivot # e) => DecTrue(s)
      BY <2>11, <2>12, <3>1, SubstitutedFits
    <3> QED BY <2>11, <2>13, <3>2
  <2> HIDE DEF s
  <2>15. n = [s EXCEPT !.recovered = @ \cup {e}] BY <2>5, <2>9
  <2>16. e \in s.lo..(s.high - 1) BY <2>9, <2>11, <2>14
  <2>17. /\ DecFits(n) /\ n.rows = s.rows /\ n.lo = s.lo /\ n.high = s.high /\ n.started = s.started
         /\ (DecTrue(s) => DecTrue(n))
    BY <2>14, <2>15, <2>16, RecoveredFits
  <2>18. Cardinality(n.rows) < Cardinality(d.rows)
    <3>1. IsFiniteSet(s.rows) BY <2>14 DEF DecFits
    <3>2. Cardinality(s.rows) \in Nat /\ Cardinality(R) \in Nat /\ Cardinality(d.rows) \in Nat
      BY <1>1, <2>4, <3>1, FS_CardinalityType
    <3> QED BY <2>4, <2>11, <2>14, <2>17, <3>2
  <2>19. ~Wide(d)
    <3>1. ~(1 >= 2) OBVIOUS
    <3> QED BY <2>2, <3>1 DEF Wide
  <2> QED BY <2>11, <2>14, <2>17, <2>18, <2>19
<1> QED BY <1>4, <1>5

Passes(d, n) == CHOOSE p : p = [i \in 0..n |-> IF i = 0 THEN d ELSE Harvest(p[i - 1])]

LEMMA PassesUnfold ==
  ASSUME NEW d, NEW n \in Nat
  PROVE  Passes(d, n) = [i \in 0..n |-> IF i = 0 THEN d ELSE Harvest(Passes(d, n)[i - 1])]
<1> DEFINE Solved(m) == \E p : p = [i \in 0..m |-> IF i = 0 THEN d ELSE Harvest(p[i - 1])]
           Unsolved == {m \in Nat : ~Solved(m)}
<1>1. Solved(0)
  <2> DEFINE p == [i \in 0..0 |-> d]
  <2>1. p = [i \in 0..0 |-> IF i = 0 THEN d ELSE Harvest(p[i - 1])]
    <3>1. \A i \in 0..0 : i = 0 OBVIOUS
    <3> QED BY <3>1
  <2> QED BY <2>1
<1>2. ASSUME NEW m \in Nat, Solved(m) PROVE Solved(m + 1)
  <2>1. PICK p : p = [i \in 0..m |-> IF i = 0 THEN d ELSE Harvest(p[i - 1])] BY <1>2
  <2> DEFINE q == [i \in 0..(m + 1) |-> IF i = 0 THEN d ELSE Harvest(p[i - 1])]
  <2>2. ASSUME NEW i \in 0..(m + 1), i # 0 PROVE q[i - 1] = p[i - 1]
    <3>1. i - 1 \in 0..m /\ i - 1 \in 0..(m + 1) BY <2>2
    <3>2. p[i - 1] = IF i - 1 = 0 THEN d ELSE Harvest(p[(i - 1) - 1]) BY <2>1, <3>1
    <3> QED BY <3>1, <3>2
  <2>3. q = [i \in 0..(m + 1) |-> IF i = 0 THEN d ELSE Harvest(q[i - 1])]
    <3>1. \A i \in 0..(m + 1) : (IF i = 0 THEN d ELSE Harvest(p[i - 1])) = (IF i = 0 THEN d ELSE Harvest(q[i - 1])) BY <2>2
    <3> QED BY <3>1
  <2> QED BY <2>3
<1>3. Unsolved = {}
  <2> SUFFICES ASSUME Unsolved # {} PROVE FALSE OBVIOUS
  <2>1. Unsolved \subseteq Nat OBVIOUS
  <2>2. \E k \in Unsolved : \A m \in Unsolved : k <= m
    <3> HIDE DEF Unsolved
    <3> QED BY <2>1, LeastNatural
  <2>3. PICK k \in Unsolved : \A m \in Unsolved : k <= m BY <2>2
  <2> HIDE DEF Solved
  <2>4. k # 0 /\ k \in Nat /\ ~Solved(k) BY <1>1
  <2>5. k - 1 \in Nat /\ k - 1 \notin Unsolved BY <2>3, <2>4
  <2>6. Solved((k - 1) + 1) BY <1>2, <2>5
  <2>7. (k - 1) + 1 = k BY <2>4
  <2> QED BY <2>4, <2>6, <2>7
<1>4. Solved(n)
  <2> HIDE DEF Solved
  <2> QED BY <1>3
<1> QED BY <1>4 DEF Passes

LEMMA HarvestedFits ==
  ASSUME NEW d, DecFits(d), NEW n, n = Harvested(d)
  PROVE  /\ DecFits(n) /\ Wide(n) /\ n.lo = d.lo /\ n.high = d.high /\ n.started = d.started
         /\ DecTrue(d) => DecTrue(n)
<1> DEFINE N == Cardinality(d.rows)
           p == Passes(d, N)
           Fair(i) == /\ DecFits(p[i]) /\ p[i].lo = d.lo /\ p[i].high = d.high /\ p[i].started = d.started
                      /\ DecTrue(d) => DecTrue(p[i])
                      /\ Wide(p[i]) \/ Cardinality(p[i].rows) <= N - i
           Good == {i \in 0..N : Fair(i)}
<1>1. N \in Nat BY FS_CardinalityType DEF DecFits
<1>2. n = p[N] BY DEF Harvested, Passes
<1>3. p = [i \in 0..N |-> IF i = 0 THEN d ELSE Harvest(p[i - 1])] BY <1>1, PassesUnfold
<1> HIDE DEF N, p
<1>4. p[0] = d /\ \A i \in 1..N : p[i] = Harvest(p[i - 1])
  <2>1. 0 \in 0..N /\ \A i \in 1..N : i \in 0..N /\ i # 0 BY <1>1
  <2> QED BY <1>3, <2>1
<1>5. Fair(0)
  <2>1. N - 0 = N /\ N <= N BY <1>1
  <2> QED BY <1>4, <2>1 DEF N
<1>6. ASSUME NEW i \in 1..N, Fair(i - 1) PROVE Fair(i)
  <2> DEFINE a == p[i - 1]
             b == p[i]
  <2>1. b = Harvest(a) BY <1>4
  <2>2. DecFits(a) BY <1>6
  <2> HIDE DEF a, b
  <2>3. /\ DecFits(b) /\ b.lo = a.lo /\ b.high = a.high /\ b.started = a.started
        /\ DecTrue(a) => DecTrue(b)
        /\ Wide(a) => Wide(b)
        /\ Wide(b) \/ Cardinality(b.rows) < Cardinality(a.rows)
    BY <2>1, <2>2, HarvestFits
  <2>4. Cardinality(a.rows) \in Nat /\ Cardinality(b.rows) \in Nat BY <2>2, <2>3, FS_CardinalityType DEF DecFits
  <2>5. Wide(b) \/ Cardinality(b.rows) <= N - i
    <3>1. Wide(a) \/ Cardinality(a.rows) <= N - (i - 1) BY <1>6 DEF a
    <3> QED BY <1>1, <2>3, <2>4, <3>1
  <2> QED BY <1>6, <2>3, <2>5 DEF a, b
<1>7. \A i \in 0..N : Fair(i)
  <2> DEFINE Bad == {i \in 0..N : ~Fair(i)}
  <2> HIDE DEF Fair
  <2> SUFFICES ASSUME Bad # {} PROVE FALSE OBVIOUS
  <2>1. Bad \subseteq Nat BY <1>1
  <2>2. \E k \in Bad : \A m \in Bad : k <= m
    <3> HIDE DEF Bad
    <3> QED BY <2>1, LeastNatural
  <2>3. PICK k \in Bad : \A m \in Bad : k <= m BY <2>2
  <2>4. k # 0 /\ k \in 1..N /\ ~Fair(k) BY <1>1, <1>5, <2>3
  <2>5. k - 1 \in 0..N /\ k - 1 \notin Bad BY <1>1, <2>3, <2>4
  <2>6. Fair(k - 1) BY <2>5
  <2> QED BY <1>6, <2>4, <2>6
<1>8. Fair(N) BY <1>1, <1>7
<1>9. Wide(n)
  <2>1. CASE Wide(p[N]) BY <1>2, <2>1
  <2>2. CASE Cardinality(p[N].rows) <= N - N
    <3>1. IsFiniteSet(n.rows) BY <1>2, <1>8 DEF DecFits
    <3>2. Cardinality(n.rows) \in Nat BY <3>1, FS_CardinalityType
    <3>3. Cardinality(n.rows) = 0 BY <1>1, <1>2, <2>2, <3>2
    <3>4. n.rows = {} BY <3>1, <3>3, FS_EmptySet
    <3> QED BY <3>4 DEF Wide
  <2> QED BY <1>8, <2>1, <2>2
<1> QED BY <1>2, <1>8, <1>9

-----------------------------------------------------------------------------
(* insert: a repair becomes a row over what is missing *)

\* What is known of a row's symbols: a row of one unknown for each that is held.
LEMMA KnownAreRows ==
  ASSUME NEW d, DecFits(d), NEW D, IsFiniteSet(D), D \subseteq d.lo..(d.high - 1), NEW r, DOMAIN r.coef = D
  PROVE  /\ \A e \in D : e \in HeldIn(d, r) <=> Holds(d, e)
         /\ IsFiniteSet(KnownIn(d, r)) /\ InReducedForm(KnownIn(d, r)) /\ \A s \in KnownIn(d, r) : RowOver(s, D)
         /\ \A e \in D : Holds(d, e) => \E s \in KnownIn(d, r) : s.pivot = e
         /\ DecTrue(d) => \A s \in KnownIn(d, r) : RowHolds(s)
<1> DEFINE H == HeldIn(d, r)
           K == KnownIn(d, r)
           U(e) == Unit(e, d.slots[e % Width].value)
<1>1. \A e \in D : e \in H <=> Holds(d, e) BY SlotIsHeld DEF HeldIn
<1>2. K = {U(e) : e \in H} /\ H \subseteq D BY DEF KnownIn, HeldIn
<1>3. IsFiniteSet(H) BY <1>2, FS_Subset
<1>4. IsFiniteSet(K)
  <2> DEFINE f == [e \in H |-> U(e)]
  <2>1. f \in Surjection(H, K) BY <1>2 DEF Surjection
  <2> QED BY <1>3, <2>1, FS_Surjection
<1>5. ASSUME NEW e \in H
      PROVE  /\ RowOver(U(e), D) /\ DOMAIN U(e).coef = {e} /\ U(e).pivot = e /\ U(e).coef[e] = 1
             /\ DecTrue(d) => RowHolds(U(e))
  <2> DEFINE i == e % Width
             v == d.slots[i].value
  <2>1. e \in D /\ e \in Int /\ Holds(d, e) /\ i \in 0..(Width - 1) /\ d.slots[i] # NoSlot /\ d.slots[i].esi = e
    BY <1>1, <1>2, SlotIsHeld DEF Holds
  <2>2. v \in 0..(Prime - 1) BY <2>1 DEF DecFits, SlotFits
  <2>3. /\ RowOver(Unit(e, v), D) /\ DOMAIN Unit(e, v).coef = {e} /\ Unit(e, v).pivot = e /\ Unit(e, v).coef[e] = 1
    BY <2>1, <2>2, UnitIsRow
  <2>4. DecTrue(d) => v = Value(e) BY <2>1 DEF DecTrue
  <2> QED BY <2>1, <2>3, <2>4, UnitHolds
<1> HIDE DEF H, K, U
<1>6. InReducedForm(K)
  <2>1. \A s \in K : s.pivot \in DOMAIN s.coef /\ s.coef[s.pivot] = 1
    <3> SUFFICES ASSUME NEW e \in H PROVE U(e).pivot \in DOMAIN U(e).coef /\ U(e).coef[U(e).pivot] = 1 BY <1>2
    <3> QED BY <1>5
  <2>2. \A s, t \in K : s # t => s.pivot \notin DOMAIN t.coef
    <3> SUFFICES ASSUME NEW e \in H, NEW x \in H, U(e) # U(x) PROVE U(e).pivot \notin DOMAIN U(x).coef BY <1>2
    <3>1. e # x OBVIOUS
    <3> QED BY <1>5, <3>1
  <2> QED BY <2>1, <2>2 DEF InReducedForm
<1>7. \A s \in K : RowOver(s, D) /\ (DecTrue(d) => RowHolds(s))
  <2> SUFFICES ASSUME NEW e \in H PROVE RowOver(U(e), D) /\ (DecTrue(d) => RowHolds(U(e))) BY <1>2
  <2> QED BY <1>5
<1>8. \A e \in D : Holds(d, e) => \E s \in K : s.pivot = e
  <2> SUFFICES ASSUME NEW e \in D, Holds(d, e) PROVE \E s \in K : s.pivot = e OBVIOUS
  <2>1. e \in H BY <1>1
  <2>2. U(e) \in K /\ U(e).pivot = e BY <1>2, <1>5, <2>1
  <2> QED BY <2>2
<1> QED BY <1>1, <1>4, <1>6, <1>7, <1>8 DEF H, K

LEMMA InsertedFits ==
  ASSUME NEW d, DecFits(d), NEW coef, NEW data, RowOver([pivot |-> 0, coef |-> coef, data |-> data], d.lo..(d.high - 1)),
         NEW n, n = Inserted(d, coef, data)
  PROVE  /\ DecFits(n) /\ n.lo = d.lo /\ n.high = d.high /\ n.started = d.started
         /\ Wide(d) => Wide(n)
         /\ DecTrue(d) /\ Dot(coef) = data => DecTrue(n)
<1> DEFINE raw == [pivot |-> 0, coef |-> coef, data |-> data]
           D == DOMAIN coef
           M == Lacks(d)
           K == KnownIn(d, raw)
           q == Reduced(raw, K)
           r == Reduced(q, d.rows)
           row == Scaled(r)
           C == Cleared(d.rows, row)
           m == [d EXCEPT !.rows = C \cup {row}]
           AllTrue == DecTrue(d) /\ Dot(coef) = data
<1>1. d.lo \in Int /\ d.high \in Int BY DEF DecFits, DecTypes
<1>2. DOMAIN raw.coef = D /\ D \subseteq d.lo..(d.high - 1) /\ IsFiniteSet(D) /\ D \subseteq Int /\ RowOver(raw, D)
  <2>1. D \subseteq d.lo..(d.high - 1) /\ RowOver(raw, D) BY DEF RowOver
  <2>2. IsFiniteSet(d.lo..(d.high - 1)) BY <1>1, FS_Interval
  <2> QED BY <1>1, <2>1, <2>2, FS_Subset
<1>3. n = IF DOMAIN r.coef = {} THEN d ELSE Harvested(m) BY DEF Inserted
<1>4. AllTrue => RowHolds(raw) BY DEF RowHolds
<1> HIDE DEF raw
<1>5. /\ IsFiniteSet(K) /\ InReducedForm(K) /\ \A s \in K : RowOver(s, D)
      /\ \A e \in D : Holds(d, e) => \E s \in K : s.pivot = e
      /\ DecTrue(d) => \A s \in K : RowHolds(s)
  BY <1>2, KnownAreRows
<1> HIDE DEF K, D
<1>6. /\ RowOver(q, D) /\ \A s \in K : s.pivot \notin DOMAIN q.coef
      /\ AllTrue => RowHolds(q)
  <2> HIDE DEF AllTrue
  <2>1. /\ RowOver(q, D)
        /\ InReducedForm(K) => \A s \in K : s.pivot \notin DOMAIN q.coef
        /\ IsFiniteSet(D) /\ D \subseteq Int /\ RowHolds(raw) /\ (\A s \in K : RowHolds(s)) => RowHolds(q)
    BY ONLY <1>2, <1>5, ReducedIsRow
  <2>2. AllTrue => DecTrue(d) BY DEF AllTrue
  <2> QED BY ONLY <1>2, <1>4, <1>5, <2>1, <2>2
<1> HIDE DEF q
<1>7. RowOver(q, M)
  <2>1. DOMAIN q.coef \subseteq D BY <1>6 DEF RowOver
  <2>2. \A e \in DOMAIN q.coef : e \in M BY <1>2, <1>5, <1>6, <2>1 DEF Lacks
  <2> HIDE DEF M
  <2> QED BY <1>6, <2>2 DEF RowOver
<1>8. IsFiniteSet(d.rows) /\ \A s \in d.rows : RowOver(s, M) BY DEF DecFits
<1>9. IsFiniteSet(M) /\ M \subseteq Int /\ \A e \in M : e >= d.lo BY LacksType
<1>10. AllTrue => InReducedForm(d.rows) /\ \A s \in d.rows : RowHolds(s) BY DEF DecTrue
<1> HIDE DEF M, AllTrue
<1>11. /\ RowOver(r, M)
       /\ AllTrue => (\A s \in d.rows : s.pivot \notin DOMAIN r.coef) /\ RowHolds(r)
  BY <1>6, <1>7, <1>8, <1>9, <1>10, ReducedIsRow
<1> HIDE DEF r
<1>12. CASE DOMAIN r.coef = {} BY <1>3, <1>12 DEF AllTrue
<1>13. CASE DOMAIN r.coef # {}
  <2>1. /\ RowOver(row, M) /\ DOMAIN row.coef = DOMAIN r.coef
        /\ row.pivot \in DOMAIN row.coef /\ row.coef[row.pivot] = 1
        /\ RowHolds(r) => RowHolds(row)
    BY <1>1, <1>9, <1>11, <1>13, ScaledIsRow
  <2> HIDE DEF row
  <2>2. /\ IsFiniteSet(C) /\ \A a \in C : RowOver(a, M)
        /\ RowHolds(row) /\ (\A s \in d.rows : RowHolds(s)) => \A a \in C : RowHolds(a)
    BY <1>8, <1>9, <2>1, ClearedAreRows
  <2>3. AllTrue => InReducedForm(C \cup {row})
    <3> SUFFICES ASSUME AllTrue PROVE InReducedForm(C \cup {row}) OBVIOUS
    <3>1. InReducedForm(d.rows) /\ \A s \in d.rows : s.pivot \notin DOMAIN row.coef BY <1>10, <1>11, <2>1
    <3> QED BY ONLY <1>8, <2>1, <3>1, ClearedAreReduced
  <2> DEFINE R == C \cup {row}
  <2>4. IsFiniteSet(R) /\ \A a \in R : RowOver(a, M) BY <2>1, <2>2, FS_AddElement
  <2>5. AllTrue => InReducedForm(R) /\ \A a \in R : RowHolds(a) BY <1>10, <1>11, <2>1, <2>2, <2>3
  <2>6. m = [d EXCEPT !.rows = R] OBVIOUS
  <2> HIDE DEF R, m, C
  <2>7. /\ DecFits(m) /\ m.lo = d.lo /\ m.high = d.high /\ m.started = d.started
        /\ DecTrue(d) /\ InReducedForm(R) /\ (\A a \in R : RowHolds(a)) => DecTrue(m)
    BY <2>4, <2>6, RowsChange DEF M
  <2>8. n = Harvested(m) BY <1>3, <1>13
  <2>9. /\ DecFits(n) /\ Wide(n) /\ n.lo = m.lo /\ n.high = m.high /\ n.started = m.started
        /\ DecTrue(m) => DecTrue(n)
    BY <2>7, <2>8, HarvestedFits
  <2> QED BY <2>5, <2>7, <2>9 DEF AllTrue
<1> QED BY <1>12, <1>13

-----------------------------------------------------------------------------
(* admit: the window slides *)

\* A window that stands has its full width; before that nothing is known.
Stands(d) ==
  IF d.started THEN d.high = d.lo + Width
  ELSE /\ d.lo = 0 /\ d.high = 0 /\ d.rows = {} /\ d.lost = {} /\ d.recovered = {}
       /\ \A i \in 0..(Width - 1) : d.slots[i] = NoSlot

LEMMA WitnessedFits ==
  ASSUME NEW d, DecFits(d), NEW e \in Int, NEW n, n = Witnessed(d, e)
  PROVE  /\ DecFits(n) /\ n.rows = d.rows /\ n.lo = d.lo /\ n.high = d.high /\ n.started = d.started /\ n.slots = d.slots
         /\ n.lost = d.lost /\ n.recovered = d.recovered /\ (DecTrue(d) => DecTrue(n))
<1>1. /\ n.rows = d.rows /\ n.lo = d.lo /\ n.high = d.high /\ n.started = d.started /\ n.slots = d.slots
      /\ n.recovered = d.recovered /\ n.lost = d.lost /\ DecTypes(n)
  BY DEF Witnessed, DecFits, DecTypes
<1>2. \A x : Holds(n, x) <=> Holds(d, x) BY <1>1 DEF Holds
<1>3. Lacks(n) = Lacks(d) BY <1>1, <1>2 DEF Lacks
<1>4. \A i \in 0..(Width - 1) : SlotFits(n, i) BY <1>1 DEF DecFits, SlotFits
<1>5. DecFits(n) BY <1>1, <1>2, <1>3, <1>4 DEF DecFits
<1>6. DecTrue(d) => DecTrue(n) BY <1>1 DEF DecTrue
<1> QED BY <1>1, <1>5, <1>6

\* The first source or repair places the window.
LEMMA WindowOpens ==
  ASSUME NEW d, DecFits(d), Stands(d), ~d.started, NEW e \in Nat, NEW n, n = Slid(d, e)
  PROVE  /\ DecFits(n) /\ n.started /\ Stands(n) /\ e \in n.lo..(n.high - 1) /\ n.rows = d.rows
         /\ DecTrue(d) => DecTrue(n)
<1> DEFINE W == Width
<1>1. W \in Nat \ {0} BY WidthType
<1>2. /\ d.rows = {} /\ d.lost = {} /\ d.recovered = {} /\ \A i \in 0..(W - 1) : d.slots[i] = NoSlot BY DEF Stands
<1>3. n = [d EXCEPT !.started = TRUE, !.origin = e, !.high = e + 1, !.lo = e + 1 - W] BY DEF Slid
<1> HIDE DEF W
<1>4. e \in Int /\ e + 1 \in Int /\ e + 1 - W \in Int BY <1>1
<1>5. /\ n.rows = {} /\ n.lost = {} /\ n.recovered = {} /\ n.slots = d.slots
      /\ n.started = TRUE /\ n.high = e + 1 /\ n.lo = e + 1 - W /\ DecTypes(n)
  BY <1>2, <1>3, <1>4 DEF DecFits, DecTypes
<1>6. n.high = n.lo + W /\ n.lo >= 1 - W /\ n.high <= n.lo + W /\ e \in n.lo..(n.high - 1) BY <1>1, <1>5
<1>7. \A i \in 0..(W - 1) : n.slots[i] = NoSlot BY <1>2, <1>5
<1>8. DecFits(n)
  <2>1. \A i \in 0..(W - 1) : SlotFits(n, i) BY <1>7 DEF SlotFits
  <2>2. IsFiniteSet(n.rows) BY <1>5, FS_EmptySet
  <2> QED BY <1>5, <1>6, <2>1, <2>2 DEF DecFits, W
<1>9. DecTrue(n)
  <2>1. InReducedForm(n.rows) BY <1>5 DEF InReducedForm
  <2> QED BY <1>5, <1>7, <2>1 DEF DecTrue, W
<1>10. Stands(n) BY <1>5, <1>6 DEF Stands, W
<1> QED BY <1>2, <1>5, <1>6, <1>8, <1>9, <1>10

\* Later ones move it on; what falls off takes its rows along.
LEMMA WindowMoves ==
  ASSUME NEW d, DecFits(d), Stands(d), d.started, NEW e \in Nat, e >= d.high, NEW n, n = Slid(d, e)
  PROVE  /\ DecFits(n) /\ n.started /\ Stands(n) /\ e \in n.lo..(n.high - 1) /\ n.rows \subseteq d.rows
         /\ DecTrue(d) => DecTrue(n)
<1> DEFINE W == Width
           lo == d.lo
           nlo == e + 1 - W
           gone == Evicted(d, e)
           L == LostOf(d, gone)
           S == [i \in DOMAIN d.slots |-> IF d.slots[i].esi \in gone THEN NoSlot ELSE d.slots[i]]
           R == {r \in d.rows : DOMAIN r.coef \cap gone = {}}
<1>1. /\ W \in Nat \ {0} /\ lo \in Int /\ d.high \in Int /\ d.high = lo + W /\ lo >= 1 - W
      /\ d.slots \in [0..(W - 1) -> [esi : Int, value : Int]] /\ NoSlot \in [esi : Int, value : Int] /\ NoSlot.esi = -2 * W
  BY WidthType DEF DecFits, DecTypes, Stands, NoSlot
<1>2. NoSlot.esi < lo
  <2> HIDE DEF W
  <2> QED BY <1>1
<1>3. n = [d EXCEPT !.high = e + 1, !.lo = AtLeast(@, e + 1 - W), !.slots = S, !.rows = R, !.lost = @ \cup L]
  <2>1. ~(e < d.high) BY <1>1
  <2> QED BY <2>1 DEF Slid
<1> HIDE DEF W
<1>4. AtLeast(lo, nlo) = nlo /\ nlo \in Int /\ nlo > lo
  <2>1. nlo \in Int /\ nlo > lo BY <1>1
  <2> HIDE DEF nlo
  <2> HIDE DEF lo
  <2>2. lo \in Int BY <1>1 DEF lo
  <2>3. Max({lo, nlo}) = nlo BY ONLY <2>1, <2>2, MaxOfTwo
  <2> QED BY <2>1, <2>3 DEF AtLeast
<1>5. \A x \in Int : x \in gone <=> lo <= x /\ x < d.high /\ x < nlo
  <2>1. gone = lo..(AtMost(AtLeast(lo, nlo), lo + W) - 1) BY DEF Evicted, W
  <2>2. AtMost(nlo, lo + W) = IF nlo <= lo + W THEN nlo ELSE lo + W
    <3>1. lo + W \in Int BY <1>1
    <3> QED BY <1>4, <3>1, MinOfTwo DEF AtMost
  <2> HIDE DEF gone, nlo, lo
  <2> QED BY <1>1, <1>4, <2>1, <2>2
<1>6. gone \subseteq Int
  <2>1. gone \subseteq lo..(AtMost(AtLeast(lo, nlo), lo + W) - 1) BY DEF Evicted, W
  <2> QED BY <2>1
<1>7. L = {x \in gone : ~Holds(d, x) /\ x >= d.origin} BY DEF LostOf
<1> HIDE DEF gone, L
<1>8. S \in [0..(W - 1) -> [esi : Int, value : Int]] BY <1>1
<1>9. \A i \in 0..(W - 1) : S[i] = IF d.slots[i].esi \in gone THEN NoSlot ELSE d.slots[i] BY <1>1
<1>10. n = [d EXCEPT !.high = e + 1, !.lo = nlo, !.slots = S, !.rows = R, !.lost = @ \cup L] BY <1>3, <1>4
<1> HIDE DEF S, R, lo, nlo
<1>11. /\ n.high = e + 1 /\ n.lo = nlo /\ n.slots = S /\ n.rows = R /\ n.lost = d.lost \cup L
       /\ n.recovered = d.recovered /\ n.started = d.started /\ DecTypes(n)
  <2>0. L \subseteq gone BY <1>7
  <2>1. L \subseteq Int /\ e + 1 \in Int BY <1>6, <2>0
  <2> QED BY <1>4, <1>8, <1>10, <2>1 DEF DecFits, DecTypes, W
<1>12. n.high = n.lo + W /\ n.lo >= 1 - W /\ e \in n.lo..(n.high - 1) BY <1>1, <1>11 DEF nlo
<1>13. \A i \in 0..(W - 1) : SlotFits(n, i)
  <2> SUFFICES ASSUME NEW i \in 0..(W - 1), n.slots[i] # NoSlot
               PROVE  /\ n.slots[i].esi \in n.lo..(n.high - 1) /\ n.slots[i].esi % Width = i
                      /\ n.slots[i].value \in 0..(Prime - 1)
    BY DEF SlotFits
  <2>1. n.slots[i] = d.slots[i] /\ d.slots[i].esi \notin gone BY <1>9, <1>11
  <2> DEFINE x == d.slots[i].esi
  <2>2. x \in d.lo..(d.high - 1) /\ x % Width = i /\ d.slots[i].value \in 0..(Prime - 1)
    BY <2>1 DEF DecFits, SlotFits, W
  <2>3. x \in Int /\ lo <= x /\ x < d.high /\ x \notin gone
    <3>1. d.lo \in Int /\ d.high \in Int /\ d.lo = lo BY <1>1 DEF lo
    <3>2. x \notin gone BY <2>1
    <3> HIDE DEF x
    <3> QED BY ONLY <2>2, <3>1, <3>2
  <2> HIDE DEF x
  <2>4. x >= nlo BY <1>4, <1>5, <2>3
  <2>5. x \in n.lo..(n.high - 1) BY <1>1, <1>4, <1>11, <2>3, <2>4
  <2> QED BY <2>1, <2>2, <2>5 DEF x
<1>14. ASSUME NEW x \in Int, Holds(d, x) PROVE x < nlo \/ Holds(n, x)
  <2> DEFINE i == x % W
  <2>1. i \in 0..(W - 1) /\ d.slots[i].esi = x BY <1>14, WidthType DEF W, Holds
  <2>2. CASE x \in gone BY <1>5, <2>2
  <2>3. CASE x \notin gone
    <3>1. n.slots[i].esi = x BY <1>9, <1>11, <2>1, <2>3
    <3> QED BY <3>1 DEF Holds, W
  <2> QED BY <2>2, <2>3
<1>15. ASSUME NEW x \in Lacks(d), x \notin gone PROVE x \in Lacks(n)
  <2> DEFINE i == x % W
  <2>1. x \in d.lo..(d.high - 1) /\ ~Holds(d, x) BY DEF Lacks
  <2>2. x \in Int /\ lo <= x /\ x < d.high /\ i \in 0..(W - 1)
    <3>1. d.lo \in Int /\ d.high \in Int /\ d.lo = lo BY <1>1 DEF lo
    <3>2. x \in Int /\ lo <= x /\ x < d.high BY ONLY <2>1, <3>1
    <3> QED BY <3>2, WidthType DEF W
  <2>3. x >= nlo BY <1>4, <1>5, <1>15, <2>2
  <2>4. x \in n.lo..(n.high - 1) BY <1>1, <1>4, <1>11, <2>2, <2>3
  <2>5. ASSUME Holds(n, x) PROVE FALSE
    <3>1. n.slots[i].esi = x BY <2>5 DEF Holds, W
    <3>2. d.slots[i].esi # x BY <2>1 DEF Holds, W
    <3>3. x = NoSlot.esi BY <1>9, <1>11, <2>2, <3>1, <3>2
    <3> QED BY <1>1, <1>2, <2>2, <3>3
  <2> QED BY <2>4, <2>5 DEF Lacks
<1>16. R \subseteq d.rows /\ IsFiniteSet(R) /\ \A r \in R : RowOver(r, Lacks(n))
  <2>1. R \subseteq d.rows BY DEF R
  <2>2. IsFiniteSet(R) BY <2>1, FS_Subset DEF DecFits
  <2>3. ASSUME NEW r \in R PROVE RowOver(r, Lacks(n))
    <3>1. RowOver(r, Lacks(d)) BY <2>1 DEF DecFits
    <3>2. \A x \in DOMAIN r.coef : x \in Lacks(d) /\ x \notin gone BY <3>1 DEF RowOver, R
    <3>3. DOMAIN r.coef \subseteq Lacks(n) BY <1>15, <3>2
    <3> QED BY <3>1, <3>3 DEF RowOver
  <2> QED BY <2>1, <2>2, <2>3
<1>17. \A x \in n.lost : x < n.lo /\ x \notin n.recovered
  <2> SUFFICES ASSUME NEW x \in d.lost \cup L PROVE x < nlo /\ x \notin d.recovered BY <1>11
  <2>1. CASE x \in d.lost
    <3>1. x < lo /\ x \notin d.recovered /\ x \in Int BY <2>1 DEF DecFits, DecTypes, lo
    <3> QED BY <1>1, <1>4, <3>1
  <2>2. CASE x \in L
    <3>1. x \in Int /\ x \in gone /\ ~Holds(d, x) BY <1>6, <1>7, <2>2
    <3>2. lo <= x /\ x < nlo BY <1>5, <3>1
    <3>3. x \in d.recovered => x < lo BY <3>1 DEF DecFits, lo
    <3> QED BY <1>1, <3>1, <3>2, <3>3
  <2> QED BY <2>1, <2>2
<1>18. \A x \in n.recovered : x < n.lo \/ Holds(n, x)
  <2> SUFFICES ASSUME NEW x \in d.recovered PROVE x < nlo \/ Holds(n, x) BY <1>11
  <2>1. x \in Int /\ (x < lo \/ Holds(d, x)) BY DEF DecFits, DecTypes, lo
  <2> QED BY <1>1, <1>4, <1>14, <2>1
<1>19. DecFits(n) BY <1>11, <1>12, <1>13, <1>16, <1>17, <1>18 DEF DecFits, W
<1>20. ASSUME DecTrue(d) PROVE DecTrue(n)
  <2>1. InReducedForm(R) /\ \A r \in R : RowHolds(r) BY <1>16, <1>20 DEF DecTrue, InReducedForm
  <2>2. \A i \in 0..(W - 1) : n.slots[i] # NoSlot => n.slots[i].value = Value(n.slots[i].esi)
    <3> SUFFICES ASSUME NEW i \in 0..(W - 1), n.slots[i] # NoSlot PROVE n.slots[i].value = Value(n.slots[i].esi)
      OBVIOUS
    <3>1. n.slots[i] = d.slots[i] BY <1>9, <1>11
    <3> QED BY <1>20, <3>1 DEF DecTrue, W
  <2> QED BY <1>11, <2>1, <2>2 DEF DecTrue, W
<1>21. Stands(n) BY <1>11, <1>12 DEF Stands, W
<1> QED BY <1>11, <1>12, <1>16, <1>19, <1>20, <1>21

LEMMA SlidFits ==
  ASSUME NEW d, DecFits(d), Stands(d), NEW e \in Nat, ~Behind(d, e), NEW n, n = Slid(d, e)
  PROVE  /\ DecFits(n) /\ n.started /\ Stands(n) /\ e \in n.lo..(n.high - 1) /\ n.rows \subseteq d.rows
         /\ DecTrue(d) => DecTrue(n)
<1>1. CASE ~d.started BY <1>1, WindowOpens
<1>2. CASE d.started /\ e >= d.high BY <1>2, WindowMoves
<1>3. CASE d.started /\ ~(e >= d.high)
  <2>1. d.lo \in Int /\ d.high \in Int /\ e >= d.lo BY <1>3 DEF DecFits, DecTypes, Behind
  <2>2. e < d.high BY <1>3, <2>1
  <2>3. n = d BY <1>3, <2>2 DEF Slid
  <2> QED BY <1>3, <2>1, <2>2, <2>3
<1> QED BY <1>1, <1>2, <1>3

-----------------------------------------------------------------------------
(* FecWindow: a decoder that is told the truth solves for what was sent *)

\* A repair that was sent is a true equation over consecutive symbols.
RepairIsTrue(p) ==
  LET upto == p.first + Cardinality(DOMAIN p.coef) - 1 IN
  /\ p.first \in Nat /\ upto \in Nat /\ DOMAIN p.coef = p.first..upto
  /\ RowOver([pivot |-> 0, coef |-> p.coef, data |-> p.data], p.first..upto) /\ Dot(p.coef) = p.data

FecTypeOK ==
  /\ next \in Nat /\ heldSymbols \in 0..next /\ ring \in Nat /\ taken \in BOOLEAN
  /\ \A p \in repairs : RepairIsTrue(p)

FecIInv ==
  /\ FecTypeOK
  /\ DecFits(dec) /\ Stands(dec) /\ Wide(dec)
  /\ ~taken => DecTrue(dec)

LEMMA FecInitInv == FecInit => FecIInv
<1> SUFFICES ASSUME FecInit PROVE FecIInv OBVIOUS
<1> DEFINE W == Width
<1>1. W \in Nat \ {0} BY WidthType
<1>2. dec = [started |-> FALSE, lo |-> 0, high |-> 0, origin |-> 0,
             slots |-> [i \in 0..(W - 1) |-> NoSlot], rows |-> {}, lost |-> {}, recovered |-> {}]
  BY DEF FecInit
<1>3. NoSlot \in [esi : Int, value : Int]
  <2>1. -2 * W \in Int BY <1>1
  <2> QED BY <2>1 DEF NoSlot
<1> HIDE DEF W
<1>4. /\ dec.rows = {} /\ dec.lost = {} /\ dec.recovered = {} /\ dec.lo = 0 /\ dec.high = 0 /\ dec.started = FALSE
      /\ \A i \in 0..(W - 1) : dec.slots[i] = NoSlot
  BY <1>2
<1>5. DecTypes(dec)
  <2> DEFINE S == [i \in 0..(W - 1) |-> NoSlot]
  <2>1. S \in [0..(W - 1) -> [esi : Int, value : Int]] BY <1>3
  <2> HIDE DEF S
  <2>2. dec = [started |-> FALSE, lo |-> 0, high |-> 0, origin |-> 0, slots |-> S, rows |-> {}, lost |-> {}, recovered |-> {}]
    BY <1>2 DEF S
  <2> QED BY <2>1, <2>2 DEF DecTypes, W
<1>6. DecFits(dec)
  <2>1. \A i \in 0..(W - 1) : SlotFits(dec, i) BY <1>4 DEF SlotFits
  <2>2. dec.lo >= 1 - W /\ dec.high <= dec.lo + W BY <1>1, <1>4
  <2>3. IsFiniteSet(dec.rows) BY <1>4, FS_EmptySet
  <2> QED BY <1>4, <1>5, <2>1, <2>2, <2>3 DEF DecFits, W
<1>7. Stands(dec) BY <1>4 DEF Stands, W
<1>8. Wide(dec) /\ DecTrue(dec) BY <1>4 DEF Wide, DecTrue, InReducedForm, W
<1>9. FecTypeOK
  <2>1. next = 0 /\ heldSymbols = 0 /\ ring \in Nat /\ taken = FALSE /\ repairs = {} BY FecConstants DEF FecInit
  <2>2. 0 \in 0..0 OBVIOUS
  <2> QED BY <2>1, <2>2 DEF FecTypeOK
<1> QED BY <1>6, <1>7, <1>8, <1>9 DEF FecIInv

LEMMA FecMeans == FecIInv => FecInv
<1> SUFFICES ASSUME FecIInv PROVE FecInv OBVIOUS
<1>1. DecFits(dec) /\ Stands(dec) /\ Wide(dec) /\ (~taken => DecTrue(dec)) BY DEF FecIInv
<1>2. DOMAIN dec.slots = 0..(Width - 1) BY <1>1 DEF DecFits, DecTypes
<1>3. \A i \in DOMAIN dec.slots :
         dec.slots[i] # NoSlot => dec.slots[i].esi \in dec.lo..(dec.high - 1) /\ dec.slots[i].esi % Width = i
  BY <1>1, <1>2 DEF DecFits, SlotFits
<1>4. \A r \in dec.rows :
         /\ DOMAIN r.coef \subseteq dec.lo..(dec.high - 1) /\ Cardinality(DOMAIN r.coef) >= 2
         /\ \A e \in DOMAIN r.coef : ~Holds(dec, e)
  <2> SUFFICES ASSUME NEW r \in dec.rows
               PROVE  /\ DOMAIN r.coef \subseteq dec.lo..(dec.high - 1) /\ Cardinality(DOMAIN r.coef) >= 2
                      /\ \A e \in DOMAIN r.coef : ~Holds(dec, e)
    OBVIOUS
  <2>1. DOMAIN r.coef \subseteq Lacks(dec) BY <1>1 DEF DecFits, RowOver
  <2>2. Cardinality(DOMAIN r.coef) >= 2 BY <1>1 DEF Wide
  <2> QED BY <2>1, <2>2 DEF Lacks
<1>5. dec.started => dec.high - dec.lo <= Width
  <2> SUFFICES ASSUME dec.started PROVE dec.high - dec.lo <= Width OBVIOUS
  <2>1. dec.high = dec.lo + Width /\ dec.lo \in Int /\ Width \in Nat BY <1>1, WidthType DEF Stands, DecFits, DecTypes
  <2> HIDE DEF Width
  <2> QED BY <2>1
<1>6. \A e \in dec.lost : e < dec.lo /\ e \notin dec.recovered BY <1>1 DEF DecFits
<1>7. ~taken =>
        /\ \A r \in dec.rows : RowHolds(r) /\ r.coef[r.pivot] = 1
        /\ \A r, s \in dec.rows : r # s => r.pivot \notin DOMAIN s.coef
        /\ \A i \in DOMAIN dec.slots : dec.slots[i] # NoSlot => dec.slots[i].value = Value(dec.slots[i].esi)
  <2> SUFFICES ASSUME ~taken
               PROVE  /\ \A r \in dec.rows : RowHolds(r) /\ r.coef[r.pivot] = 1
                      /\ \A r, s \in dec.rows : r # s => r.pivot \notin DOMAIN s.coef
                      /\ \A i \in DOMAIN dec.slots : dec.slots[i] # NoSlot => dec.slots[i].value = Value(dec.slots[i].esi)
    OBVIOUS
  <2>1. DecTrue(dec) BY <1>1
  <2> QED BY <1>2, <2>1 DEF DecTrue, InReducedForm
<1> QED BY <1>3, <1>4, <1>5, <1>6, <1>7 DEF FecInv

LEMMA FirstOfTwo ==
  ASSUME NEW a \in Nat, NEW b \in Nat
  PROVE  AtMost(a, b) \in Nat /\ AtMost(a, b) <= a /\ AtMost(a, b) <= b /\ (a > 0 /\ b > 0 => AtMost(a, b) > 0)
<1>1. AtMost(a, b) = IF a <= b THEN a ELSE b BY MinOfTwo DEF AtMost
<1> QED BY <1>1

\* The encoder counts symbols up and forgets only from the back.
LEMMA EncoderStep ==
  ASSUME FecIInv, Adds \/ Resets \/ \E c \in Capacities : SetCapacity(c)
  PROVE  FecIInv'
<1>1. FecTypeOK BY DEF FecIInv
<1>2. UNCHANGED <<repairs, dec, taken>> BY DEF Adds, Resets, SetCapacity
<1>3. next' \in Nat /\ heldSymbols' \in 0..next' /\ ring' \in Nat
  <2>1. next \in Nat /\ heldSymbols \in Nat /\ heldSymbols <= next /\ ring \in Nat BY <1>1 DEF FecTypeOK
  <2>2. CASE Adds
    <3>1. heldSymbols + 1 \in Nat /\ next' = next + 1 /\ ring' = ring /\ heldSymbols' = AtMost(heldSymbols + 1, ring)
      BY <2>1, <2>2 DEF Adds
    <3>2. heldSymbols' \in Nat /\ heldSymbols' <= heldSymbols + 1 BY <2>1, <3>1, FirstOfTwo
    <3> QED BY <2>1, <3>1, <3>2
  <2>3. CASE Resets BY <2>1, <2>3 DEF Resets
  <2>4. CASE \E c \in Capacities : SetCapacity(c)
    <3>1. PICK c \in Capacities : SetCapacity(c) BY <2>4
    <3>2. c \in Nat /\ ring' = c /\ heldSymbols' = AtMost(heldSymbols, c) /\ next' = next BY <3>1, FecConstants DEF SetCapacity
    <3>3. heldSymbols' \in Nat /\ heldSymbols' <= heldSymbols BY <2>1, <3>2, FirstOfTwo
    <3> QED BY <2>1, <3>2, <3>3
  <2> QED BY <2>2, <2>3, <2>4
<1>4. FecTypeOK' BY <1>1, <1>2, <1>3 DEF FecTypeOK
<1> QED BY <1>2, <1>4 DEF FecIInv

LEMMA RepairStep ==
  ASSUME FecIInv, NEW count \in 1..MaxRepairWindow, SendsRepair(count)
  PROVE  FecIInv'
<1>1. FecTypeOK BY DEF FecIInv
<1>2. UNCHANGED <<next, heldSymbols, ring, dec, taken>> BY DEF SendsRepair
<1> DEFINE n == Covered(count)
           first == next - n
<1>3. n \in Nat /\ n >= 1 /\ n <= next
  <2>1. next \in Nat /\ heldSymbols \in Nat /\ heldSymbols <= next /\ heldSymbols > 0
    BY <1>1 DEF FecTypeOK, SendsRepair
  <2>2. count \in Nat /\ count > 0 /\ MaxRepairWindow \in Nat /\ MaxRepairWindow > 0 BY FecConstants
  <2> DEFINE m == AtMost(count, heldSymbols)
  <2>3. m \in Nat /\ m <= heldSymbols /\ m > 0 BY <2>1, <2>2, FirstOfTwo
  <2>4. n = AtMost(m, MaxRepairWindow) BY DEF Covered
  <2> HIDE DEF m, n
  <2>5. n \in Nat /\ n <= m /\ n > 0 BY <2>2, <2>3, <2>4, FirstOfTwo
  <2> QED BY <2>1, <2>3, <2>5
<1>4. PICK coef \in [first..(next - 1) -> 1..(Prime - 1)] : repairs' = repairs \cup {RepairOver(first, coef)}
  BY DEF SendsRepair
<1> DEFINE p == RepairOver(first, coef)
<1> HIDE DEF n
<1>5. first \in Nat /\ next - 1 \in Nat /\ first <= next - 1 /\ next \in Nat BY <1>1, <1>3 DEF FecTypeOK
<1>6. p.first = first /\ p.coef = coef /\ p.data = Dot(coef) BY DEF RepairOver
<1> HIDE DEF first, p
<1> DEFINE D == first..(next - 1)
<1>7. DOMAIN coef = D /\ IsFiniteSet(D) /\ Cardinality(D) = (next - 1) - first + 1 /\ D \subseteq Int
  BY <1>5, FS_Interval
<1>8. first + Cardinality(D) - 1 = next - 1 BY <1>5, <1>7
<1>9. Dot(coef) \in 0..(Prime - 1)
  <2> DEFINE r == [pivot |-> 0, coef |-> coef, data |-> 0]
  <2>1. r.coef = coef /\ r.data = 0 OBVIOUS
  <2>2. coef = [e \in DOMAIN coef |-> coef[e]] /\ \A e \in DOMAIN coef : coef[e] \in 1..(Prime - 1) BY <1>7
  <2>3. Prime \in Nat \ {0} /\ 0 \in 0..(Prime - 1) BY FecConstants
  <2> HIDE DEF r, D
  <2>4. RowOver(r, D) BY <1>7, <2>1, <2>2, <2>3 DEF RowOver
  <2>5. SumOf(r, D) \in Nat /\ Dot(coef) = SumOf(r, D) % Prime BY <1>7, <2>1, <2>4, DotIsSum
  <2> DEFINE x == SumOf(r, D)
  <2> HIDE DEF x
  <2>6. x \in Int /\ Dot(coef) = x % Prime BY <2>5 DEF x
  <2> QED BY <2>3, <2>6, Divides
<1>10. RepairIsTrue(p)
  <2>1. coef = [e \in DOMAIN coef |-> coef[e]] /\ \A e \in DOMAIN coef : coef[e] \in 1..(Prime - 1) BY <1>7
  <2> DEFINE r == [pivot |-> 0, coef |-> p.coef, data |-> p.data]
  <2>2. r.coef = coef /\ r.data = Dot(coef) BY <1>6
  <2> HIDE DEF r
  <2>3. RowOver(r, D) BY <1>7, <1>9, <2>1, <2>2 DEF RowOver
  <2> QED BY <1>5, <1>6, <1>7, <1>8, <2>3 DEF RepairIsTrue, r
<1>11. repairs' = repairs \cup {p} BY <1>4 DEF p
<1>12. FecTypeOK' BY <1>1, <1>2, <1>10, <1>11 DEF FecTypeOK
<1> QED BY <1>2, <1>12 DEF FecIInv

\* A source that comes fills its slot, or finds itself there or behind the window.
LEMMA SourceStep ==
  ASSUME FecIInv, NEW e \in 0..(Symbols - 1), SourceArrives(e)
  PROVE  FecIInv'
<1>1. FecTypeOK /\ DecFits(dec) /\ Stands(dec) /\ Wide(dec) /\ (~taken => DecTrue(dec)) BY DEF FecIInv
<1>2. UNCHANGED <<next, heldSymbols, ring, repairs>> BY DEF SourceArrives
<1>3. e \in Nat BY FecConstants
<1>4. CASE Behind(dec, e)
  <2>1. UNCHANGED <<dec, taken>> BY <1>4 DEF SourceArrives
  <2>2. FecTypeOK' BY <1>1, <1>2, <2>1 DEF FecTypeOK
  <2> QED BY <2>1, <2>2 DEF FecIInv
<1>5. CASE ~Behind(dec, e)
  <2> DEFINE s == Slid(dec, e)
             d == Witnessed(s, e)
             u == Substituted(d, e, Value(e))
  <2>1. /\ dec' = IF Holds(d, e) THEN d ELSE Harvested(u)
        /\ taken' = (taken \/ \E r \in d.rows : r.pivot = e /\ ~Holds(d, e))
    BY <1>5 DEF SourceArrives
  <2> HIDE DEF s
  <2>2. /\ DecFits(s) /\ s.started /\ Stands(s) /\ e \in s.lo..(s.high - 1) /\ s.rows \subseteq dec.rows
        /\ DecTrue(dec) => DecTrue(s)
    BY <1>1, <1>3, <1>5, SlidFits DEF s
  <2> HIDE DEF d
  <2>3. /\ DecFits(d) /\ d.rows = s.rows /\ d.lo = s.lo /\ d.high = s.high /\ d.started = s.started
        /\ DecTrue(s) => DecTrue(d)
    <3>1. e \in Int BY <1>3
    <3> QED BY <2>2, <3>1, WitnessedFits DEF d
  <2>4. d.high = d.lo + Width /\ d.started /\ e \in d.lo..(d.high - 1) BY <2>2, <2>3 DEF Stands
  <2>5. Wide(d) BY <1>1, <2>2, <2>3 DEF Wide
  <2>6. taken' \in BOOLEAN /\ (~taken' => ~taken) BY <1>1, <2>1 DEF FecTypeOK
  <2>7. DecFits(dec') /\ Wide(dec') /\ Stands(dec') /\ (~taken' => DecTrue(dec'))
    <3>1. CASE Holds(d, e)
      <4>1. dec' = d BY <2>1, <3>1
      <4>2. Stands(d) BY <2>4 DEF Stands
      <4>3. ~taken' => DecTrue(d) BY <1>1, <2>2, <2>3, <2>6
      <4> QED BY <2>3, <2>5, <4>1, <4>2, <4>3
    <3>2. CASE ~Holds(d, e)
      <4>1. dec' = Harvested(u) BY <2>1, <3>2
      <4>2. e \in Lacks(d) BY <2>4, <3>2 DEF Lacks
      <4>3. Value(e) \in 0..(Prime - 1)
        <5>1. e \in Int BY <1>3
        <5>2. Value(e) \in 1..(Prime - 1) BY <5>1, ValueType
        <5> QED BY <5>2, FecConstants
      <4> HIDE DEF u
      <4>4. /\ DecFits(u) /\ u.lo = d.lo /\ u.high = d.high /\ u.started = d.started
            /\ DecTrue(d) /\ (\A r \in d.rows : r.pivot # e) => DecTrue(u)
        BY <2>3, <4>2, <4>3, SubstitutedFits DEF u
      <4> DEFINE h == dec'
      <4> HIDE DEF h
      <4>5. /\ DecFits(h) /\ Wide(h) /\ h.lo = u.lo /\ h.high = u.high /\ h.started = u.started
            /\ DecTrue(u) => DecTrue(h)
        BY <4>1, <4>4, HarvestedFits DEF h
      <4>6. Stands(h) BY <2>4, <4>4, <4>5 DEF Stands
      <4>7. ~taken' => DecTrue(h)
        <5> SUFFICES ASSUME ~taken' PROVE DecTrue(h) OBVIOUS
        <5>1. DecTrue(d) BY <1>1, <2>2, <2>3, <2>6
        <5>2. \A r \in d.rows : r.pivot # e BY <2>1, <3>2
        <5> QED BY <4>4, <4>5, <5>1, <5>2
      <4> QED BY <4>5, <4>6, <4>7 DEF h
    <3> QED BY <3>1, <3>2
  <2>8. FecTypeOK' BY <1>1, <1>2, <2>6 DEF FecTypeOK
  <2> QED BY <2>7, <2>8 DEF FecIInv
<1> QED BY <1>4, <1>5

\* A repair that comes is a true row over the whole of its symbols, or is dropped.
LEMMA RepairArrivesStep ==
  ASSUME FecIInv, NEW p \in repairs, RepairArrives(p)
  PROVE  FecIInv'
<1>1. FecTypeOK /\ DecFits(dec) /\ Stands(dec) /\ Wide(dec) /\ (~taken => DecTrue(dec)) BY DEF FecIInv
<1>2. UNCHANGED <<next, heldSymbols, ring, repairs, taken>> BY DEF RepairArrives
<1> DEFINE upto == p.first + Cardinality(DOMAIN p.coef) - 1
           s == Slid(dec, upto)
           d == Witnessed(s, p.first)
           coef == [e \in DOMAIN p.coef \cap (d.lo..(d.high - 1)) |-> p.coef[e]]
<1>3. dec' = IF Behind(dec, upto) THEN dec
             ELSE IF ~Reaches(d, p) THEN d
             ELSE Inserted(d, coef, p.data)
  BY DEF RepairArrives
<1>4. /\ p.first \in Nat /\ upto \in Nat /\ DOMAIN p.coef = p.first..upto
      /\ RowOver([pivot |-> 0, coef |-> p.coef, data |-> p.data], p.first..upto) /\ Dot(p.coef) = p.data
  BY <1>1 DEF FecTypeOK, RepairIsTrue
<1>5. FecTypeOK' BY <1>1, <1>2 DEF FecTypeOK
<1> HIDE DEF upto
<1>6. CASE Behind(dec, upto)
  <2>1. dec' = dec BY <1>3, <1>6
  <2> QED BY <1>1, <1>2, <1>5, <2>1 DEF FecIInv
<1>7. CASE ~Behind(dec, upto)
  <2> HIDE DEF s
  <2>1. /\ DecFits(s) /\ s.started /\ Stands(s) /\ upto \in s.lo..(s.high - 1) /\ s.rows \subseteq dec.rows
        /\ DecTrue(dec) => DecTrue(s)
    BY <1>1, <1>4, <1>7, SlidFits DEF s
  <2> HIDE DEF d
  <2>2. /\ DecFits(d) /\ d.rows = s.rows /\ d.lo = s.lo /\ d.high = s.high /\ d.started = s.started
        /\ DecTrue(s) => DecTrue(d)
    <3>1. p.first \in Int BY <1>4
    <3> QED BY <2>1, <3>1, WitnessedFits DEF d
  <2>3. d.high = d.lo + Width /\ d.started /\ upto \in d.lo..(d.high - 1) BY <2>1, <2>2 DEF Stands
  <2>4. Wide(d) /\ Stands(d) /\ (~taken => DecTrue(d)) BY <1>1, <2>1, <2>2, <2>3 DEF Wide, Stands
  <2> DEFINE h == dec'
  <2>5. DecFits(h) /\ Wide(h) /\ Stands(h) /\ (~taken => DecTrue(h))
    <3>1. CASE ~Reaches(d, p)
      <4>1. h = d BY <1>3, <1>7, <3>1
      <4> QED BY <2>2, <2>4, <4>1
    <3>2. CASE Reaches(d, p)
      <4>1. p.first..upto \subseteq d.lo..(d.high - 1)
        <5>1. d.lo \in Int /\ d.high \in Int BY <2>2 DEF DecFits, DecTypes
        <5>2. p.first >= d.lo BY <3>2 DEF Reaches
        <5> QED BY <1>4, <2>3, <5>1, <5>2
      <4> DEFINE r == [pivot |-> 0, coef |-> p.coef, data |-> p.data]
      <4>2. coef = p.coef
        <5>1. r.coef = [e \in DOMAIN r.coef |-> r.coef[e]] /\ r.coef = p.coef BY <1>4 DEF RowOver
        <5>2. p.coef = [e \in DOMAIN p.coef |-> p.coef[e]] BY <5>1
        <5>3. DOMAIN p.coef \cap (d.lo..(d.high - 1)) = DOMAIN p.coef BY <1>4, <4>1
        <5> QED BY <5>2, <5>3
      <4> HIDE DEF coef, h
      <4>3. RowOver(r, d.lo..(d.high - 1))
        <5> HIDE DEF r
        <5>1. RowOver(r, p.first..upto) BY <1>4 DEF r
        <5> QED BY <4>1, <5>1 DEF RowOver
      <4>4. h = Inserted(d, p.coef, p.data) BY <1>3, <1>7, <3>2, <4>2 DEF h
      <4>5. /\ DecFits(h) /\ h.lo = d.lo /\ h.high = d.high /\ h.started = d.started
            /\ Wide(d) => Wide(h)
            /\ DecTrue(d) /\ Dot(p.coef) = p.data => DecTrue(h)
        BY <2>2, <4>3, <4>4, InsertedFits
      <4>6. Stands(h) BY <2>3, <4>5 DEF Stands
      <4> QED BY <1>4, <2>4, <4>5, <4>6
    <3> QED BY <3>1, <3>2
  <2> QED BY <1>2, <1>5, <2>5 DEF FecIInv
<1> QED BY <1>6, <1>7

\* Whatever sources and repairs are lost, repeated and reordered: the decoder's rows stay true
\* equations in reduced form over what it lacks, and every symbol it holds is the one that was
\* sent, for any field, window and capacities, until a source comes that a row had for its pivot.
THEOREM RowsStaySolved == FecSpec => []FecInv
<1>1. FecIInv /\ [FecNext]_fecVars => FecIInv'
  <2> SUFFICES ASSUME FecIInv, [FecNext]_fecVars PROVE FecIInv' OBVIOUS
  <2>1. CASE UNCHANGED fecVars
    <3>1. UNCHANGED <<next, heldSymbols, ring, repairs, dec, taken>> BY <2>1 DEF fecVars
    <3>2. FecTypeOK' BY <3>1 DEF FecIInv, FecTypeOK
    <3> QED BY <3>1, <3>2 DEF FecIInv
  <2>2. CASE Adds \/ Resets \/ \E c \in Capacities : SetCapacity(c) BY <2>2, EncoderStep
  <2>3. CASE \E count \in 1..MaxRepairWindow : SendsRepair(count) BY <2>3, RepairStep
  <2>4. CASE \E e \in 0..(Symbols - 1) : SourceArrives(e) BY <2>4, SourceStep
  <2>5. CASE \E p \in repairs : RepairArrives(p) BY <2>5, RepairArrivesStep
  <2> QED BY <2>1, <2>2, <2>3, <2>4, <2>5 DEF FecNext
<1> QED BY <1>1, FecInitInv, FecMeans, PTL DEF FecSpec
=============================================================================
