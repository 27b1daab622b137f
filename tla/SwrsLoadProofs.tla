--------------------------- MODULE SwrsLoadProofs ---------------------------
(***************************************************************************)
(* Theorems of SwrsLoad, for any files, any fuel types, and any number of  *)
(* loads, editors, requests, generations and faults.  The argument is the  *)
(* one of the code: what a load has read cannot change before it commits,  *)
(* because of the locks it holds.                                          *)
(***************************************************************************)
EXTENDS SwrsLoad, FiniteSetTheorems, SequenceTheorems, WellFoundedInduction,
        TLAPS

-----------------------------------------------------------------------------
(* The inductive invariant *)

(* Tables that could be live: the final reports of a history, and fuels of *)
(* theirs, linked to the mapped types.                                     *)
Computed(reports, fuels, versions, mapped) ==
  /\ reports = FinalReport(versions)
  /\ \E seen \in SUBSET File : fuels = LoadedFuel(seen, versions, mapped)

(* Nobody holds a lock that conflicts with somebody else's.                *)
LocksExclude ==
  \A x, y \in Transaction : x # y =>
    \A o \in Object : \A m \in Mode : \A n \in Conflicts(m) :
      <<o, m>> \in locks[x] => <<o, n>> \notin locks[y]

AfterClone == {"report", "fuel", "history", "views", "drop"}

(* What a load knows: from the clone on, nobody edits the mappings, so its *)
(* tables stay those of the live mappings; and when everything is locked   *)
(* for the drop, nobody who read a live table is still there.              *)
LoadKnows(s, held, mapped) ==
  /\ s.pc \in {"refresh", "wait"} => s.todo # <<>>
  /\ s.pc \in AfterClone => <<FuelMapping, "share row exclusive">> \in held
  /\ s.pc \in {"fuel", "history"} => s.report = FinalReport(s.view["report"])
  /\ s.pc = "history" =>
       s.fuel = LoadedFuel(s.view["fuel"], s.view["report"], mapped)
  /\ s.pc \in {"views", "drop"} =>
       Computed(s.report, s.fuel, s.history, mapped)
  /\ s.pc = "drop" =>
       \A o \in {Fuel, History} :
         \/ <<o, "access exclusive">> \in held
         \/ \E i \in 1 .. Len(s.todo) : s.todo[i] = o

LoadInv(l) == LoadKnows(load[l], locks[l], mapping)

EditorInv(e) ==
  /\ editor[e].pc # "off" => editor[e].type \in FuelType
  /\ editor[e].pc = "update" =>
       /\ <<FuelMapping, "row exclusive">> \in locks[e]
       /\ editor[e].type \notin mapping

(* The unique index on fuel_type makes the second of two inserts wait.     *)
EditorsDiffer ==
  \A d, e \in Editor :
    d # e /\ editor[d].pc = "update" /\ editor[e].pc = "update" =>
      editor[d].type # editor[e].type

ReaderInv(r) ==
  /\ reader[r].seen \subseteq {generation}
  /\ reader[r].seen # {} =>
       \/ <<Fuel, "access share">> \in locks[r]
       \/ <<History, "access share">> \in locks[r]

Inv ==
  /\ TypeOK
  /\ LocksExclude
  /\ Computed(report, fuel, history, mapping)
  /\ \A l \in Load : LoadInv(l)
  /\ \A e \in Editor : EditorInv(e)
  /\ EditorsDiffer
  /\ \A r \in Reader : ReaderInv(r)

(* A load has what was extracted when it began: in the views it has        *)
(* refreshed, then in its history; and the fuels of what it publishes.     *)
HasFuels(files, reports, fuels) ==
  \A f \in files \cap reports : \A t \in FuelOf[f] :
    \E x \in fuels : x.file = f /\ x.type = t

FreshKnows(s, files) ==
  /\ s.began \cup s.snapshot \cup s.history \subseteq files
  /\ \A v \in View : s.view[v] \subseteq files
  /\ s.pc = "wait" => s.began \subseteq s.snapshot
  /\ s.pc \in {"refresh", "wait"} => \A v \in View :
       \/ s.began \subseteq s.view[v]
       \/ \E i \in 1 .. Len(s.todo) : s.todo[i] = TransformView(v)
  /\ s.pc \in {"clone", "report", "fuel", "history"} =>
       \A v \in View : s.began \subseteq s.view[v]
  /\ s.pc \in {"views", "drop"} => s.began \subseteq s.history
  /\ s.pc \in {"history", "views", "drop"} =>
       HasFuels(s.began, s.report, s.fuel)

Fresh ==
  /\ IsFiniteSet(xmlFile)
  /\ \A l \in Load : FreshKnows(load[l], xmlFile)

-----------------------------------------------------------------------------
(* The data *)

LEMMA FinalReportType == \A h : FinalReport(h) \in SUBSET File
  BY DataAssumption DEF FinalReport

LEMMA LoadedFuelType == \A v, h, m : LoadedFuel(v, h, m) \in SUBSET FuelRow
  BY DEF LoadedFuel

(* The cascade does to a loaded table what loading it with the new mapping *)
(* would have done.                                                        *)
LEMMA LinkedIsLoaded ==
  ASSUME NEW v, NEW h, NEW m, NEW t
  PROVE  Linked(LoadedFuel(v, h, m), t) = LoadedFuel(v, h, m \cup {t})
  <1> DEFINE link(x) == IF x.type = t THEN [x EXCEPT !.mapped = TRUE] ELSE x
  <1>1. \A x \in FuelRow :
          /\ link(x) \in FuelRow
          /\ link(x).file = x.file
          /\ link(x).type = x.type
          /\ link(x).mapped = IF x.type = t THEN TRUE ELSE x.mapped
    BY DEF FuelRow
  <1>2. ASSUME NEW x \in LoadedFuel(v, h, m)
        PROVE  link(x) \in LoadedFuel(v, h, m \cup {t})
    <2>1. /\ x \in FuelRow
          /\ x.file \in v \cap FinalReport(h)
          /\ x.type \in FuelOf[x.file]
          /\ x.mapped = (x.type \in m)
      BY DEF LoadedFuel
    <2>2. link(x).mapped = (x.type \in m \cup {t})
      <3>1. CASE x.type = t
        <4>1. link(x).mapped = TRUE
          BY <1>1, <2>1, <3>1
        <4>2. (x.type \in m \cup {t}) = TRUE
          BY <3>1
        <4>3. QED
          BY <4>1, <4>2
      <3>2. CASE x.type # t
        <4>1. link(x).mapped = (x.type \in m)
          BY <2>1, <3>2
        <4>2. (x.type \in m \cup {t}) = (x.type \in m)
          BY <3>2
        <4>3. QED
          BY <4>1, <4>2, Zenon
      <3>3. QED
        BY <3>1, <3>2
    <2>3. QED
      BY <1>1, <2>1, <2>2 DEF LoadedFuel
  <1>3. ASSUME NEW y \in LoadedFuel(v, h, m \cup {t})
        PROVE  \E x \in LoadedFuel(v, h, m) : y = link(x)
    <2> DEFINE x == [file |-> y.file, type |-> y.type, mapped |-> (y.type \in m)]
    <2>1. /\ y \in FuelRow
          /\ y.file \in v \cap FinalReport(h)
          /\ y.type \in FuelOf[y.file]
          /\ y.mapped = (y.type \in m \cup {t})
      BY DEF LoadedFuel
    <2>2. /\ x \in FuelRow
          /\ x.file = y.file
          /\ x.type = y.type
          /\ x.mapped = (y.type \in m)
      <3>1. (y.type \in m) \in BOOLEAN
        OBVIOUS
      <3>2. y.file \in File /\ y.type \in FuelType
        BY <2>1 DEF FuelRow
      <3>3. QED
        BY <3>1, <3>2, Zenon DEF FuelRow
    <2>3. x \in LoadedFuel(v, h, m)
      BY <2>1, <2>2 DEF LoadedFuel
    <2>4. link(x).mapped = y.mapped
      <3>1. CASE y.type = t
        <4>1. link(x).mapped = TRUE
          BY <1>1, <2>2, <3>1
        <4>2. y.mapped = TRUE
          BY <2>1, <3>1
        <4>3. QED
          BY <4>1, <4>2
      <3>2. CASE y.type # t
        <4>1. link(x).mapped = (y.type \in m)
          BY <2>2, <3>2, Zenon
        <4>2. (y.type \in m \cup {t}) = (y.type \in m)
          BY <3>2
        <4>3. QED
          BY <2>1, <4>1, <4>2, Zenon
      <3>3. QED
        BY <3>1, <3>2
    <2>5. /\ link(x) \in FuelRow
          /\ link(x).file = y.file
          /\ link(x).type = y.type
      BY <1>1, <2>2
    <2>6. y = link(x)
      BY <2>1, <2>4, <2>5 DEF FuelRow
    <2>7. QED
      BY <2>3, <2>6
  <1>4. Linked(LoadedFuel(v, h, m), t) = {link(x) : x \in LoadedFuel(v, h, m)}
    BY DEF Linked
  <1>5. QED
    BY <1>2, <1>3, <1>4

LEMMA OneFinalReport ==
  ASSUME NEW h, NEW f \in FinalReport(h), NEW g \in FinalReport(h),
         KeyOf[f] = KeyOf[g]
  PROVE  f = g
  <1>1. f \in File /\ g \in File
    BY FinalReportType
  <1>2. Rank[f] <= Rank[g] /\ Rank[g] <= Rank[f]
    BY DEF FinalReport
  <1>3. Rank[f] = Rank[g]
    BY <1>1, <1>2, DataAssumption
  <1>4. QED
    BY <1>1, <1>3, DataAssumption

-----------------------------------------------------------------------------
(* The locks *)

LEMMA ConflictsSymmetric ==
  \A m, n \in Mode : n \in Conflicts(m) <=> m \in Conflicts(n)
  BY DEF Mode, Conflicts

LEMMA LockExcludes ==
  ASSUME TypeOK, LocksExclude,
         NEW x \in Transaction, NEW o \in Object, NEW m \in Mode, Lock(x, o, m)
  PROVE  /\ LocksExclude'
         /\ locks' \in [Transaction -> SUBSET (Object \X Mode)]
         /\ locks'[x] = locks[x] \cup {<<o, m>>}
         /\ \A y \in Transaction : y # x => locks'[y] = locks[y]
  <1>1. locks' = [locks EXCEPT ![x] = locks[x] \cup {<<o, m>>}]
    BY DEF Lock
  <1>2. locks \in [Transaction -> SUBSET (Object \X Mode)]
    BY DEF TypeOK
  <1>3. locks' \in [Transaction -> SUBSET (Object \X Mode)]
    BY <1>1, <1>2
  <1>4. locks'[x] = locks[x] \cup {<<o, m>>}
    BY <1>1, <1>2
  <1>5. \A y \in Transaction : y # x => locks'[y] = locks[y]
    BY <1>1, <1>2
  <1>6. \A y \in Transaction \ {x} : \A n \in Conflicts(m) : <<o, n>> \notin locks[y]
    BY DEF Lock, Blockers
  <1>7. ASSUME NEW y \in Transaction, NEW z \in Transaction, y # z,
               NEW p \in Object, NEW j \in Mode, NEW k \in Conflicts(j),
               <<p, j>> \in locks'[y], <<p, k>> \in locks'[z]
        PROVE  FALSE
    <2>0. k \in Mode
      BY DEF Conflicts, Mode
    <2>1. CASE y = x /\ <<p, j>> = <<o, m>>
      BY <1>5, <1>6, <1>7, <2>1
    <2>2. CASE z = x /\ <<p, k>> = <<o, m>>
      <3>1. j \in Conflicts(m) /\ p = o
        BY <2>0, <2>2, ConflictsSymmetric
      <3>2. QED
        BY <1>5, <1>6, <1>7, <2>2, <3>1
    <2>3. CASE /\ ~(y = x /\ <<p, j>> = <<o, m>>)
               /\ ~(z = x /\ <<p, k>> = <<o, m>>)
      <3>1. <<p, j>> \in locks[y] /\ <<p, k>> \in locks[z]
        BY <1>4, <1>5, <1>7, <2>3
      <3>2. QED
        BY <1>7, <3>1 DEF LocksExclude
    <2>4. QED
      BY <2>1, <2>2, <2>3
  <1>8. LocksExclude'
    BY <1>7 DEF LocksExclude, Conflicts
  <1>9. QED
    BY <1>3, <1>4, <1>5, <1>8

LEMMA ReleaseExcludes ==
  ASSUME TypeOK, LocksExclude, NEW x \in Transaction, Release(x)
  PROVE  /\ LocksExclude'
         /\ locks' \in [Transaction -> SUBSET (Object \X Mode)]
         /\ locks'[x] = {}
         /\ \A y \in Transaction : y # x => locks'[y] = locks[y]
  <1>1. locks' = [locks EXCEPT ![x] = {}]
    BY DEF Release
  <1>2. locks \in [Transaction -> SUBSET (Object \X Mode)]
    BY DEF TypeOK
  <1>3. /\ locks' \in [Transaction -> SUBSET (Object \X Mode)]
        /\ locks'[x] = {}
        /\ \A y \in Transaction : y # x => locks'[y] = locks[y]
    BY <1>1, <1>2
  <1>4. \A y \in Transaction : locks'[y] \subseteq locks[y]
    BY <1>3
  <1>5. LocksExclude'
    BY <1>4 DEF LocksExclude, Conflicts
  <1>6. QED
    BY <1>3, <1>5

-----------------------------------------------------------------------------
(* What leaves the other transactions alone *)

LEMMA Apart ==
  /\ \A l \in Load : l \in Transaction /\ l \notin Editor /\ l \notin Reader
  /\ \A e \in Editor : e \in Transaction /\ e \notin Load /\ e \notin Reader
  /\ \A r \in Reader : r \in Transaction /\ r \notin Load /\ r \notin Editor
  /\ \A x \in Transaction : x \in Load \/ x \in Editor \/ x \in Reader
  BY TransactionAssumption DEF Transaction

LEMMA NamesType ==
  /\ FuelMapping \in Object /\ Fuel \in Object /\ History \in Object
  /\ "access share" \in Mode /\ "row exclusive" \in Mode
  /\ "share row exclusive" \in Mode /\ "access exclusive" \in Mode
  /\ SwrsTable \subseteq Object
  /\ Readable \subseteq Object
  BY DEF FuelMapping, Fuel, History, Object, Mode, SwrsTable, Readable

LEMMA OffType == Off \in LoadState
  BY DEF Off, LoadState, View

(* The invariant of a load depends on its state, its locks and the         *)
(* mappings; the one of an editor also; the one of a request on its state, *)
(* its locks and the generation.                                           *)
LEMMA SameLoad ==
  ASSUME NEW l \in Load, LoadInv(l), load'[l] = load[l], locks'[l] = locks[l],
         mapping' = mapping
  PROVE  LoadInv(l)'
  BY DEF LoadInv

LEMMA SameEditor ==
  ASSUME NEW e \in Editor, EditorInv(e), editor'[e] = editor[e],
         locks'[e] = locks[e], mapping' = mapping
  PROVE  EditorInv(e)'
  BY DEF EditorInv

LEMMA SameReader ==
  ASSUME NEW r \in Reader, ReaderInv(r), reader'[r] = reader[r],
         locks'[r] = locks[r], generation' = generation
  PROVE  ReaderInv(r)'
  BY DEF ReaderInv

(* A step of a load that changes nothing but its own state and locks.      *)
LEMMA LoadMoves ==
  ASSUME Inv, NEW l \in Load, NEW s \in LoadState,
         load' = [load EXCEPT ![l] = s],
         LocksExclude',
         locks' \in [Transaction -> SUBSET (Object \X Mode)],
         \A y \in Transaction : y # l => locks'[y] = locks[y],
         LoadOnly,
         LoadKnows(s, locks'[l], mapping)
  PROVE  Inv'
  <1>1. UNCHANGED <<xmlFile, report, fuel, history, mapping, detail, generation,
                    views, order, editor, reader, faults>>
    BY DEF LoadOnly, live
  <1>2. TypeOK'
    <2>1. load' \in [Load -> LoadState]
      BY DEF Inv, TypeOK
    <2>2. QED
      BY <1>1, <2>1 DEF Inv, TypeOK
  <1>3. Computed(report, fuel, history, mapping)'
    BY <1>1 DEF Inv, Computed
  <1>4. \A k \in Load : LoadInv(k)'
    <2>1. ASSUME NEW k \in Load, k # l
          PROVE  LoadInv(k)'
      <3>1. load'[k] = load[k]
        BY <2>1 DEF Inv, TypeOK
      <3>2. QED
        BY <1>1, <2>1, <3>1, Apart, SameLoad DEF Inv
    <2>2. load'[l] = s
      BY DEF Inv, TypeOK
    <2>3. LoadInv(l)'
      BY <1>1, <2>2 DEF LoadInv
    <2>4. QED
      BY <2>1, <2>3
  <1>5. \A e \in Editor : EditorInv(e)'
    BY <1>1, Apart, SameEditor DEF Inv
  <1>6. EditorsDiffer'
    BY <1>1 DEF Inv, EditorsDiffer
  <1>7. \A r \in Reader : ReaderInv(r)'
    BY <1>1, Apart, SameReader DEF Inv
  <1>8. QED
    BY <1>2, <1>3, <1>4, <1>5, <1>6, <1>7 DEF Inv

(* A step that touches no lock and no state of a transaction.              *)
LEMMA OthersMove ==
  ASSUME Inv,
         UNCHANGED <<live, generation, load, editor, reader, locks, faults>>,
         xmlFile' \subseteq File, views' \subseteq Direct \cup Indirect,
         UNCHANGED order
  PROVE  Inv'
  <1>1. UNCHANGED <<report, fuel, history, mapping, detail>>
    BY DEF live
  <1>2. TypeOK'
    BY <1>1 DEF Inv, TypeOK
  <1>3. LocksExclude' /\ EditorsDiffer' /\ Computed(report, fuel, history, mapping)'
    BY <1>1 DEF Inv, LocksExclude, EditorsDiffer, Computed, Conflicts
  <1>4. \A l \in Load : LoadInv(l)'
    BY <1>1, SameLoad DEF Inv
  <1>5. \A e \in Editor : EditorInv(e)'
    BY <1>1, SameEditor DEF Inv
  <1>6. \A r \in Reader : ReaderInv(r)'
    BY SameReader DEF Inv
  <1>7. QED
    BY <1>2, <1>3, <1>4, <1>5, <1>6 DEF Inv

(* The end of a transaction, by a rollback.                                *)
LEMMA RollBackKeepsInv ==
  ASSUME Inv, NEW x \in Transaction, RollBack(x), faults' \in 0 .. MaxFaults
  PROVE  Inv'
  <1>0. TypeOK /\ LocksExclude
    BY DEF Inv
  <1>1. /\ LocksExclude'
        /\ locks' \in [Transaction -> SUBSET (Object \X Mode)]
        /\ locks'[x] = {}
        /\ \A y \in Transaction : y # x => locks'[y] = locks[y]
    BY <1>0, ReleaseExcludes DEF RollBack
  <1>2. UNCHANGED <<xmlFile, report, fuel, history, mapping, detail, generation,
                    views, order>>
    BY DEF RollBack, live
  <1>3. /\ load' \in [Load -> LoadState]
        /\ \A l \in Load : load'[l] = IF l = x THEN Off ELSE load[l]
    <2>1. CASE x \in Load
      <3>1. load' = [load EXCEPT ![x] = Off]
        BY <2>1 DEF RollBack
      <3>2. QED
        BY <1>0, <2>1, <3>1, OffType DEF TypeOK
    <2>2. CASE x \notin Load
      BY <1>0, <2>2 DEF TypeOK, RollBack
    <2>3. QED
      BY <2>1, <2>2
  <1>4. /\ editor' \in [Editor -> EditorState]
        /\ \A e \in Editor : editor'[e] = IF e = x THEN NoEdit ELSE editor[e]
    <2>1. NoEdit \in EditorState
      BY DEF NoEdit, EditorState
    <2>2. CASE x \in Editor
      <3>1. editor' = [editor EXCEPT ![x] = NoEdit]
        BY <2>2 DEF RollBack
      <3>2. QED
        BY <1>0, <2>1, <2>2, <3>1 DEF TypeOK
    <2>3. CASE x \notin Editor
      BY <1>0, <2>3 DEF TypeOK, RollBack
    <2>4. QED
      BY <2>2, <2>3
  <1>5. /\ reader' \in [Reader -> ReaderState]
        /\ \A r \in Reader : reader'[r] = IF r = x THEN NoRequest ELSE reader[r]
    <2>1. NoRequest \in ReaderState
      BY DEF NoRequest, ReaderState
    <2>2. CASE x \in Reader
      <3>1. reader' = [reader EXCEPT ![x] = NoRequest]
        BY <2>2 DEF RollBack
      <3>2. QED
        BY <1>0, <2>1, <2>2, <3>1 DEF TypeOK
    <2>3. CASE x \notin Reader
      BY <1>0, <2>3 DEF TypeOK, RollBack
    <2>4. QED
      BY <2>2, <2>3
  <1>6. TypeOK'
    BY <1>0, <1>1, <1>2, <1>3, <1>4, <1>5 DEF TypeOK
  <1>7. Computed(report, fuel, history, mapping)'
    BY <1>2 DEF Inv, Computed
  <1>8. \A l \in Load : LoadInv(l)'
    <2>1. ASSUME NEW l \in Load, l = x
          PROVE  LoadInv(l)'
      <3>1. load'[l] = Off
        BY <1>3, <2>1
      <3>2. QED
        BY <3>1 DEF LoadInv, LoadKnows, Off, AfterClone
    <2>2. ASSUME NEW l \in Load, l # x
          PROVE  LoadInv(l)'
      BY <1>1, <1>2, <1>3, <2>2, Apart, SameLoad DEF Inv
    <2>3. QED
      BY <2>1, <2>2
  <1>9. \A e \in Editor : EditorInv(e)'
    <2>1. ASSUME NEW e \in Editor, e = x
          PROVE  EditorInv(e)'
      <3>1. editor'[e] = NoEdit
        BY <1>4, <2>1
      <3>2. QED
        BY <3>1 DEF EditorInv, NoEdit
    <2>2. ASSUME NEW e \in Editor, e # x
          PROVE  EditorInv(e)'
      BY <1>1, <1>2, <1>4, <2>2, Apart, SameEditor DEF Inv
    <2>3. QED
      BY <2>1, <2>2
  <1>10. EditorsDiffer'
    BY <1>4 DEF Inv, EditorsDiffer, NoEdit
  <1>11. \A r \in Reader : ReaderInv(r)'
    <2>1. ASSUME NEW r \in Reader, r = x
          PROVE  ReaderInv(r)'
      <3>1. reader'[r] = NoRequest
        BY <1>5, <2>1
      <3>2. QED
        BY <3>1 DEF ReaderInv, NoRequest
    <2>2. ASSUME NEW r \in Reader, r # x
          PROVE  ReaderInv(r)'
      BY <1>1, <1>2, <1>5, <2>2, Apart, SameReader DEF Inv
    <2>3. QED
      BY <2>1, <2>2
  <1>12. QED
    BY <1>1, <1>6, <1>7, <1>8, <1>9, <1>10, <1>11 DEF Inv

-----------------------------------------------------------------------------
(* The steps of a load *)

LEMMA PairType ==
  \A S : \A a, b \in S :
    /\ <<a, b>> \in Seq(S)
    /\ Len(<<a, b>>) = 2
    /\ <<a, b>>[1] = a
    /\ <<a, b>>[2] = b
  OBVIOUS

LEMMA OrderType ==
  ASSUME NEW S \in SUBSET Object, NEW s \in Orders(S)
  PROVE  s \in Seq(Object) /\ Len(s) = 2 /\ s # <<>>
  <1>1. PICK a \in S, b \in S : s = <<a, b>>
    BY DEF Orders
  <1>2. QED
    BY <1>1

LEMMA BeginKeepsInv ==
  ASSUME Inv, NEW l \in Load, Begin(l)
  PROVE  Inv'
  <1> DEFINE s == [Off EXCEPT !.pc = "refresh", !.todo = order,
                              !.began = xmlFile]
  <1>1. order \in Seq(Object) /\ order # <<>>
    <2>1. {TransformView(v) : v \in View} \in SUBSET Object
      BY DEF Object
    <2>2. QED
      BY <2>1, OrderType DEF Inv, TypeOK
  <1>2. s \in LoadState
    BY <1>1, OffType DEF Inv, TypeOK, LoadState
  <1>3. s.pc = "refresh" /\ s.todo = order
    BY DEF Off
  <1>4. LoadKnows(s, locks'[l], mapping)
    BY <1>1, <1>3 DEF LoadKnows, AfterClone
  <1>5. load' = [load EXCEPT ![l] = s] /\ locks' = locks /\ LoadOnly
    BY DEF Begin
  <1>6. QED
    BY <1>2, <1>4, <1>5, LoadMoves DEF Inv, TypeOK, LocksExclude, Conflicts

LEMMA TakeSnapshotKeepsInv ==
  ASSUME Inv, NEW l \in Load, TakeSnapshot(l)
  PROVE  Inv'
  <1> DEFINE s == [load[l] EXCEPT !.pc = "wait", !.snapshot = xmlFile]
  <1>1. load[l] \in LoadState /\ LoadKnows(load[l], locks[l], mapping)
    BY DEF Inv, TypeOK, LoadInv
  <1>2. s \in LoadState /\ s.pc = "wait" /\ s.todo = load[l].todo
    BY <1>1 DEF Inv, TypeOK, LoadState
  <1>3. LoadKnows(s, locks'[l], mapping)
    BY <1>1, <1>2 DEF TakeSnapshot, LoadKnows, AfterClone
  <1>4. load' = [load EXCEPT ![l] = s] /\ locks' = locks /\ LoadOnly
    BY DEF TakeSnapshot
  <1>5. QED
    BY <1>2, <1>3, <1>4, LoadMoves DEF Inv, TypeOK, LocksExclude, Conflicts

LEMMA RefreshKeepsInv ==
  ASSUME Inv, NEW l \in Load, Refresh(l)
  PROVE  Inv'
  <1> DEFINE object == Head(load[l].todo)
             rest == Tail(load[l].todo)
             s == [load[l] EXCEPT !.view[object[2]] = load[l].snapshot,
                                  !.todo = rest,
                                  !.pc = IF rest = <<>> THEN "clone"
                                                        ELSE "refresh"]
  <1>1. load[l] \in LoadState /\ LoadKnows(load[l], locks[l], mapping)
    BY DEF Inv, TypeOK, LoadInv
  <1>2. load[l].todo \in Seq(Object) /\ load[l].todo # <<>>
    BY <1>1 DEF Refresh, LoadKnows, LoadState
  <1>3. object \in Object /\ rest \in Seq(Object)
    BY <1>2
  <1>4. [load[l].view EXCEPT ![object[2]] = load[l].snapshot]
          \in [View -> SUBSET File]
    BY <1>1 DEF LoadState
  <1>5. /\ s \in LoadState
        /\ s.todo = rest
        /\ s.pc = IF rest = <<>> THEN "clone" ELSE "refresh"
    BY <1>1, <1>3, <1>4 DEF LoadState
  <1>6. LoadKnows(s, locks'[l], mapping)
    BY <1>5 DEF LoadKnows, AfterClone
  <1>7. load' = [load EXCEPT ![l] = s] /\ Lock(l, object, "access exclusive")
        /\ LoadOnly
    BY DEF Refresh
  <1>8. QED
    BY <1>3, <1>5, <1>6, <1>7, LoadMoves, LockExcludes, Apart, NamesType DEF Inv

LEMMA CloneSchemaKeepsInv ==
  ASSUME Inv, NEW l \in Load, CloneSchema(l)
  PROVE  Inv'
  <1> DEFINE s == [load[l] EXCEPT !.pc = "report"]
  <1>1. load[l] \in LoadState
    BY DEF Inv, TypeOK
  <1>2. s \in LoadState /\ s.pc = "report"
    BY <1>1 DEF LoadState
  <1>3. load' = [load EXCEPT ![l] = s] /\ LoadOnly
        /\ Lock(l, FuelMapping, "share row exclusive")
    BY DEF CloneSchema
  <1>4. /\ LocksExclude'
        /\ locks' \in [Transaction -> SUBSET (Object \X Mode)]
        /\ locks'[l] = locks[l] \cup {<<FuelMapping, "share row exclusive">>}
        /\ \A y \in Transaction : y # l => locks'[y] = locks[y]
    BY <1>3, LockExcludes, Apart, NamesType DEF Inv
  <1>5. LoadKnows(s, locks'[l], mapping)
    BY <1>2, <1>4 DEF LoadKnows
  <1>6. QED
    BY <1>2, <1>3, <1>4, <1>5, LoadMoves

LEMMA LoadReportKeepsInv ==
  ASSUME Inv, NEW l \in Load, LoadReport(l)
  PROVE  Inv'
  <1> DEFINE s == [load[l] EXCEPT !.pc = "fuel",
                                  !.report = FinalReport(load[l].view["report"])]
  <1>1. load[l] \in LoadState /\ LoadKnows(load[l], locks[l], mapping)
    BY DEF Inv, TypeOK, LoadInv
  <1>2. /\ s \in LoadState /\ s.pc = "fuel" /\ s.view = load[l].view
        /\ s.report = FinalReport(load[l].view["report"])
    BY <1>1, FinalReportType DEF LoadState
  <1>3. LoadKnows(s, locks[l], mapping)
    BY <1>1, <1>2 DEF LoadReport, LoadKnows, AfterClone
  <1>4. load' = [load EXCEPT ![l] = s] /\ locks' = locks /\ LoadOnly
    BY DEF LoadReport
  <1>5. QED
    BY <1>2, <1>3, <1>4, LoadMoves DEF Inv, TypeOK, LocksExclude, Conflicts

LEMMA LoadFuelKeepsInv ==
  ASSUME Inv, NEW l \in Load, LoadFuel(l)
  PROVE  Inv'
  <1> DEFINE s == [load[l] EXCEPT
                     !.pc = "history",
                     !.fuel = LoadedFuel(load[l].view["fuel"],
                                         load[l].view["report"], mapping)]
  <1>1. load[l] \in LoadState /\ LoadKnows(load[l], locks[l], mapping)
    BY DEF Inv, TypeOK, LoadInv
  <1>2. /\ s \in LoadState /\ s.pc = "history" /\ s.view = load[l].view
        /\ s.report = load[l].report
        /\ s.fuel = LoadedFuel(load[l].view["fuel"], load[l].view["report"],
                               mapping)
    BY <1>1, LoadedFuelType DEF LoadState
  <1>3. LoadKnows(s, locks[l], mapping)
    BY <1>1, <1>2 DEF LoadFuel, LoadKnows, AfterClone
  <1>4. load' = [load EXCEPT ![l] = s] /\ locks' = locks /\ LoadOnly
    BY DEF LoadFuel
  <1>5. QED
    BY <1>2, <1>3, <1>4, LoadMoves DEF Inv, TypeOK, LocksExclude, Conflicts

LEMMA LoadHistoryKeepsInv ==
  ASSUME Inv, NEW l \in Load, LoadHistory(l)
  PROVE  Inv'
  <1> DEFINE s == [load[l] EXCEPT !.pc = "views",
                                  !.history = load[l].view["report"],
                                  !.view = [v \in View |-> {}]]
  <1>1. load[l] \in LoadState /\ LoadKnows(load[l], locks[l], mapping)
    BY DEF Inv, TypeOK, LoadInv
  <1>2. /\ load[l].view["report"] \in SUBSET File
        /\ load[l].view["fuel"] \in SUBSET File
    BY <1>1 DEF LoadState, View
  <1>3. /\ s \in LoadState /\ s.pc = "views" /\ s.report = load[l].report
        /\ s.fuel = load[l].fuel /\ s.history = load[l].view["report"]
    BY <1>1, <1>2 DEF LoadState
  <1>4. Computed(s.report, s.fuel, s.history, mapping)
    BY <1>1, <1>2, <1>3 DEF LoadHistory, LoadKnows, Computed
  <1>5. LoadKnows(s, locks[l], mapping)
    BY <1>1, <1>3, <1>4 DEF LoadHistory, LoadKnows, AfterClone
  <1>6. load' = [load EXCEPT ![l] = s] /\ locks' = locks /\ LoadOnly
    BY DEF LoadHistory
  <1>7. QED
    BY <1>3, <1>5, <1>6, LoadMoves DEF Inv, TypeOK, LocksExclude, Conflicts

LEMMA FindViewsKeepsInv ==
  ASSUME Inv, NEW l \in Load, FindViews(l)
  PROVE  Inv'
  <1>1. load[l] \in LoadState /\ LoadKnows(load[l], locks[l], mapping)
    BY DEF Inv, TypeOK, LoadInv
  <1>2. PICK t \in Orders(SwrsTable) :
          load' = [load EXCEPT ![l] =
            [load[l] EXCEPT !.pc = "drop", !.direct = views \cap Direct,
                            !.todo = t \o <<FuelMapping, History>>]]
    BY DEF FindViews
  <1> DEFINE u == t \o <<FuelMapping, History>>
             s == [load[l] EXCEPT !.pc = "drop", !.direct = views \cap Direct,
                                  !.todo = u]
  <1>3. PICK a \in SwrsTable, b \in SwrsTable : t = <<a, b>> /\ a # b
    BY DEF Orders
  <1> DEFINE v == <<FuelMapping, History>>
  <1>4. /\ t \in Seq(Object) /\ Len(t) = 2 /\ t[1] = a /\ t[2] = b
        /\ v \in Seq(Object) /\ Len(v) = 2 /\ v[2] = History
    <2>1. a \in Object /\ b \in Object
      BY NamesType
    <2>2. QED
      BY <1>3, <2>1, NamesType, PairType, Zenon
  <1> HIDE DEF v
  <1>5. u \in Seq(Object) /\ Len(u) = 4 /\ u[1] = a /\ u[2] = b /\ u[4] = History
    <2>1. /\ t \o v \in Seq(Object)
          /\ Len(t \o v) = Len(t) + Len(v)
          /\ \A i \in 1 .. Len(t) + Len(v) :
               (t \o v)[i] = IF i <= Len(t) THEN t[i] ELSE v[i - Len(t)]
      BY <1>4, ConcatProperties, Zenon
    <2>2. u = t \o v
      BY DEF v
    <2>3. QED
      BY <1>4, <2>1, <2>2
  <1>6. a = Fuel \/ b = Fuel
    BY <1>3 DEF SwrsTable, Fuel
  <1>7. \A o \in {Fuel, History} : \E i \in 1 .. Len(u) : u[i] = o
    BY <1>5, <1>6
  <1> HIDE DEF u
  <1>8. /\ s \in LoadState /\ s.pc = "drop" /\ s.todo = u
        /\ s.report = load[l].report /\ s.fuel = load[l].fuel
        /\ s.history = load[l].history
    BY <1>1, <1>5 DEF LoadState
  <1>9. load[l].pc = "views"
    BY DEF FindViews
  <1>10. LoadKnows(s, locks[l], mapping)
    BY <1>1, <1>7, <1>8, <1>9 DEF LoadKnows, AfterClone
  <1>11. load' = [load EXCEPT ![l] = s] /\ locks' = locks /\ LoadOnly
    BY <1>2 DEF FindViews, u
  <1>12. QED
    BY <1>8, <1>10, <1>11, LoadMoves DEF Inv, TypeOK, LocksExclude, Conflicts

LEMMA LockForDropKeepsInv ==
  ASSUME Inv, NEW l \in Load, LockForDrop(l)
  PROVE  Inv'
  <1> DEFINE object == Head(load[l].todo)
             rest == Tail(load[l].todo)
             s == [load[l] EXCEPT !.todo = rest]
  <1>1. load[l] \in LoadState /\ LoadKnows(load[l], locks[l], mapping)
    BY DEF Inv, TypeOK, LoadInv
  <1>2. load[l].todo \in Seq(Object) /\ load[l].todo # <<>>
    BY <1>1 DEF LockForDrop, LoadState
  <1>3. object \in Object /\ rest \in Seq(Object)
    BY <1>2
  <1>4. load' = [load EXCEPT ![l] = s] /\ Lock(l, object, "access exclusive")
        /\ LoadOnly /\ load[l].pc = "drop"
    BY DEF LockForDrop
  <1>5. /\ LocksExclude'
        /\ locks' \in [Transaction -> SUBSET (Object \X Mode)]
        /\ locks'[l] = locks[l] \cup {<<object, "access exclusive">>}
        /\ \A y \in Transaction : y # l => locks'[y] = locks[y]
    BY <1>3, <1>4, LockExcludes, Apart, NamesType DEF Inv
  <1>6. /\ s \in LoadState /\ s.todo = rest /\ s.pc = "drop"
        /\ s.report = load[l].report /\ s.fuel = load[l].fuel
        /\ s.history = load[l].history
    BY <1>1, <1>3, <1>4 DEF LoadState
  <1>7. ASSUME NEW o \in {Fuel, History}
        PROVE  \/ <<o, "access exclusive">> \in locks'[l]
               \/ \E i \in 1 .. Len(rest) : rest[i] = o
    <2>1. CASE <<o, "access exclusive">> \in locks[l]
      BY <1>5, <2>1
    <2>2. CASE \E i \in 1 .. Len(load[l].todo) : load[l].todo[i] = o
      <3>1. PICK i \in 1 .. Len(load[l].todo) : load[l].todo[i] = o
        BY <2>2
      <3>2. CASE i = 1
        <4>1. object = o
          BY <1>2, <3>1, <3>2
        <4>2. QED
          BY <1>5, <4>1
      <3>3. CASE i # 1
        <4>1. i - 1 \in 1 .. Len(rest) /\ rest[i - 1] = o
          BY <1>2, <3>1, <3>3
        <4>2. QED
          BY <4>1
      <3>4. QED
        BY <3>2, <3>3
    <2>3. QED
      BY <1>1, <1>4, <2>1, <2>2 DEF LoadKnows
  <1> HIDE DEF rest, object
  <1>8. LoadKnows(s, locks'[l], mapping)
    BY <1>1, <1>4, <1>5, <1>6, <1>7 DEF LoadKnows, AfterClone
  <1>9. QED
    BY <1>4, <1>5, <1>6, <1>8, LoadMoves

(* When everything is locked for the drop, the tables to become live are   *)
(* those of the mappings as they are, and no request has read a live one.  *)
LEMMA ReadyToCommit ==
  ASSUME Inv, NEW l \in Load, load[l].pc = "drop", load[l].todo = <<>>
  PROVE  /\ Computed(load[l].report, load[l].fuel, load[l].history, mapping)
         /\ \A r \in Reader : reader[r].seen = {}
  <1>1. LoadKnows(load[l], locks[l], mapping)
    BY DEF Inv, LoadInv
  <1>2. \A o \in {Fuel, History} : <<o, "access exclusive">> \in locks[l]
    <2>1. ~ \E i \in 1 .. Len(load[l].todo) : TRUE
      OBVIOUS
    <2>2. QED
      BY <1>1, <2>1, Zenon DEF LoadKnows
  <1>3. ASSUME NEW r \in Reader, NEW o \in {Fuel, History}
        PROVE  <<o, "access share">> \notin locks[r]
    <2>1. "access share" \in Conflicts("access exclusive")
      BY DEF Conflicts, Mode
    <2>2. QED
      BY <1>2, <2>1, Apart, NamesType DEF Inv, LocksExclude
  <1>4. QED
    BY <1>1, <1>3 DEF LoadKnows, Inv, ReaderInv

LEMMA CommitKeepsInv ==
  ASSUME Inv, NEW l \in Load, Commit(l)
  PROVE  Inv'
  <1>0. TypeOK /\ LocksExclude /\ load[l] \in LoadState
    BY DEF Inv, TypeOK
  <1>1. /\ LocksExclude'
        /\ locks' \in [Transaction -> SUBSET (Object \X Mode)]
        /\ locks'[l] = {}
        /\ \A y \in Transaction : y # l => locks'[y] = locks[y]
    BY <1>0, Apart, ReleaseExcludes DEF Commit
  <1>2. /\ Computed(load[l].report, load[l].fuel, load[l].history, mapping)
        /\ \A r \in Reader : reader[r].seen = {}
    BY ReadyToCommit DEF Commit
  <1>3. /\ load' \in [Load -> LoadState]
        /\ load'[l] = Off
        /\ \A k \in Load : k # l => load'[k] = load[k]
    BY <1>0, OffType DEF TypeOK, Commit
  <1>4. TypeOK'
    <2>1. /\ report' \subseteq File /\ fuel' \subseteq FuelRow
          /\ history' \subseteq File
          /\ views' \subseteq Direct \cup Indirect
      BY <1>0 DEF TypeOK, Commit, LoadState
    <2>2. generation' \in Nat
      BY <1>0 DEF TypeOK, Commit
    <2>3. QED
      BY <1>0, <1>1, <1>3, <2>1, <2>2 DEF TypeOK, Commit
  <1>5. Computed(report, fuel, history, mapping)'
    BY <1>2 DEF Commit, Computed
  <1>6. \A k \in Load : LoadInv(k)'
    <2>1. ASSUME NEW k \in Load, k # l
          PROVE  LoadInv(k)'
      BY <1>1, <1>3, <2>1, Apart, SameLoad DEF Inv, Commit
    <2>2. LoadInv(l)'
      BY <1>3 DEF LoadInv, LoadKnows, Off, AfterClone
    <2>3. QED
      BY <2>1, <2>2
  <1>7. \A e \in Editor : EditorInv(e)'
    BY <1>1, Apart, SameEditor DEF Inv, Commit
  <1>8. EditorsDiffer'
    BY DEF Inv, EditorsDiffer, Commit
  <1>9. \A r \in Reader : ReaderInv(r)'
    BY <1>2 DEF ReaderInv, Commit
  <1>10. QED
    BY <1>1, <1>4, <1>5, <1>6, <1>7, <1>8, <1>9 DEF Inv

-----------------------------------------------------------------------------
(* The steps of the editors *)

(* A step of an editor that changes nothing but its own state and locks.   *)
LEMMA EditorMoves ==
  ASSUME Inv, NEW e \in Editor, NEW s \in EditorState,
         editor' = [editor EXCEPT ![e] = s],
         LocksExclude',
         locks' \in [Transaction -> SUBSET (Object \X Mode)],
         \A y \in Transaction : y # e => locks'[y] = locks[y],
         UNCHANGED <<fuel, mapping, detail>>, EditorOnly,
         s.pc # "off" => s.type \in FuelType,
         s.pc = "update" =>
           /\ <<FuelMapping, "row exclusive">> \in locks'[e]
           /\ s.type \notin mapping
           /\ \A d \in Editor \ {e} :
                editor[d].pc = "update" => editor[d].type # s.type
  PROVE  Inv'
  <1>1. UNCHANGED <<xmlFile, report, fuel, history, mapping, detail, generation,
                    views, order, load, reader, faults>>
    BY DEF EditorOnly
  <1>2. /\ editor' \in [Editor -> EditorState]
        /\ editor'[e] = s
        /\ \A d \in Editor : d # e => editor'[d] = editor[d]
    BY DEF Inv, TypeOK
  <1>3. TypeOK'
    BY <1>1, <1>2 DEF Inv, TypeOK
  <1>4. Computed(report, fuel, history, mapping)'
    BY <1>1 DEF Inv, Computed
  <1>5. \A l \in Load : LoadInv(l)'
    BY <1>1, Apart, SameLoad DEF Inv
  <1>6. \A d \in Editor : EditorInv(d)'
    <2>1. ASSUME NEW d \in Editor, d # e
          PROVE  EditorInv(d)'
      BY <1>1, <1>2, <2>1, Apart, SameEditor DEF Inv
    <2>2. EditorInv(e)'
      BY <1>1, <1>2 DEF EditorInv, FuelMapping
    <2>3. QED
      BY <2>1, <2>2
  <1>7. EditorsDiffer'
    BY <1>2 DEF Inv, EditorsDiffer
  <1>8. \A r \in Reader : ReaderInv(r)'
    BY <1>1, Apart, SameReader DEF Inv
  <1>9. QED
    BY <1>3, <1>4, <1>5, <1>6, <1>7, <1>8 DEF Inv

LEMMA StartCascadeKeepsInv ==
  ASSUME Inv, NEW e \in Editor, NEW t \in FuelType, StartCascade(e, t)
  PROVE  Inv'
  <1> DEFINE s == [pc |-> "insert", type |-> t]
  <1>1. s \in EditorState /\ s.pc = "insert" /\ s.type = t
    BY DEF EditorState
  <1>2. editor' = [editor EXCEPT ![e] = s] /\ locks' = locks
        /\ UNCHANGED <<fuel, mapping, detail>> /\ EditorOnly
    BY DEF StartCascade
  <1> HIDE DEF s
  <1>3. QED
    BY <1>1, <1>2, EditorMoves DEF Inv, TypeOK, LocksExclude, Conflicts

LEMMA InsertMappingKeepsInv ==
  ASSUME Inv, NEW e \in Editor, InsertMapping(e)
  PROVE  Inv'
  <1> DEFINE s == [editor[e] EXCEPT !.pc = "update"]
  <1>1. editor[e] \in EditorState /\ EditorInv(e)
    BY DEF Inv, TypeOK
  <1>2. s \in EditorState /\ s.pc = "update" /\ s.type = editor[e].type
    BY <1>1 DEF EditorState
  <1>3. /\ editor[e].type \in FuelType /\ editor[e].type \notin mapping
        /\ \A d \in Editor \ {e} :
             editor[d].pc = "update" => editor[d].type # editor[e].type
    BY <1>1 DEF InsertMapping, EditorInv
  <1>4. editor' = [editor EXCEPT ![e] = s]
        /\ Lock(e, FuelMapping, "row exclusive")
        /\ UNCHANGED <<fuel, mapping, detail>> /\ EditorOnly
    BY DEF InsertMapping
  <1>5. /\ LocksExclude'
        /\ locks' \in [Transaction -> SUBSET (Object \X Mode)]
        /\ locks'[e] = locks[e] \cup {<<FuelMapping, "row exclusive">>}
        /\ \A y \in Transaction : y # e => locks'[y] = locks[y]
    BY <1>4, LockExcludes, Apart, NamesType DEF Inv
  <1>6. <<FuelMapping, "row exclusive">> \in locks'[e]
    BY <1>5
  <1> HIDE DEF s
  <1>7. QED
    BY <1>2, <1>3, <1>4, <1>5, <1>6, EditorMoves

LEMMA InsertDuplicateKeepsInv ==
  ASSUME Inv, NEW e \in Editor, InsertDuplicate(e)
  PROVE  Inv'
  <1>1. NoEdit \in EditorState /\ NoEdit.pc = "off"
    BY DEF NoEdit, EditorState
  <1>2. editor' = [editor EXCEPT ![e] = NoEdit] /\ locks' = locks
        /\ UNCHANGED <<fuel, mapping, detail>> /\ EditorOnly
    BY DEF InsertDuplicate
  <1>3. QED
    BY <1>1, <1>2, EditorMoves DEF Inv, TypeOK, LocksExclude, Conflicts

(* While an editor is between its insert and its commit, no load is past   *)
(* the clone: so none holds tables of the mappings before the edit.        *)
LEMMA NoLoadAfterClone ==
  ASSUME Inv, NEW e \in Editor, editor[e].pc = "update", NEW l \in Load
  PROVE  load[l].pc \notin AfterClone
  <1>1. <<FuelMapping, "row exclusive">> \in locks[e]
    BY DEF Inv, EditorInv
  <1>2. "row exclusive" \in Conflicts("share row exclusive")
    BY DEF Conflicts, Mode
  <1>3. <<FuelMapping, "share row exclusive">> \notin locks[l]
    BY <1>1, <1>2, Apart, NamesType DEF Inv, LocksExclude
  <1>4. QED
    BY <1>3 DEF Inv, LoadInv, LoadKnows

LEMMA UpdateFuelKeepsInv ==
  ASSUME Inv, NEW e \in Editor, UpdateFuel(e)
  PROVE  Inv'
  <1> DEFINE t == editor[e].type
  <1>0. TypeOK /\ LocksExclude /\ EditorInv(e) /\ t \in FuelType
    BY DEF Inv, EditorInv, UpdateFuel
  <1>1. /\ LocksExclude'
        /\ locks' \in [Transaction -> SUBSET (Object \X Mode)]
        /\ \A y \in Transaction : y # e => locks'[y] = locks[y]
    BY <1>0, Apart, ReleaseExcludes DEF UpdateFuel
  <1>2. /\ editor' \in [Editor -> EditorState]
        /\ editor'[e] = NoEdit
        /\ \A d \in Editor : d # e => editor'[d] = editor[d]
    <2>1. NoEdit \in EditorState
      BY DEF NoEdit, EditorState
    <2>2. QED
      BY <1>0, <2>1 DEF TypeOK, UpdateFuel
  <1>3. /\ UNCHANGED <<xmlFile, report, history, generation, views, order, load,
                       reader, faults>>
        /\ mapping' = mapping \cup {t} /\ detail' = detail \cup {t}
        /\ fuel' = Linked(fuel, t)
    BY DEF UpdateFuel, EditorOnly
  <1>4. Computed(report, fuel, history, mapping)'
    <2>1. PICK seen \in SUBSET File : fuel = LoadedFuel(seen, history, mapping)
      BY DEF Inv, Computed
    <2>2. fuel' = LoadedFuel(seen, history, mapping \cup {t})
      BY <1>3, <2>1, LinkedIsLoaded
    <2>3. report = FinalReport(history)
      BY DEF Inv, Computed
    <2>4. Computed(report, fuel', history, mapping \cup {t})
      BY <2>2, <2>3 DEF Computed
    <2>5. QED
      BY <1>3, <2>4
  <1>5. fuel' \subseteq FuelRow
    <2>1. PICK seen \in SUBSET File :
            fuel' = LoadedFuel(seen, history', mapping')
      BY <1>4 DEF Computed
    <2>2. QED
      BY <2>1, LoadedFuelType
  <1>6. TypeOK'
    BY <1>0, <1>1, <1>2, <1>3, <1>5 DEF TypeOK
  <1>7. \A l \in Load : LoadInv(l)'
    <2>1. SUFFICES ASSUME NEW l \in Load
                   PROVE  LoadKnows(load[l], locks[l], mapping \cup {t})
      BY <1>1, <1>3, Apart DEF LoadInv
    <2>2. load[l].pc \notin AfterClone
      BY NoLoadAfterClone DEF UpdateFuel
    <2>3. QED
      BY <2>2 DEF Inv, LoadInv, LoadKnows, AfterClone
  <1>8. \A d \in Editor : EditorInv(d)'
    <2>1. ASSUME NEW d \in Editor, d # e
          PROVE  EditorInv(d)'
      <3>1. EditorInv(d) /\ editor'[d] = editor[d] /\ locks'[d] = locks[d]
        BY <1>1, <1>2, <2>1, Apart DEF Inv
      <3>2. editor[d].pc = "update" => editor[d].type # t
        BY <2>1 DEF Inv, EditorsDiffer, UpdateFuel
      <3>3. QED
        BY <1>3, <3>1, <3>2 DEF EditorInv, FuelMapping
    <2>2. EditorInv(e)'
      BY <1>2 DEF EditorInv, NoEdit
    <2>3. QED
      BY <2>1, <2>2
  <1>9. EditorsDiffer'
    BY <1>2 DEF Inv, EditorsDiffer, NoEdit
  <1>10. \A r \in Reader : ReaderInv(r)'
    BY <1>1, <1>3, Apart, SameReader DEF Inv
  <1>11. QED
    BY <1>1, <1>4, <1>6, <1>7, <1>8, <1>9, <1>10 DEF Inv

LEMMA SetDetailKeepsInv ==
  ASSUME Inv, NEW t \in FuelType, SetDetail(t)
  PROVE  Inv'
  <1>1. /\ UNCHANGED <<xmlFile, report, fuel, history, mapping, generation,
                       views, order, load, editor, reader, locks, faults>>
        /\ detail' \subseteq mapping
    BY DEF SetDetail, EditorOnly, Inv, TypeOK
  <1>2. TypeOK'
    BY <1>1 DEF Inv, TypeOK
  <1>3. LocksExclude' /\ EditorsDiffer'
        /\ Computed(report, fuel, history, mapping)'
    BY <1>1 DEF Inv, LocksExclude, EditorsDiffer, Computed, Conflicts
  <1>4. \A l \in Load : LoadInv(l)'
    BY <1>1, SameLoad DEF Inv
  <1>5. \A e \in Editor : EditorInv(e)'
    BY <1>1, SameEditor DEF Inv
  <1>6. \A r \in Reader : ReaderInv(r)'
    BY <1>1, SameReader DEF Inv
  <1>7. QED
    BY <1>2, <1>3, <1>4, <1>5, <1>6 DEF Inv

-----------------------------------------------------------------------------
(* The steps of the requests *)

LEMMA ReaderMoves ==
  ASSUME Inv, NEW r \in Reader, NEW s \in ReaderState,
         reader' = [reader EXCEPT ![r] = s],
         LocksExclude',
         locks' \in [Transaction -> SUBSET (Object \X Mode)],
         \A y \in Transaction : y # r => locks'[y] = locks[y],
         ReaderOnly,
         s.seen \subseteq {generation},
         s.seen # {} => \/ <<Fuel, "access share">> \in locks'[r]
                        \/ <<History, "access share">> \in locks'[r]
  PROVE  Inv'
  <1>1. UNCHANGED <<xmlFile, report, fuel, history, mapping, detail, generation,
                    views, order, load, editor, faults>>
    BY DEF ReaderOnly, live
  <1>2. /\ reader' \in [Reader -> ReaderState]
        /\ reader'[r] = s
        /\ \A q \in Reader : q # r => reader'[q] = reader[q]
    BY DEF Inv, TypeOK
  <1>3. TypeOK'
    BY <1>1, <1>2 DEF Inv, TypeOK
  <1>4. Computed(report, fuel, history, mapping)'
    BY <1>1 DEF Inv, Computed
  <1>5. \A l \in Load : LoadInv(l)'
    BY <1>1, Apart, SameLoad DEF Inv
  <1>6. \A e \in Editor : EditorInv(e)'
    BY <1>1, Apart, SameEditor DEF Inv
  <1>7. EditorsDiffer'
    BY <1>1 DEF Inv, EditorsDiffer
  <1>8. \A q \in Reader : ReaderInv(q)'
    <2>1. ASSUME NEW q \in Reader, q # r
          PROVE  ReaderInv(q)'
      BY <1>1, <1>2, <2>1, Apart, SameReader DEF Inv
    <2>2. ReaderInv(r)'
      BY <1>1, <1>2 DEF ReaderInv, Fuel, History
    <2>3. QED
      BY <2>1, <2>2
  <1>9. QED
    BY <1>3, <1>4, <1>5, <1>6, <1>7, <1>8 DEF Inv

LEMMA AskKeepsInv ==
  ASSUME Inv, NEW r \in Reader, NEW o \in Readable, Ask(r, o)
  PROVE  Inv'
  <1> DEFINE s == [reader[r] EXCEPT !.want = {o}]
  <1>1. reader[r] \in ReaderState /\ ReaderInv(r)
    BY DEF Inv, TypeOK
  <1>2. s \in ReaderState /\ s.seen = reader[r].seen
    BY <1>1 DEF ReaderState
  <1>3. reader' = [reader EXCEPT ![r] = s] /\ locks' = locks /\ ReaderOnly
    BY DEF Ask
  <1> HIDE DEF s
  <1>4. QED
    BY <1>1, <1>2, <1>3, ReaderMoves
    DEF Inv, TypeOK, LocksExclude, Conflicts, ReaderInv

LEMMA ReadKeepsInv ==
  ASSUME Inv, NEW r \in Reader, Read(r)
  PROVE  Inv'
  <1>1. PICK o \in reader[r].want :
          /\ Lock(r, o, "access share")
          /\ reader' = [reader EXCEPT ![r] = Saw(r, o)]
          /\ ReaderOnly
    BY DEF Read
  <1>2. reader[r] \in ReaderState /\ ReaderInv(r)
    BY DEF Inv, TypeOK
  <1>3. o \in Readable /\ o \in Object
    BY <1>2, NamesType DEF ReaderState
  <1>4. /\ LocksExclude'
        /\ locks' \in [Transaction -> SUBSET (Object \X Mode)]
        /\ locks'[r] = locks[r] \cup {<<o, "access share">>}
        /\ \A y \in Transaction : y # r => locks'[y] = locks[y]
    BY <1>1, <1>3, LockExcludes, Apart, NamesType DEF Inv
  <1>5. /\ Saw(r, o) \in ReaderState
        /\ Saw(r, o).seen \subseteq {generation}
        /\ o = FuelMapping => Saw(r, o).seen = reader[r].seen
    <2>1. generation \in Nat
      BY DEF Inv, TypeOK
    <2>2. reader[r].seen \cup (IF o = FuelMapping THEN {} ELSE {generation})
            \subseteq {generation}
      BY <1>2 DEF ReaderInv
    <2>3. QED
      BY <1>2, <1>3, <2>1, <2>2 DEF Saw, ReaderState
  <1>6. Saw(r, o).seen # {} => \/ <<Fuel, "access share">> \in locks'[r]
                               \/ <<History, "access share">> \in locks'[r]
    <2>1. CASE o = FuelMapping
      BY <1>2, <1>4, <1>5, <2>1 DEF ReaderInv
    <2>2. CASE o # FuelMapping
      <3>1. o = Fuel \/ o = History
        BY <1>3, <2>2 DEF Readable
      <3>2. QED
        BY <1>4, <3>1
    <2>3. QED
      BY <2>1, <2>2
  <1>7. QED
    BY <1>1, <1>4, <1>5, <1>6, ReaderMoves

LEMMA RespondKeepsInv ==
  ASSUME Inv, NEW r \in Reader, Respond(r)
  PROVE  Inv'
  <1>1. NoRequest \in ReaderState /\ NoRequest.seen = {}
    BY DEF NoRequest, ReaderState
  <1>2. /\ LocksExclude'
        /\ locks' \in [Transaction -> SUBSET (Object \X Mode)]
        /\ \A y \in Transaction : y # r => locks'[y] = locks[y]
    BY Apart, ReleaseExcludes DEF Respond, Inv
  <1>3. reader' = [reader EXCEPT ![r] = NoRequest] /\ ReaderOnly
    BY DEF Respond
  <1>4. QED
    BY <1>1, <1>2, <1>3, ReaderMoves

-----------------------------------------------------------------------------
(* The invariant is inductive *)

LEMMA InitInv == Init => Inv
  <1> SUFFICES ASSUME Init
               PROVE  Inv
    OBVIOUS
  <1>1. TypeOK
    <2>1. NoEdit \in EditorState /\ NoRequest \in ReaderState
      BY DEF NoEdit, EditorState, NoRequest, ReaderState
    <2>2. QED
      BY <2>1, OffType, TransactionAssumption DEF Init, TypeOK
  <1>2. LocksExclude
    BY DEF Init, LocksExclude
  <1>3. Computed(report, fuel, history, mapping)
    <2>1. FinalReport({}) = {} /\ LoadedFuel({}, {}, mapping) = {}
      BY DEF FinalReport, LoadedFuel
    <2>2. QED
      BY <2>1 DEF Init, Computed
  <1>4. \A l \in Load : LoadInv(l)
    BY DEF Init, LoadInv, LoadKnows, Off, AfterClone
  <1>5. (\A e \in Editor : EditorInv(e)) /\ EditorsDiffer
    BY DEF Init, EditorInv, EditorsDiffer, NoEdit
  <1>6. \A r \in Reader : ReaderInv(r)
    BY DEF Init, ReaderInv, NoRequest
  <1>7. QED
    BY <1>1, <1>2, <1>3, <1>4, <1>5, <1>6 DEF Inv

LEMMA NextKeepsInv == Inv /\ [Next]_vars => Inv'
  <1> SUFFICES ASSUME Inv, [Next]_vars
               PROVE  Inv'
    OBVIOUS
  <1>0. TypeOK
    BY DEF Inv
  <1>1. ASSUME NEW f \in File, Extract(f)
        PROVE  Inv'
    BY <1>0, <1>1, OthersMove DEF Extract, TypeOK
  <1>2. ASSUME NEW v \in Direct \cup Indirect, CreateView(v)
        PROVE  Inv'
    BY <1>0, <1>2, OthersMove DEF CreateView, TypeOK
  <1>3. ASSUME NEW l \in Load, LoadStep(l)
        PROVE  Inv'
    <2>1. CASE RecreateFails(l)
      BY <1>0, <2>1, RollBackKeepsInv, Apart DEF RecreateFails, TypeOK
    <2>2. QED
      BY <1>3, <2>1, BeginKeepsInv, TakeSnapshotKeepsInv, RefreshKeepsInv,
         CloneSchemaKeepsInv, LoadReportKeepsInv, LoadFuelKeepsInv,
         LoadHistoryKeepsInv, FindViewsKeepsInv, LockForDropKeepsInv,
         CommitKeepsInv
      DEF LoadStep
  <1>4. ASSUME NEW e \in Editor, EditorStep(e)
        PROVE  Inv'
    BY <1>4, StartCascadeKeepsInv, InsertMappingKeepsInv,
       InsertDuplicateKeepsInv, UpdateFuelKeepsInv
    DEF EditorStep
  <1>5. ASSUME NEW r \in Reader, ReaderStep(r)
        PROVE  Inv'
    BY <1>5, AskKeepsInv, ReadKeepsInv, RespondKeepsInv DEF ReaderStep
  <1>6. ASSUME NEW x \in Transaction, Abort(x) \/ BreakDeadlock(x)
        PROVE  Inv'
    <2>1. faults' \in 0 .. MaxFaults /\ RollBack(x)
      BY <1>0, <1>6, TransactionAssumption DEF Abort, BreakDeadlock, TypeOK
    <2>2. QED
      BY <2>1, RollBackKeepsInv
  <1>7. CASE UNCHANGED vars
    BY <1>0, <1>7, OthersMove DEF vars, TypeOK
  <1>8. QED
    BY <1>1, <1>2, <1>3, <1>4, <1>5, <1>6, <1>7, SetDetailKeepsInv DEF Next

LEMMA InvHolds == Spec => []Inv
  BY InitInv, NextKeepsInv, PTL DEF Spec

-----------------------------------------------------------------------------
(* What a load has when it commits *)

(* There is no infinite descent: of numbers there is a least.              *)
LEMMA LeastNumber ==
  ASSUME NEW S \in SUBSET Nat, S # {}
  PROVE  \E n \in S : \A m \in S : n <= m
  <1> DEFINE R == {ss \in Nat \X Nat : ss[1] < ss[2]}
  <1>1. OpToRel(<, Nat) = R
    BY DEF OpToRel
  <1>1a. IsWellFoundedOn(R, Nat)
    BY NatLessThanWellFounded, <1>1
  <1>2. PICK n \in S : \A m \in S : <<m, n>> \notin R
    <2> HIDE DEF R
    <2> QED BY <1>1a, WFMin
  <1>3. \A m, k \in Nat : m < k => <<m, k>> \in R
    OBVIOUS
  <1>4. \A m \in S : ~(m < n)
    <2> HIDE DEF R
    <2> QED BY <1>2, <1>3
  <1> QED BY <1>4

(* The one with the fewest above it has none above it.                     *)
LEMMA GreatestOfFinite ==
  ASSUME NEW S, IsFiniteSet(S), S # {}, NEW rank \in [S -> Nat]
  PROVE  \E x \in S : \A y \in S : rank[y] <= rank[x]
  <1> DEFINE above == [x \in S |-> {y \in S : rank[y] > rank[x]}]
             size == [x \in S |-> Cardinality(above[x])]
             Sizes == {size[x] : x \in S}
  <1>1. \A x \in S : above[x] \in SUBSET S
    OBVIOUS
  <1>2. \A x \in S : IsFiniteSet(above[x]) /\ size[x] \in Nat
    <2> TAKE x \in S
    <2>1. IsFiniteSet(above[x])
      <3> HIDE DEF above
      <3> QED BY <1>1, FS_Subset
    <2>2. size[x] = Cardinality(above[x])
      OBVIOUS
    <2> HIDE DEF above, size
    <2> QED BY <2>1, <2>2, FS_CardinalityType
  <1>3. PICK n \in Sizes : \A m \in Sizes : n <= m
    <2>1. Sizes \in SUBSET Nat /\ Sizes # {}
      BY <1>2
    <2> HIDE DEF Sizes
    <2> QED BY <2>1, LeastNumber
  <1>4. PICK x \in S : n = size[x]
    BY <1>3
  <1>5. ASSUME NEW y \in S, rank[y] > rank[x] PROVE FALSE
    <2>1. above[y] \subseteq above[x] /\ y \in above[x] /\ y \notin above[y]
      BY <1>5
    <2>2. size[y] = Cardinality(above[y]) /\ size[x] = Cardinality(above[x])
      OBVIOUS
    <2>3. size[x] <= size[y]
      BY <1>3, <1>4
    <2> HIDE DEF above, size
    <2>4. Cardinality(above[y]) <= Cardinality(above[x])
          /\ (Cardinality(above[y]) = Cardinality(above[x]) => above[y] = above[x])
      BY <1>2, <2>1, FS_Subset
    <2>5. size[x] = size[y]
      BY <1>2, <2>2, <2>3, <2>4
    <2> QED BY <2>1, <2>2, <2>4, <2>5
  <1> QED BY <1>5

(* The last report of a facility and year is final.                        *)
LEMMA LastIsFinal ==
  ASSUME NEW h \in SUBSET File, IsFiniteSet(h), NEW f \in h \cap Reportable
  PROVE  \E g \in FinalReport(h) : KeyOf[g] = KeyOf[f] /\ Rank[g] >= Rank[f]
  <1> DEFINE S == {g \in h \cap Reportable : KeyOf[g] = KeyOf[f]}
             rank == [g \in S |-> Rank[g]]
  <1>1. IsFiniteSet(S)
    BY FS_Subset
  <1>2. rank \in [S -> Nat]
    BY DataAssumption
  <1>3. PICK g \in S : \A y \in S : rank[y] <= rank[g]
    <2>1. f \in S
      OBVIOUS
    <2> HIDE DEF rank, S
    <2> QED BY <1>1, <1>2, <2>1, GreatestOfFinite
  <1>4. g \in FinalReport(h)
    BY <1>3 DEF FinalReport
  <1>5. Rank[g] >= Rank[f]
    BY <1>3, DataAssumption
  <1> QED BY <1>3, <1>4, <1>5

LEMMA OffIsFresh == \A files : FreshKnows(Off, files)
  BY DEF FreshKnows, Off, View

LEMMA FilesGrow ==
  ASSUME NEW s, NEW F, NEW G, F \subseteq G, FreshKnows(s, F)
  PROVE  FreshKnows(s, G)
  BY DEF FreshKnows

(* A step of one load, or of nobody, or one that ends transactions.        *)
LEMMA FreshMoves ==
  ASSUME Fresh, IsFiniteSet(xmlFile'), xmlFile \subseteq xmlFile',
         \A l \in Load : \/ load'[l] = load[l] \/ load'[l] = Off
                         \/ FreshKnows(load'[l], xmlFile')
  PROVE  Fresh'
  BY FilesGrow, OffIsFresh DEF Fresh

LEMMA LoadFreshens ==
  ASSUME Inv, Fresh, NEW l \in Load, NEW s,
         load' = [load EXCEPT ![l] = s], LoadOnly, FreshKnows(s, xmlFile)
  PROVE  Fresh'
  BY FreshMoves DEF Fresh, LoadOnly, Inv, TypeOK

LEMMA RefreshIsFresh ==
  ASSUME Inv, Fresh, NEW l \in Load, Refresh(l)
  PROVE  Fresh'
  <1> DEFINE object == Head(load[l].todo)
             rest == Tail(load[l].todo)
             view == [load[l].view EXCEPT ![object[2]] = load[l].snapshot]
             s == [load[l] EXCEPT !.view = view, !.todo = rest,
                                  !.pc = IF rest = <<>> THEN "clone"
                                                        ELSE "refresh"]
  <1>1. load[l] \in LoadState /\ load[l].todo # <<>>
    BY DEF Inv, TypeOK, LoadInv, LoadKnows, Refresh
  <1>2. /\ load[l].todo \in Seq(Object) /\ load[l].view \in [View -> SUBSET File]
        /\ Len(load[l].todo) \in Nat /\ Len(load[l].todo) > 0
        /\ rest \in Seq(Object) /\ Len(rest) = Len(load[l].todo) - 1
        /\ \A i \in 1 .. Len(load[l].todo) :
             load[l].todo[i] = IF i = 1 THEN object ELSE rest[i - 1]
    BY <1>1 DEF LoadState
  <1>3. /\ s.began = load[l].began /\ s.snapshot = load[l].snapshot
        /\ s.history = load[l].history /\ s.view = view /\ s.todo = rest
        /\ s.pc = IF rest = <<>> THEN "clone" ELSE "refresh"
    BY <1>1 DEF LoadState
  <1>4. FreshKnows(load[l], xmlFile) /\ load[l].pc = "wait"
    BY DEF Fresh, Refresh
  <1>5. \A v \in View : view[v] = load[l].view[v] \/ view[v] = load[l].snapshot
    BY <1>2
  <1>6. ASSUME NEW v \in View
        PROVE  \/ s.began \subseteq view[v]
               \/ \E i \in 1 .. Len(rest) : rest[i] = TransformView(v)
    <2>1. CASE load[l].began \subseteq load[l].view[v]
      BY <1>3, <1>4, <1>5, <2>1 DEF FreshKnows
    <2>2. ASSUME NEW i \in 1 .. Len(load[l].todo),
                 load[l].todo[i] = TransformView(v)
          PROVE  \/ s.began \subseteq view[v]
                 \/ \E j \in 1 .. Len(rest) : rest[j] = TransformView(v)
      <3>1. CASE i = 1
        <4>1. object[2] = v
          BY <1>2, <2>2, <3>1 DEF TransformView
        <4>2. view[v] = load[l].snapshot
          BY <1>2, <4>1
        <4> QED BY <1>3, <1>4, <4>2 DEF FreshKnows
      <3>2. CASE i # 1
        <4>1. i - 1 \in 1 .. Len(rest) /\ rest[i - 1] = TransformView(v)
          BY <1>2, <2>2, <3>2
        <4> QED BY <4>1
      <3> QED BY <3>1, <3>2
    <2> QED BY <1>4, <2>1, <2>2 DEF FreshKnows
  <1>7. rest = <<>> => ~ \E i \in 1 .. Len(rest) : TRUE
    <2> HIDE DEF rest
    <2> QED OBVIOUS
  <1>8. load' = [load EXCEPT ![l] = s] /\ LoadOnly
    BY DEF Refresh
  <1> HIDE DEF s, view, rest, object
  <1>9. FreshKnows(s, xmlFile)
    BY <1>3, <1>4, <1>5, <1>6, <1>7 DEF FreshKnows
  <1> QED BY <1>8, <1>9, LoadFreshens

LEMMA LoadStepIsFresh ==
  ASSUME Inv, Fresh, NEW l \in Load, LoadStep(l)
  PROVE  Fresh'
  <1>1. load[l] \in LoadState /\ LoadKnows(load[l], locks[l], mapping)
        /\ FreshKnows(load[l], xmlFile)
    BY DEF Inv, TypeOK, LoadInv, Fresh
  <1>2. CASE Begin(l)
    <2> DEFINE s == [Off EXCEPT !.pc = "refresh", !.todo = order,
                                !.began = xmlFile]
    <2>1. PICK a, b \in {TransformView(v) : v \in View} :
            order = <<a, b>> /\ a # b
      BY DEF Inv, TypeOK, Orders
    <2>2. \A v \in View : \E i \in 1 .. Len(order) : order[i] = TransformView(v)
      <3>1. Len(order) = 2 /\ order[1] = a /\ order[2] = b
        BY <2>1
      <3> QED BY <2>1, <3>1 DEF View, TransformView
    <2>3. FreshKnows(s, xmlFile)
      BY <2>2 DEF FreshKnows, Off
    <2> QED BY <1>2, <2>3, LoadFreshens DEF Begin
  <1>3. CASE TakeSnapshot(l)
    <2> DEFINE s == [load[l] EXCEPT !.pc = "wait", !.snapshot = xmlFile]
    <2>1. FreshKnows(s, xmlFile)
      BY <1>1, <1>3 DEF FreshKnows, TakeSnapshot, LoadState
    <2> QED BY <1>3, <2>1, LoadFreshens DEF TakeSnapshot
  <1>4. CASE CloneSchema(l)
    <2> DEFINE s == [load[l] EXCEPT !.pc = "report"]
    <2>1. FreshKnows(s, xmlFile)
      BY <1>1, <1>4 DEF FreshKnows, CloneSchema, LoadState
    <2> QED BY <1>4, <2>1, LoadFreshens DEF CloneSchema
  <1>5. CASE LoadReport(l)
    <2> DEFINE s == [load[l] EXCEPT !.pc = "fuel",
                       !.report = FinalReport(load[l].view["report"])]
    <2>1. FreshKnows(s, xmlFile)
      BY <1>1, <1>5 DEF FreshKnows, LoadReport, LoadState
    <2> QED BY <1>5, <2>1, LoadFreshens DEF LoadReport
  <1>6. CASE LoadFuel(l)
    <2> DEFINE fuels == LoadedFuel(load[l].view["fuel"],
                                   load[l].view["report"], mapping)
               s == [load[l] EXCEPT !.pc = "history", !.fuel = fuels]
    <2>1. HasFuels(load[l].began, load[l].report, fuels)
      <3> SUFFICES ASSUME NEW f \in load[l].began \cap load[l].report,
                          NEW t \in FuelOf[f]
                   PROVE  \E x \in fuels : x.file = f /\ x.type = t
        BY DEF HasFuels
      <3>1. f \in load[l].view["fuel"] /\ load[l].report
              = FinalReport(load[l].view["report"])
        BY <1>1, <1>6 DEF FreshKnows, LoadKnows, LoadFuel, View
      <3>2. f \in File /\ t \in FuelType
        BY <3>1, FinalReportType, DataAssumption
      <3> DEFINE x == [file |-> f, type |-> t, mapped |-> (t \in mapping)]
      <3>3. x \in FuelRow /\ x.file = f /\ x.type = t
            /\ x.mapped = (t \in mapping)
        <4>1. (t \in mapping) \in BOOLEAN
          OBVIOUS
        <4> QED BY <3>2, <4>1, Zenon DEF FuelRow
      <3>4. x \in fuels
        BY <3>1, <3>3 DEF LoadedFuel
      <3> QED BY <3>3, <3>4
    <2>2. /\ s.began = load[l].began /\ s.snapshot = load[l].snapshot
          /\ s.history = load[l].history /\ s.view = load[l].view
          /\ s.report = load[l].report /\ s.fuel = fuels /\ s.pc = "history"
      BY <1>1 DEF LoadState
    <2>3. load' = [load EXCEPT ![l] = s] /\ LoadOnly /\ load[l].pc = "fuel"
      BY <1>6 DEF LoadFuel
    <2> HIDE DEF s, fuels
    <2>4. FreshKnows(s, xmlFile)
      BY <1>1, <2>1, <2>2, <2>3 DEF FreshKnows
    <2> QED BY <2>3, <2>4, LoadFreshens
  <1>7. CASE LoadHistory(l)
    <2> DEFINE s == [load[l] EXCEPT !.pc = "views",
                                    !.history = load[l].view["report"],
                                    !.view = [v \in View |-> {}]]
    <2>1. /\ s.began = load[l].began /\ s.snapshot = load[l].snapshot
          /\ s.history = load[l].view["report"] /\ s.view = [v \in View |-> {}]
          /\ s.report = load[l].report /\ s.fuel = load[l].fuel
          /\ s.pc = "views" /\ load[l].pc = "history"
      BY <1>1, <1>7 DEF LoadState, LoadHistory
    <2>2. load' = [load EXCEPT ![l] = s] /\ LoadOnly
      BY <1>7 DEF LoadHistory
    <2> HIDE DEF s
    <2>3. FreshKnows(s, xmlFile)
      BY <1>1, <2>1 DEF FreshKnows, View
    <2> QED BY <2>2, <2>3, LoadFreshens
  <1>8. CASE FindViews(l)
    <2>1. PICK t : load' = [load EXCEPT ![l] =
                     [load[l] EXCEPT !.pc = "drop", !.direct = views \cap Direct,
                                     !.todo = t]]
      BY <1>8 DEF FindViews
    <2> DEFINE s == [load[l] EXCEPT !.pc = "drop", !.direct = views \cap Direct,
                                    !.todo = t]
    <2>2. FreshKnows(s, xmlFile)
      BY <1>1, <1>8 DEF FreshKnows, FindViews, LoadState
    <2> QED BY <1>8, <2>1, <2>2, LoadFreshens DEF FindViews
  <1>9. CASE LockForDrop(l)
    <2> DEFINE s == [load[l] EXCEPT !.todo = Tail(@)]
    <2>1. FreshKnows(s, xmlFile)
      BY <1>1, <1>9 DEF FreshKnows, LockForDrop, LoadState
    <2> QED BY <1>9, <2>1, LoadFreshens DEF LockForDrop
  <1>10. CASE Commit(l) \/ RecreateFails(l)
    <2>1. \A k \in Load : load'[k] = load[k] \/ load'[k] = Off
      BY <1>10 DEF Commit, RecreateFails, RollBack, Inv, TypeOK
    <2>2. xmlFile' = xmlFile
      BY <1>10 DEF Commit, RecreateFails, RollBack
    <2> QED BY <2>1, <2>2, FreshMoves DEF Fresh
  <1> QED BY <1>2, <1>3, <1>4, <1>5, <1>6, <1>7, <1>8, <1>9, <1>10,
             RefreshIsFresh DEF LoadStep

LEMMA FreshHolds == Spec => []Fresh
  <1>1. Init => Fresh
    BY OffIsFresh, FS_EmptySet DEF Init, Fresh
  <1>2. Inv /\ Fresh /\ [Next]_vars => Fresh'
    <2> SUFFICES ASSUME Inv, Fresh, [Next]_vars
                 PROVE  Fresh'
      OBVIOUS
    <2>1. ASSUME xmlFile' = xmlFile,
                 \A l \in Load : load'[l] = load[l] \/ load'[l] = Off
          PROVE  Fresh'
      BY <2>1, FreshMoves DEF Fresh
    <2>2. ASSUME NEW f \in File, Extract(f)
          PROVE  Fresh'
      <3>1. IsFiniteSet(xmlFile \cup {f})
        BY FS_AddElement DEF Fresh
      <3> QED BY <2>2, <3>1, FreshMoves DEF Extract
    <2>3. ASSUME NEW v \in Direct \cup Indirect, CreateView(v)
          PROVE  Fresh'
      BY <2>1, <2>3 DEF CreateView
    <2>4. ASSUME NEW e \in Editor, EditorStep(e)
          PROVE  Fresh'
      BY <2>1, <2>4 DEF EditorStep, StartCascade, InsertMapping,
         InsertDuplicate, UpdateFuel, EditorOnly
    <2>5. ASSUME NEW t \in FuelType, SetDetail(t)
          PROVE  Fresh'
      BY <2>1, <2>5 DEF SetDetail, EditorOnly
    <2>6. ASSUME NEW r \in Reader, ReaderStep(r)
          PROVE  Fresh'
      BY <2>1, <2>6 DEF ReaderStep, Ask, Read, Respond, ReaderOnly
    <2>7. ASSUME NEW x \in Transaction, Abort(x) \/ BreakDeadlock(x)
          PROVE  Fresh'
      <3>1. RollBack(x)
        BY <2>7 DEF Abort, BreakDeadlock
      <3> QED BY <2>1, <3>1 DEF RollBack, Inv, TypeOK
    <2>8. CASE UNCHANGED vars
      BY <2>1, <2>8 DEF vars
    <2> QED BY <2>2, <2>3, <2>4, <2>5, <2>6, <2>7, <2>8, LoadStepIsFresh
               DEF Next
  <1> QED BY <1>1, <1>2, InvHolds, PTL DEF Spec

-----------------------------------------------------------------------------
(* The theorems *)

(* The tables, the states of the transactions and their locks keep their   *)
(* types, whatever the loads, the editors and the requests do.             *)
THEOREM TypeCorrect == Spec => []TypeOK
  <1>1. Inv => TypeOK
    BY DEF Inv
  <1>2. QED
    BY <1>1, InvHolds, PTL

(* A fuel carries the id of the mapping of its type exactly if there is    *)
(* one: no edit is lost between load_fuel and the swap, however many loads *)
(* and editors there are, because the foreign key that clone_schema adds   *)
(* locks the edits out until the load commits.                             *)
THEOREM FuelsLinked == Spec => []FuelsAreLinked
  <1>1. Inv => FuelsAreLinked
    BY DEF Inv, Computed, LoadedFuel, FuelsAreLinked
  <1>2. QED
    BY <1>1, InvHolds, PTL

(* Each type the page of unmapped fuels lists has no detail, and is listed *)
(* with a mapping exactly if it has one, so that the page updates what is  *)
(* there and creates what is not.                                          *)
THEOREM UnmappedIsRight == Spec => []UnmappedCanBeMapped
  <1>1. ASSUME Inv, NEW u \in UnmappedFuel
        PROVE  u[1] \notin detail /\ u[2] = (u[1] \in mapping)
    <2>1. PICK x \in fuel :
            /\ u = <<x.type, x.mapped>>
            /\ x.type \notin mapping \/ ~x.mapped \/ x.type \notin detail
      BY DEF UnmappedFuel
    <2>2. x.mapped = (x.type \in mapping)
      BY <1>1 DEF Inv, Computed, LoadedFuel
    <2>3. u[1] \notin detail
      BY <1>1, <2>1, <2>2 DEF Inv, TypeOK
    <2>4. u[1] = x.type /\ u[2] = x.mapped
      BY <2>1
    <2>5. u[2] = (u[1] \in mapping)
      BY <2>2, <2>4, Zenon
    <2>6. QED
      BY <2>3, <2>5
  <1>2. Inv => UnmappedCanBeMapped
    BY <1>1 DEF UnmappedCanBeMapped
  <1>3. QED
    BY <1>2, InvHolds, PTL

(* The live tables agree: one report per facility and year, no fuel of a   *)
(* report that is not live, no live report that is not in the history,     *)
(* whatever arrives while loads refresh their views in any order.          *)
THEOREM TablesAgree == Spec => []LiveTablesAgree
  <1>1. ASSUME Inv
        PROVE  LiveTablesAgree
    <2>1. PICK seen \in SUBSET File : fuel = LoadedFuel(seen, history, mapping)
      BY <1>1 DEF Inv, Computed
    <2>2. report = FinalReport(history)
      BY <1>1 DEF Inv, Computed
    <2>3. \A f, g \in report : KeyOf[f] = KeyOf[g] => f = g
      BY <2>2, OneFinalReport
    <2>4. \A x \in fuel : x.file \in report
      BY <2>1, <2>2 DEF LoadedFuel
    <2>5. report \subseteq history
      BY <2>2 DEF FinalReport
    <2>6. QED
      BY <2>3, <2>4, <2>5 DEF LiveTablesAgree
  <1>2. QED
    BY <1>1, InvHolds, PTL

(* What one request reads of the live schemas is of one load.              *)
THEOREM OneLoad == Spec => []RequestSeesOneLoad
  <1>1. Inv => RequestSeesOneLoad
    BY DEF Inv, ReaderInv, RequestSeesOneLoad
  <1>2. QED
    BY <1>1, InvHolds, PTL

(* When a load commits, every file that was extracted when it began is in  *)
(* the history, the last report of each facility and year, or a later one, *)
(* is live, and a live report has all its fuels: whatever the order of the *)
(* refreshes, and however many files arrive meanwhile.                     *)
THEOREM LoadsAreFresh == Spec => LoadIsFresh
  <1>1. ASSUME Inv, Fresh, NEW l \in Load, Commit(l)
        PROVE  /\ load[l].began \subseteq history'
               /\ \A f \in load[l].began \cap Reportable :
                    /\ \E g \in report' :
                         KeyOf[g] = KeyOf[f] /\ Rank[g] >= Rank[f]
                    /\ f \in report' => \A t \in FuelOf[f] :
                         \E x \in fuel' : x.file = f /\ x.type = t
    <2>1. /\ report' = load[l].report /\ fuel' = load[l].fuel
          /\ history' = load[l].history
          /\ load[l].pc = "drop" /\ load[l].todo = <<>>
      BY <1>1 DEF Commit
    <2>2. load[l] \in LoadState /\ FreshKnows(load[l], xmlFile)
      BY <1>1 DEF Inv, TypeOK, Fresh
    <2>3. report' = FinalReport(history')
      BY <1>1, <2>1, ReadyToCommit DEF Computed
    <2>4. history' \in SUBSET File /\ IsFiniteSet(history')
      BY <1>1, <2>1, <2>2, FS_Subset DEF FreshKnows, LoadState, Fresh
    <2>5. load[l].began \subseteq history'
          /\ HasFuels(load[l].began, report', fuel')
      BY <2>1, <2>2 DEF FreshKnows
    <2>6. ASSUME NEW f \in load[l].began \cap Reportable
          PROVE  \E g \in report' : KeyOf[g] = KeyOf[f] /\ Rank[g] >= Rank[f]
      BY <2>3, <2>4, <2>5, LastIsFinal
    <2> QED BY <2>5, <2>6 DEF HasFuels
  <1>2. Inv /\ Fresh =>
          [\A l \in Load : Commit(l) =>
             /\ load[l].began \subseteq history'
             /\ \A f \in load[l].began \cap Reportable :
                  /\ \E g \in report' : KeyOf[g] = KeyOf[f] /\ Rank[g] >= Rank[f]
                  /\ f \in report' => \A t \in FuelOf[f] :
                       \E x \in fuel' : x.file = f /\ x.type = t]_vars
    BY <1>1
  <1> QED BY <1>2, InvHolds, FreshHolds, PTL DEF LoadIsFresh

(* Each step of the system is, for who looks at the live tables only, a    *)
(* publication, an edit, or nothing.                                       *)
LEMMA StepRefines ==
  ASSUME Inv, [Next]_vars
  PROVE  [Live!Next]_(Live!live)
  <1>1. ASSUME NEW l \in Load, Commit(l)
        PROVE  Live!Next
    <2>1. Computed(load[l].report, load[l].fuel, load[l].history, mapping)
      BY <1>1, ReadyToCommit DEF Commit
    <2>2. PICK seen \in SUBSET File :
            load[l].fuel = LoadedFuel(seen, load[l].history, mapping)
      BY <2>1 DEF Computed
    <2>3. load[l].history \in SUBSET File
      BY DEF Inv, TypeOK, LoadState
    <2>4. Live!Publish(load[l].history, seen)
      BY <1>1, <2>1, <2>2 DEF Commit, Computed, Live!Publish, FinalReport,
         LoadedFuel, Live!FinalReport, Live!LoadedFuel, FuelRow, Live!FuelRow
    <2>5. QED
      BY <2>3, <2>4 DEF Live!Next
  <1>2. ASSUME NEW e \in Editor, UpdateFuel(e)
        PROVE  Live!Next
    <2>1. editor[e].type \in FuelType \ mapping
      BY <1>2 DEF Inv, EditorInv, UpdateFuel
    <2>2. Live!MapFuelType(editor[e].type)
      BY <1>2, <2>1 DEF UpdateFuel, EditorOnly, Live!MapFuelType, Linked,
         Live!Linked
    <2>3. QED
      BY <2>1, <2>2 DEF Live!Next
  <1>3. ASSUME NEW t \in FuelType, SetDetail(t)
        PROVE  Live!Next
    <2>1. Live!SetDetail(t)
      BY <1>3 DEF SetDetail, EditorOnly, Live!SetDetail
    <2>2. QED
      BY <2>1 DEF Live!Next
  <1>4. ASSUME NEW l \in Load, LoadStep(l), ~Commit(l)
        PROVE  UNCHANGED live
    BY <1>4 DEF LoadStep, Begin, TakeSnapshot, Refresh, CloneSchema, LoadReport,
       LoadFuel, LoadHistory, FindViews, LockForDrop, RecreateFails, RollBack,
       LoadOnly
  <1>5. ASSUME NEW e \in Editor, EditorStep(e), ~UpdateFuel(e)
        PROVE  UNCHANGED live
    BY <1>5 DEF EditorStep, StartCascade, InsertMapping, InsertDuplicate,
       EditorOnly, live
  <1>6. ASSUME NEW r \in Reader, ReaderStep(r)
        PROVE  UNCHANGED live
    BY <1>6 DEF ReaderStep, Ask, Read, Respond, ReaderOnly
  <1>7. ASSUME NEW x \in Transaction, Abort(x) \/ BreakDeadlock(x)
        PROVE  UNCHANGED live
    BY <1>7 DEF Abort, BreakDeadlock, RollBack
  <1>8. ASSUME NEW f \in File, Extract(f)
        PROVE  UNCHANGED live
    BY <1>8 DEF Extract
  <1>9. ASSUME NEW v \in Direct \cup Indirect, CreateView(v)
        PROVE  UNCHANGED live
    BY <1>9 DEF CreateView
  <1>10. UNCHANGED vars => UNCHANGED live
    BY DEF vars
  <1>11. UNCHANGED live => UNCHANGED Live!live
    BY DEF live, Live!live
  <1>12. QED
    BY <1>1, <1>2, <1>3, <1>4, <1>5, <1>6, <1>7, <1>8, <1>9, <1>10, <1>11
    DEF Next

(* The load transaction, with its locks and intermediate tables, among all *)
(* that runs at the same time, implements the specification in which the   *)
(* live tables are replaced in one step.                                   *)
THEOREM LoadIsAtomic == Spec => ImplementsLiveData
  <1>1. Init => Live!Init
    BY DEF Init, Live!Init
  <1>2. Inv /\ [Next]_vars => [Live!Next]_(Live!live)
    BY StepRefines
  <1>3. QED
    BY <1>1, <1>2, InvHolds, PTL DEF Spec, ImplementsLiveData, Live!Spec
=============================================================================
