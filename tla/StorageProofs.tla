---------------------------- MODULE StorageProofs ----------------------------
(***************************************************************************)
(* What the two files and their backups keep, for every bound on updates,  *)
(* failing calls, kills and power losses.                                  *)
(*                                                                         *)
(* None of the properties is inductive.  That a boot finds a primary says  *)
(* nothing of what a power loss leaves, nor of which file a recovery has   *)
(* moved aside.  The first invariant says that, once an update has         *)
(* succeeded, one damage can have touched one file only: the other one is  *)
(* valid both on the disk and in what a power loss leaves, and no recovery *)
(* works on it.  This begins with the first successful update, whose fsync *)
(* makes everything durable; so the invariant also follows the files a     *)
(* boot has loaded up to that point.                                       *)
(*                                                                         *)
(* The second invariant adds the contents: how much of what the callers    *)
(* were told each slot holds, on the disk and after a power loss, and what *)
(* the write or the recovery under way has in its hands.                   *)
(***************************************************************************)
EXTENDS Storage, TLAPS

Loading == {"load", "create", "move", "recover", "restore"}
Writing == {"read", "backup", "write"}
Moving == {"move", "recover", "restore"}

\* How the fields of the process go together.
Shape ==
    /\ proc.mode \in {"down", "diagnostic"} =>
          proc.at = "none" /\ \A f \in Files : proc.value[f] = Missing
    /\ proc.mode = "running" =>
          proc.at \in {"none"} \cup Writing /\ \A f \in Files : proc.value[f] # Missing
    /\ proc.mode = "booting" =>
          \/ /\ proc.at \in Loading /\ proc.stage = 1 /\ proc.file = "settings"
             /\ \A f \in Files : proc.value[f] = Missing
          \/ /\ proc.at \in Loading /\ proc.stage = 2 /\ proc.file = "state"
             /\ proc.value["settings"] # Missing /\ proc.value["state"] = Missing
          \/ /\ proc.at \in {"upgrade"} \cup Writing /\ proc.stage \in {3, 4}
             /\ \A f \in Files : proc.value[f] # Missing
    /\ proc.renamed => proc.at \in {"create", "move", "restore", "backup", "write"}
    /\ proc.at = "create" => proc.create

\* The files this process has loaded, or has just put in place to load them.
Accounted(f) ==
    \/ proc.value[f] # Missing
    \/ proc.file = f /\ proc.renamed /\ proc.at \in {"create", "restore"}

Held(f) == Valid(disk[f]["primary"])
Durable(f) == Held(f) /\ Valid(synced[f]["primary"])

LoadedHeld ==
    /\ count["damage"] = 0 => (\A f \in Files : Accounted(f) => Held(f))
    /\ count["damage"] = 1 =>
          ((\A f \in Files : Accounted(f)) => \E f \in Files : Held(f))

\* Once an update has succeeded.
UsedHeld ==
    told.inUse =>
        /\ count["damage"] = 0 => proc.at \notin Moving /\ \A f \in Files : Durable(f)
        /\ count["damage"] = 1 =>
              \E f \in Files : Durable(f) /\ (proc.at \in Moving => proc.file # f)
        /\ count["damage"] <= 1 /\ proc.mode = "booting" => ~proc.create

IInv == TypeOK /\ Shape /\ LoadedHeld /\ UsedHeld

\* A fresh directory, or what an earlier release has left, satisfies the invariant.
LEMMA InitEstablishesIInv == Init => IInv
<1> SUFFICES ASSUME Init PROVE IInv
  OBVIOUS
<1>1. /\ disk \in Disk /\ synced = disk
      /\ told.inUse => \A f \in Files : disk[f]["primary"] = [data |-> 0, schema |-> 1]
  <2>1. CASE disk = [f \in Files |-> Fresh(f)]
    <3>1. disk \in Disk
      BY <2>1 DEF Disk, Slot, Fresh
    <3> QED
      BY <2>1, <3>1 DEF Init
  <2>2. CASE disk = [f \in Files |-> Old(f)]
    <3>1. \A f \in Files : Old(f) \in [Parts -> Slot]
      BY DEF Slot, Content, Old
    <3>2. \A f \in Files : disk[f]["primary"] = [data |-> 0, schema |-> 1]
      BY <2>2 DEF Old, Parts
    <3> QED
      BY <2>2, <3>1, <3>2 DEF Init, Disk
  <2> QED
    BY <2>1, <2>2 DEF Init
<1>2. [data |-> 0, schema |-> 1] \in Content /\ Factory \in Content
  BY DEF Content, Factory
<1>3. Down \in Process
  BY <1>2 DEF Down, Process, Files, Calls
<1>4. TypeOK
  BY <1>1, <1>3 DEF Init, TypeOK, Promises
<1>5. Shape
  BY DEF Init, Shape, Down
<1>6. LoadedHeld
  BY DEF Init, LoadedHeld, Accounted, Down, Kinds, Files
<1>7. UsedHeld
  BY <1>1, <1>2 DEF Init, UsedHeld, Durable, Held, Valid, Down, Kinds, Moving
<1> QED
  BY <1>4, <1>5, <1>6, <1>7 DEF IInv

-----------------------------------------------------------------------------
(* The steps of the process alone: the disk stays as it is. *)

\* What the end of a stage of initialize changes: the stage, and with the last
\* stage the mode.
LEMMA ProceedFacts ==
    ASSUME NEW p \in Process, NEW q, q = Proceed(p)
    PROVE  /\ q \in Process /\ q.value = p.value /\ q.create = p.create
           /\ q.renamed = p.renamed
           /\ \/ p.stage \in {2, 4} /\ q.mode = "running" /\ q.at = "none"
              \/ /\ q.mode = p.mode /\ q.stage = p.stage + 1
                 /\ \/ q.stage = 2 /\ q.at = "load" /\ q.file = "state"
                    \/ q.stage \in {3, 4} /\ q.at = "upgrade"
<1>1. p.stage \in 1..4
  BY DEF Process
<1>2. CASE p.stage = 4 \/ (p.stage = 2 /\ p.create)
  <2>1. q = [p EXCEPT !.mode = "running", !.at = "none"]
    BY <1>2 DEF Proceed
  <2>2. q \in Process
    BY <2>1 DEF Process, Calls
  <2>3. /\ q.mode = "running" /\ q.at = "none" /\ q.value = p.value
        /\ q.create = p.create /\ q.renamed = p.renamed
    BY <2>1 DEF Process
  <2> QED
    BY <1>2, <2>2, <2>3
<1>3. CASE ~(p.stage = 4 \/ (p.stage = 2 /\ p.create))
  <2> DEFINE s == Stages[p.stage + 1]
  <2>1. q = [p EXCEPT !.stage = p.stage + 1, !.at = s.call, !.file = s.file]
    BY <1>3 DEF Proceed, Process
  <2>2. p.stage + 1 \in {2, 3, 4}
    BY <1>1, <1>3
  <2>3. /\ p.stage + 1 = 2 => s.call = "load" /\ s.file = "state"
        /\ p.stage + 1 \in {3, 4} => s.call = "upgrade" /\ s.file \in Files
    BY <2>2 DEF Stages, Files
  <2> HIDE DEF s
  <2>4. s.call \in Calls /\ s.file \in Files
    BY <2>2, <2>3 DEF Files, Calls
  <2>5. q \in Process
    <3>1. p.stage + 1 \in 1..4
      BY <2>2
    <3> QED
      BY <2>1, <2>4, <3>1 DEF Process
  <2> QED
    BY <2>1, <2>2, <2>3, <2>5 DEF Process
<1> QED
  BY <1>2, <1>3

\* What is a content and what is not, and the process that is not running.
LEMMA ConstantFacts ==
    /\ Factory \in Content /\ Missing \notin Content /\ Corrupt \notin Content
    /\ Down \in Process /\ [Down EXCEPT !.mode = "diagnostic"] \in Process
    /\ \A c \in Content : Decoded(c) \in Content /\ Decoded(c).data = c.data
    /\ "damage" \in Kinds
<1>1. Factory \in Content
  BY DEF Content, Factory
<1>2. Down \in Process
  BY <1>1 DEF Down, Process, Files, Calls
<1>3. [Down EXCEPT !.mode = "diagnostic"] \in Process
  BY <1>2 DEF Process
<1>4. \A c \in Content : Decoded(c) \in Content /\ Decoded(c).data = c.data
  BY DEF Decoded, Content
<1> QED
  BY <1>1, <1>2, <1>3, <1>4, SlotAssumption DEF Kinds

\* Files in place when the process ends stay in place.
LEMMA EndKeepsIInv ==
    ASSUME IInv, proc' \in {Down, [Down EXCEPT !.mode = "diagnostic"]}, told' = told,
           disk' \in Disk, synced' \in Disk, \A f \in Files : Durable(f) => Durable(f)',
           count' \in [Kinds -> Nat], count'["damage"] >= count["damage"]
    PROVE  IInv'
<1>1. TypeOK'
  BY ConstantFacts DEF IInv, TypeOK
<1>2. /\ proc'.mode \in {"down", "diagnostic"} /\ proc'.at = "none" /\ ~proc'.renamed
      /\ \A f \in Files : proc'.value[f] = Missing
  BY DEF Down
<1>3. Shape'
  BY <1>2 DEF Shape
<1>4. LoadedHeld'
  BY <1>2 DEF LoadedHeld, Accounted, Files
<1>5. count["damage"] \in Nat /\ count'["damage"] \in Nat
  BY ConstantFacts DEF IInv, TypeOK
<1>6. UsedHeld'
  <2> SUFFICES ASSUME told.inUse, count'["damage"] \in {0, 1}
               PROVE  /\ count'["damage"] = 0 => \A f \in Files : Durable(f)'
                      /\ count'["damage"] = 1 => \E f \in Files : Durable(f)'
    BY <1>2, <1>5 DEF UsedHeld, Moving
  <2>1. count["damage"] = 0 \/ (count["damage"] = 1 /\ count'["damage"] = 1)
    BY <1>5
  <2> QED
    BY <2>1 DEF IInv, UsedHeld, Files
<1> QED
  BY <1>1, <1>3, <1>4, <1>6 DEF IInv

\* One more event of a kind.
LEMMA HappensFacts ==
    ASSUME TypeOK, NEW kind \in Kinds, Happens(kind)
    PROVE  /\ count' \in [Kinds -> Nat]
           /\ count'["damage"] = IF kind = "damage" THEN count["damage"] + 1
                                                    ELSE count["damage"]
           /\ count["damage"] \in Nat
BY ConstantFacts DEF TypeOK, Happens

\* An exception, during an update or during a boot.
LEMMA RaiseKeepsIInv ==
    ASSUME IInv, Raise, proc.mode \in {"booting", "running"}, UNCHANGED <<disk, synced, told>>,
           count' \in [Kinds -> Nat], count'["damage"] = count["damage"]
    PROVE  IInv'
<1>1. count["damage"] \in Nat
  BY ConstantFacts DEF IInv, TypeOK
<1>2. CASE proc.mode = "running"
  <2>1. proc' = [proc EXCEPT !.at = "none", !.renamed = FALSE]
    BY <1>2 DEF Raise
  <2>2. TypeOK'
    BY <2>1 DEF IInv, TypeOK, Process, Calls
  <2>3. /\ proc'.mode = "running" /\ proc'.at = "none" /\ ~proc'.renamed
        /\ proc'.value = proc.value
    BY <1>2, <2>1 DEF IInv, TypeOK, Process
  <2>4. \A f \in Files : proc.value[f] # Missing
    BY <1>2 DEF IInv, Shape
  <2>5. Shape'
    BY <2>3, <2>4 DEF Shape
  <2>6. LoadedHeld'
    BY <2>3, <2>4 DEF IInv, LoadedHeld, Accounted, Held
  <2>7. UsedHeld'
    BY <2>3 DEF IInv, UsedHeld, Durable, Held, Moving
  <2> QED
    BY <2>2, <2>5, <2>6, <2>7 DEF IInv
<1>3. CASE proc.mode # "running"
  <2>1. proc' = Down
    BY <1>3 DEF Raise
  <2> QED
    BY <1>1, <2>1, EndKeepsIInv DEF IInv, TypeOK, Durable, Held
<1> QED
  BY <1>2, <1>3

\* Calls that fail, kills and power losses.
LEMMA DisasterKeepsIInv ==
    ASSUME IInv, CallFails \/ ReadFails \/ Kill \/ PowerLoss PROVE IInv'
<1> TypeOK /\ Shape
  BY DEF IInv
<1>1. CASE CallFails
  <2>1. proc.mode \in {"booting", "running"}
    BY <1>1 DEF CallFails, Shape, TypeOK, Process
  <2>2. count' \in [Kinds -> Nat] /\ count'["damage"] = count["damage"]
    BY <1>1, HappensFacts DEF CallFails, Kinds
  <2> QED
    BY <1>1, <2>1, <2>2, RaiseKeepsIInv DEF CallFails
<1>2. CASE ReadFails
  <2>1. proc.mode \in {"booting", "running"}
    BY <1>2 DEF ReadFails, Shape, TypeOK, Process
  <2> QED
    BY <1>2, <2>1, RaiseKeepsIInv DEF ReadFails, TypeOK
<1>3. CASE Kill
  <2>1. /\ count' \in [Kinds -> Nat] /\ count'["damage"] = count["damage"]
        /\ count["damage"] \in Nat
    BY <1>3, HappensFacts DEF Kill, Kinds
  <2> QED
    BY <1>3, <2>1, EndKeepsIInv DEF Kill, TypeOK, Durable, Held
<1>4. CASE PowerLoss
  <2>1. /\ count' \in [Kinds -> Nat] /\ count'["damage"] = count["damage"]
        /\ count["damage"] \in Nat
    BY <1>4, HappensFacts DEF PowerLoss, Kinds
  <2>2. PICK kept \in SUBSET (Files \X Parts) :
          disk' = [f \in Files |-> [p \in Parts |->
                     IF <<f, p>> \in kept THEN disk[f][p] ELSE synced[f][p]]]
    BY <1>4 DEF PowerLoss
  <2>3. \A f \in Files, p \in Parts : disk'[f][p] \in {disk[f][p], synced[f][p]}
    BY <2>2
  <2>4. disk' \in Disk
    BY <2>2 DEF TypeOK, Disk
  <2>5. synced' = disk' /\ proc' = Down /\ told' = told
    BY <1>4 DEF PowerLoss
  <2>6. \A f \in Files : Durable(f) => Durable(f)'
    BY <2>3, <2>5 DEF Durable, Held, Valid, Parts
  <2> QED
    BY <2>1, <2>4, <2>5, <2>6, EndKeepsIInv
<1> QED
  BY <1>1, <1>2, <1>3, <1>4

\* One file decays: the other one is untouched.
LEMMA DecayKeepsIInv ==
    ASSUME IInv, NEW f \in Files, NEW p \in Parts, Decay(f, p) PROVE IInv'
<1> TypeOK /\ Shape
  BY DEF IInv
<1>1. /\ proc' = proc /\ told' = told
      /\ disk' = [disk EXCEPT ![f][p] = Corrupt]
      /\ synced' = [synced EXCEPT ![f][p] = IF @ = disk[f][p] THEN Corrupt ELSE @]
  BY DEF Decay
<1>2. count' \in [Kinds -> Nat] /\ count'["damage"] = count["damage"] + 1 /\ count["damage"] \in Nat
  BY HappensFacts DEF Decay, Kinds
<1>3. \A g \in Files : g # f => disk'[g] = disk[g] /\ synced'[g] = synced[g]
  BY <1>1 DEF TypeOK, Disk
<1>4. \A g \in Files : g # f => (Held(g) => Held(g)') /\ (Durable(g) => Durable(g)')
  BY <1>3 DEF Held, Durable
<1>5. \E g \in Files : g # f
  BY DEF Files
<1>6. Corrupt \in Slot
  BY DEF Slot
<1>7. disk' \in Disk /\ synced' \in Disk
  BY <1>1, <1>6 DEF TypeOK, Disk
<1>8. TypeOK'
  BY <1>1, <1>2, <1>7 DEF TypeOK
<1>9. Shape'
  BY <1>1 DEF Shape
<1>10. LoadedHeld'
  BY <1>1, <1>2, <1>4, <1>5 DEF IInv, LoadedHeld, Accounted
<1>11. UsedHeld'
  BY <1>1, <1>2, <1>4, <1>5 DEF IInv, UsedHeld
<1> QED
  BY <1>8, <1>9, <1>10, <1>11 DEF IInv

-----------------------------------------------------------------------------
(* The steps of a boot that leave the disk as it is. *)

\* A boot that finds one file of the two refuses to go on; one that creates
\* files has found neither, so nothing was in use.
LEMMA BootKeepsIInv == ASSUME IInv, Boot PROVE IInv'
<1> TypeOK /\ Shape
  BY DEF IInv
<1>1. UNCHANGED <<disk, synced, count, told>> /\ count["damage"] \in Nat
  BY ConstantFacts DEF Boot, TypeOK
<1>2. CASE BootRefused /\ EnterDiagnostic
  BY <1>1, <1>2, EndKeepsIInv DEF EnterDiagnostic, TypeOK, Durable, Held
<1>3. CASE ~BootRefused /\ proc' = [Down EXCEPT !.mode = "booting", !.at = "load",
                                               !.create = ~Exists("settings")]
  <2>1. /\ proc'.mode = "booting" /\ proc'.at = "load" /\ proc'.stage = 1
        /\ proc'.file = "settings" /\ ~proc'.renamed
        /\ proc'.create = ~Exists("settings")
        /\ \A f \in Files : proc'.value[f] = Missing
    BY <1>3 DEF Down
  <2>2. (~Exists("settings")) \in BOOLEAN
    BY Zenon DEF Exists
  <2>3. proc' \in Process
    BY <1>3, <2>2, ConstantFacts DEF Process, Calls
  <2>4. TypeOK'
    BY <1>1, <2>3 DEF TypeOK
  <2>5. Shape'
    BY <2>1 DEF Shape, Loading
  <2>6. LoadedHeld'
    BY <2>1 DEF LoadedHeld, Accounted, Files
  <2>7. told.inUse /\ count["damage"] <= 1 => \E f \in Files : Held(f)
    BY <1>1 DEF IInv, UsedHeld, Durable, Files
  <2>8. (\E f \in Files : Held(f)) => Exists("settings")
    BY <1>3, ConstantFacts DEF Held, Valid, Exists, BootRefused, Files
  <2>9. UsedHeld'
    BY <1>1, <2>1, <2>7, <2>8 DEF IInv, UsedHeld, Durable, Held, Moving
  <2> QED
    BY <2>4, <2>5, <2>6, <2>9 DEF IInv
<1> QED
  BY <1>2, <1>3 DEF Boot

\* A load ends with the file's value in memory and the next stage.
LEMMA LoadedFacts ==
    ASSUME TypeOK, Shape, proc.mode = "booting", proc.at \in Loading, NEW c \in Content, Loaded(c)
    PROVE  /\ proc'.value[proc.file] = Decoded(c) /\ Decoded(c) # Missing
           /\ \A f \in Files : f # proc.file => proc'.value[f] = proc.value[f]
           /\ proc'.create = proc.create /\ ~proc'.renamed
           /\ proc'.at \in {"load", "upgrade", "none"}
<1> DEFINE p == [proc EXCEPT !.value[proc.file] = Decoded(c), !.renamed = FALSE]
<1>1. p \in Process /\ Decoded(c) # Missing
  BY ConstantFacts DEF TypeOK, Process
<1>2. /\ p.create = proc.create /\ ~p.renamed
      /\ p.value = [proc.value EXCEPT ![proc.file] = Decoded(c)]
  BY DEF TypeOK, Process
<1>3. proc' = Proceed(p)
  BY DEF Loaded
<1> HIDE DEF p
<1> QED  BY <1>1, <1>2, <1>3, ProceedFacts DEF TypeOK, Process

\* A file that has been loaded is in its place, or has decayed since it was put
\* there.
LEMMA LoadedKeepsIInv ==
    ASSUME IInv, proc.mode = "booting", proc.at \in Loading,
           Held(proc.file) \/ Accounted(proc.file), NEW c \in Content, Loaded(c), disk' = disk, synced' \in {synced, disk},
           count' = count
    PROVE  IInv'
<1> TypeOK /\ Shape
  BY DEF IInv
<1> DEFINE p == [proc EXCEPT !.value[proc.file] = Decoded(c), !.renamed = FALSE]
<1>1. p \in Process
  BY ConstantFacts DEF TypeOK, Process
<1>2. /\ p.mode = "booting" /\ p.stage = proc.stage /\ p.create = proc.create /\ ~p.renamed
      /\ p.value = [proc.value EXCEPT ![proc.file] = Decoded(c)]
  BY DEF TypeOK, Process
<1>3. proc' = Proceed(p) /\ told'.inUse = told.inUse
  BY DEF Loaded, TypeOK, Promises
<1>4. told' \in Promises
  <2>1. c.data \in Nat
    BY DEF Content
  <2>2. \A m \in Nat : AtMost(m, c.data) \in Nat
    BY <2>1 DEF AtMost
  <2> QED
    BY <2>2 DEF Loaded, TypeOK, Promises, Process
<1> HIDE DEF p
<1>5. proc' \in Process
  BY <1>1, <1>3, ProceedFacts
<1>6. TypeOK'
  BY <1>4, <1>5 DEF TypeOK
<1>8. /\ proc'.value[proc.file] # Missing
      /\ \A f \in Files : f # proc.file => proc'.value[f] = proc.value[f]
  BY LoadedFacts
<1>9. /\ proc'.create = proc.create /\ ~proc'.renamed /\ proc'.at \notin Moving
      /\ proc'.at # "create"
  BY LoadedFacts DEF Moving
<1>10. Shape'
  <2>1. CASE proc.stage = 1
    <3>1. /\ proc.file = "settings" /\ proc'.mode = "booting" /\ proc'.stage = 2
          /\ proc'.at = "load" /\ proc'.file = "state"
      BY <1>1, <1>2, <1>3, <2>1, ProceedFacts DEF Shape, Loading, Writing
    <3> QED
      BY <1>8, <1>9, <2>1, <3>1 DEF Shape, Loading, Writing, Files
  <2>2. CASE proc.stage = 2
    <3>1. \A f \in Files : proc'.value[f] # Missing
      BY <1>8, <2>2 DEF Shape, Loading, Writing, Files
    <3>2. \/ proc'.mode = "running" /\ proc'.at = "none"
          \/ proc'.mode = "booting" /\ proc'.stage = 3 /\ proc'.at = "upgrade"
      BY <1>1, <1>2, <1>3, <2>2, ProceedFacts
    <3> QED
      BY <1>9, <3>1, <3>2 DEF Shape
  <2> QED
    BY <2>1, <2>2 DEF Shape, Loading, Writing
<1>11. \A f \in Files : Accounted(f)' => Accounted(f) \/ f = proc.file
  BY <1>8, <1>9 DEF Accounted
<1>12. LoadedHeld'
  BY <1>11 DEF IInv, LoadedHeld, Held, TypeOK, Process
<1>13. UsedHeld'
  BY <1>3, <1>9 DEF IInv, UsedHeld, Durable, Held
<1> QED
  BY <1>6, <1>10, <1>12, <1>13 DEF IInv

\* Reading one file: missing, valid or corrupt.
LEMMA LoadKeepsIInv == ASSUME IInv, LoadMissing \/ LoadValid \/ LoadCorrupt PROVE IInv'
<1> TypeOK /\ Shape
  BY DEF IInv
<1>1. count["damage"] \in Nat
  BY ConstantFacts DEF TypeOK
<1>2. /\ proc.at = "load" /\ proc.mode = "booting" /\ ~proc.renamed
      /\ proc.file \in Files /\ proc.value[proc.file] = Missing
  BY DEF LoadMissing, LoadValid, LoadCorrupt, Shape, TypeOK, Process, Writing
<1>3. CASE LoadMissing
  <2>1. CASE EnterDiagnostic
    BY <1>1, <1>3, <2>1, EndKeepsIInv DEF LoadMissing, EnterDiagnostic, TypeOK, Durable, Held
  <2>2. CASE proc.create /\ proc' = [proc EXCEPT !.at = "create", !.pending = Factory]
    <3>1. proc' \in Process
      BY <2>2, ConstantFacts DEF TypeOK, Process, Calls
    <3>2. /\ proc'.at = "create" /\ proc'.mode = proc.mode /\ proc'.stage = proc.stage
          /\ proc'.create = proc.create /\ proc'.renamed = proc.renamed
          /\ proc'.file = proc.file /\ proc'.value = proc.value
      BY <2>2 DEF TypeOK, Process
    <3> HIDE <2>2
    <3>3. UNCHANGED <<disk, synced, count, told>>
      BY <1>3 DEF LoadMissing
    <3>4. TypeOK'
      BY <3>1, <3>3 DEF TypeOK
    <3>5. Shape'
      BY <1>2, <2>2, <3>2 DEF Shape, Loading, Writing
    <3>6. LoadedHeld' /\ UsedHeld'
      BY <1>2, <3>2, <3>3 DEF IInv, LoadedHeld, UsedHeld, Accounted, Held, Durable, Moving
    <3> QED
      BY <3>4, <3>5, <3>6 DEF IInv
  <2> QED
    BY <1>3, <2>1, <2>2 DEF LoadMissing
<1>4. CASE LoadValid
  BY <1>2, <1>4, LoadedKeepsIInv DEF LoadValid, Loading, Held, Valid, Primary
<1>5. CASE LoadCorrupt
  <2>1. proc' = [proc EXCEPT !.at = "move"] /\ UNCHANGED <<disk, synced, told>>
    BY <1>5 DEF LoadCorrupt
  <2>2. \/ disk[proc.file]["primary"] = Corrupt /\ count' = count
        \/ count' \in [Kinds -> Nat] /\ count'["damage"] = count["damage"] + 1
    BY <1>5, HappensFacts DEF LoadCorrupt, Primary, Kinds
  <2>3. ~(disk[proc.file]["primary"] = Corrupt /\ Held(proc.file))
    BY ConstantFacts DEF Held, Valid
  <2>4. proc' \in Process
    BY <2>1 DEF TypeOK, Process, Calls
  <2>5. /\ proc'.at = "move" /\ proc'.mode = proc.mode /\ proc'.stage = proc.stage
        /\ proc'.create = proc.create /\ ~proc'.renamed
        /\ proc'.file = proc.file /\ proc'.value = proc.value
    BY <1>2, <2>1 DEF TypeOK, Process
  <2>6. TypeOK'
    BY <2>1, <2>2, <2>4 DEF TypeOK
  <2>7. Shape'
    BY <1>2, <2>5 DEF Shape, Loading, Writing
  <2>8. ~Accounted(proc.file)' /\ \A f \in Files : Accounted(f)' => Accounted(f)
    BY <1>2, <2>5 DEF Accounted
  <2>9. \A f \in Files : (Held(f)' <=> Held(f)) /\ (Durable(f)' <=> Durable(f))
    BY <2>1 DEF Held, Durable
  <2>10. LoadedHeld'
    BY <1>1, <1>2, <2>2, <2>5, <2>8, <2>9 DEF IInv, LoadedHeld
  <2>11. UsedHeld'
    <3>1. \E f \in Files : f # proc.file
      BY DEF Files
    <3>2. CASE disk[proc.file]["primary"] = Corrupt /\ count' = count
      <4>1. \A f \in Files : Durable(f) => f # proc.file
        BY <2>3, <3>2 DEF Durable
      <4> QED
        BY <1>2, <2>1, <2>5, <2>9, <3>2, <4>1 DEF IInv, UsedHeld, Moving
    <3>3. CASE count'["damage"] = count["damage"] + 1
      BY <1>1, <2>1, <2>5, <2>9, <3>1, <3>3 DEF IInv, UsedHeld, Moving
    <3> QED
      BY <2>2, <3>2, <3>3
  <2> QED
    BY <2>6, <2>7, <2>10, <2>11 DEF IInv
<1> QED
  BY <1>3, <1>4, <1>5

\* The steps that only choose what the process does next, within the same
\* part of the boot or of the write.
LEMMA ChoiceKeepsIInv ==
    ASSUME IInv, proc' \in Process, UNCHANGED <<disk, synced, told>>,
           count' \in [Kinds -> Nat], count'["damage"] = count["damage"],
           proc'.value = proc.value, ~proc'.renamed, ~proc.renamed,
           proc'.create = proc.create, proc'.at # "create",
           Shape', proc'.at \in Moving => proc.at \in Moving /\ proc'.file = proc.file,
           proc'.mode = "booting" => proc.mode = "booting"
    PROVE  IInv'
<1>1. TypeOK'
  BY DEF IInv, TypeOK
<1>2. \A f \in Files : /\ Accounted(f)' => Accounted(f)
                       /\ Held(f)' <=> Held(f)
                       /\ Durable(f)' <=> Durable(f)
  BY DEF Accounted, Held, Durable
<1>3. LoadedHeld'
  BY <1>2 DEF IInv, LoadedHeld
<1>4. UsedHeld'
  BY <1>2 DEF IInv, UsedHeld
<1> QED
  BY <1>1, <1>3, <1>4 DEF IInv

\* The corrupt primary has been moved aside and the backup is read.
LEMMA RecoverKeepsIInv == ASSUME IInv, Recover PROVE IInv'
<1> TypeOK /\ Shape
  BY DEF IInv
<1>1. count["damage"] \in Nat
  BY ConstantFacts DEF TypeOK
<1>2. /\ proc.at = "recover" /\ proc.mode = "booting" /\ ~proc.renamed
      /\ UNCHANGED <<disk, synced, told>>
  BY DEF Recover, Shape, TypeOK, Process, Writing
<1>3. CASE EnterDiagnostic
  <2>1. count' \in [Kinds -> Nat] /\ count'["damage"] >= count["damage"]
    <3>1. CASE UNCHANGED count
      BY <1>1, <3>1 DEF TypeOK
    <3>2. CASE Happens("damage")
      BY <3>2, HappensFacts DEF Kinds
    <3> QED
      BY <3>1, <3>2 DEF Recover
  <2> QED
    BY <1>2, <1>3, <2>1, EndKeepsIInv DEF EnterDiagnostic, TypeOK, Durable, Held
<1>4. CASE Valid(Backup) /\ UNCHANGED count
           /\ proc' = [proc EXCEPT !.at = "restore", !.pending = Backup]
  <2>1. proc' \in Process
    BY <1>4 DEF Valid, TypeOK, Process, Calls
  <2>2. /\ proc'.at = "restore" /\ proc'.mode = proc.mode /\ proc'.stage = proc.stage
        /\ proc'.create = proc.create /\ ~proc'.renamed
        /\ proc'.file = proc.file /\ proc'.value = proc.value
    BY <1>2, <1>4 DEF TypeOK, Process
  <2>3. Shape'
    BY <1>2, <2>2 DEF Shape, Loading, Writing
  <2> QED
    BY <1>2, <1>4, <2>1, <2>2, <2>3, ChoiceKeepsIInv DEF TypeOK, Moving
<1> QED
  BY <1>3, <1>4 DEF Recover

\* A loaded file is written again, or needs no rewriting.
LEMMA UpgradeKeepsIInv == ASSUME IInv, Upgrade PROVE IInv'
<1> TypeOK /\ Shape
  BY DEF IInv
<1>1. /\ proc.at = "upgrade" /\ proc.mode = "booting" /\ proc.stage \in {3, 4}
      /\ ~proc.renamed /\ proc.file \in Files
      /\ \A f \in Files : proc.value[f] # Missing
      /\ UNCHANGED <<disk, synced, count, told>>
  BY DEF Upgrade, Shape, TypeOK, Process, Loading, Writing
<1>2. CASE proc' = Proceed(proc)
  <2>1. /\ proc' \in Process /\ proc'.value = proc.value /\ proc'.create = proc.create
        /\ ~proc'.renamed
        /\ \/ proc'.mode = "running" /\ proc'.at = "none"
           \/ proc'.mode = "booting" /\ proc'.stage \in {3, 4} /\ proc'.at = "upgrade"
    BY <1>1, <1>2, ProceedFacts DEF TypeOK
  <2>2. Shape'
    BY <1>1, <2>1 DEF Shape
  <2> QED
    BY <1>1, <2>1, <2>2, ChoiceKeepsIInv DEF TypeOK, Moving
<1>3. CASE proc' = [proc EXCEPT !.at = "read", !.pending = proc.value[proc.file]]
  <2>1. proc.value[proc.file] \in Content
    BY <1>1 DEF TypeOK, Process
  <2>2. proc' \in Process
    BY <1>3, <2>1 DEF TypeOK, Process, Calls
  <2>3. /\ proc'.at = "read" /\ proc'.mode = proc.mode /\ proc'.stage = proc.stage
        /\ proc'.create = proc.create /\ ~proc'.renamed /\ proc'.value = proc.value
    BY <1>1, <1>3 DEF TypeOK, Process
  <2>4. Shape'
    BY <1>1, <2>3 DEF Shape, Writing
  <2> QED
    BY <1>1, <2>2, <2>3, <2>4, ChoiceKeepsIInv DEF TypeOK, Moving
<1> QED
  BY <1>2, <1>3 DEF Upgrade

-----------------------------------------------------------------------------
(* The steps of a write. *)

\* An update is asked for.
LEMMA MutateKeepsIInv == ASSUME IInv, NEW f \in Files, Mutate(f) PROVE IInv'
<1> TypeOK /\ Shape
  BY DEF IInv
<1>1. /\ proc.at = "none" /\ proc.mode = "running" /\ ~proc.renamed
      /\ UNCHANGED <<disk, synced, told>>
  BY DEF Mutate, Shape
<1>2. count' \in [Kinds -> Nat] /\ count'["damage"] = count["damage"]
  BY HappensFacts DEF Mutate, Kinds
<1>3. [data |-> count["update"] + 1, schema |-> 2] \in Content
  BY DEF TypeOK, Kinds, Content
<1>4. proc' \in Process
  BY <1>3 DEF Mutate, TypeOK, Process, Calls
<1>5. /\ proc'.at = "read" /\ proc'.mode = "running" /\ ~proc'.renamed
      /\ proc'.create = proc.create /\ proc'.value = proc.value
  BY <1>1 DEF Mutate, TypeOK, Process
<1>6. Shape'
  BY <1>1, <1>5 DEF Shape, Writing
<1> QED
  BY <1>1, <1>2, <1>4, <1>5, <1>6, ChoiceKeepsIInv DEF Moving

\* The file on disk has been read to become the backup.
LEMMA ReadKeepsIInv == ASSUME IInv, Read PROVE IInv'
<1> TypeOK /\ Shape
  BY DEF IInv
<1>1. /\ proc.at = "read" /\ ~proc.renamed /\ Primary \in Content
      /\ UNCHANGED <<disk, synced, count, told>>
  BY DEF Read, ReadCurrent, Valid, Shape
<1>2. proc' \in Process
  BY <1>1 DEF Read, TypeOK, Process, Calls
<1>3. /\ proc'.at = "backup" /\ proc'.mode = proc.mode /\ ~proc'.renamed
      /\ proc'.stage = proc.stage /\ proc'.create = proc.create
      /\ proc'.value = proc.value
  BY <1>1 DEF Read, TypeOK, Process
<1>4. Shape'
  BY <1>1, <1>3 DEF Shape, Writing, Loading
<1> QED
  BY <1>1, <1>2, <1>3, <1>4, ChoiceKeepsIInv DEF TypeOK, Moving

\* A rename: it moves a primary away only in a recovery.
LEMMA RenameKeepsIInv == ASSUME IInv, Rename PROVE IInv'
<1> TypeOK /\ Shape
  BY DEF IInv
<1>1. /\ ~proc.renamed /\ proc' = [proc EXCEPT !.renamed = TRUE]
      /\ UNCHANGED <<synced, count, told>>
  BY DEF Rename
<1>2. /\ proc' \in Process /\ proc'.renamed /\ proc'.mode = proc.mode
      /\ proc'.stage = proc.stage /\ proc'.create = proc.create /\ proc'.at = proc.at
      /\ proc'.file = proc.file /\ proc'.value = proc.value
  BY <1>1 DEF TypeOK, Process
<1>3. /\ proc.pending \in Content /\ proc.current \in Content /\ proc.file \in Files
      /\ Missing \in Slot
  BY DEF TypeOK, Process, Slot
<1>4. proc.at \in {"create", "restore", "write", "move", "backup"}
  BY DEF Rename
<1>5. disk' \in Disk /\ \A f \in Files : f # proc.file => disk'[f] = disk[f]
  <2>1. PICK part \in Parts, slot \in Slot : disk' = [disk EXCEPT ![proc.file][part] = slot]
    BY <1>3 DEF Rename, Put, Parts, Slot
  <2> QED
    BY <1>3, <2>1 DEF TypeOK, Disk
<1>6. /\ proc.at \in {"create", "restore", "write"} => Held(proc.file)'
      /\ proc.at = "backup" => (Held(proc.file) => Held(proc.file)')
  BY <1>2, <1>3 DEF Rename, Put, Held, Valid, TypeOK, Disk, Parts
<1>7. TypeOK'
  BY <1>1, <1>2, <1>5 DEF TypeOK
<1>8. Shape'
  BY <1>2, <1>4 DEF Shape
<1>9. \A f \in Files : Held(f) /\ (proc.at = "move" => f # proc.file) => Held(f)'
  BY <1>2, <1>4, <1>5, <1>6 DEF Held
<1>10. \A f \in Files : Durable(f) /\ (proc.at = "move" => f # proc.file) => Durable(f)'
  BY <1>1, <1>9 DEF Durable
<1>11. proc.at \in {"create", "move", "restore"} => proc.value[proc.file] = Missing
  BY DEF Shape, Writing, TypeOK, Process
<1>12. LoadedHeld'
  <2>1. proc.at = "move" => ~Accounted(proc.file)'
    BY <1>2, <1>11 DEF Accounted
  <2>2. \A f \in Files : Accounted(f)' =>
           Accounted(f) \/ (f = proc.file /\ proc.at \in {"create", "restore"})
    BY <1>2 DEF Accounted
  <2>3. \A f \in Files : Accounted(f)' /\ Held(f) => Held(f)'
    BY <1>2, <1>9, <2>1
  <2> QED
    BY <1>1, <1>3, <1>6, <2>1, <2>2, <2>3 DEF IInv, LoadedHeld
<1>13. UsedHeld'
  BY <1>1, <1>2, <1>10 DEF IInv, UsedHeld, Moving
<1> QED
  BY <1>7, <1>8, <1>12, <1>13 DEF IInv

\* The write that ends is the first after which a caller relies on anything:
\* all that the boot has loaded is then in place, and durable.
LEMMA WrittenKeepsIInv ==
    ASSUME IInv, proc.at = "write", proc.renamed, Written, disk' = disk, synced' \in Disk,
           \A f \in Files : Held(f) => Durable(f)', count' = count
    PROVE  IInv'
<1> TypeOK /\ Shape
  BY DEF IInv
<1> DEFINE p == [proc EXCEPT !.value[proc.file] = proc.pending, !.renamed = FALSE,
                             !.at = "none"]
<1>1. p \in Process
  BY DEF TypeOK, Process, Calls
<1>2. /\ p.mode = proc.mode /\ p.stage = proc.stage /\ p.create = proc.create /\ ~p.renamed
      /\ p.at = "none" /\ p.value = [proc.value EXCEPT ![proc.file] = proc.pending]
  BY DEF TypeOK, Process
<1>3. /\ proc.mode \in {"running", "booting"}
      /\ proc.mode = "booting" => proc.stage \in {3, 4}
      /\ \A f \in Files : proc.value[f] # Missing
  BY DEF Shape, Loading, Writing, TypeOK, Process
<1>4. \A f \in Files : p.value[f] # Missing
  BY <1>2, <1>3, ConstantFacts DEF TypeOK, Process
<1>5. \A f \in Files : Held(f)' <=> Held(f)
  BY DEF Held
<1>6. \A f \in Files : Accounted(f)
  BY <1>3 DEF Accounted
<1>7. /\ count["damage"] = 0 => \A f \in Files : Held(f)
      /\ count["damage"] = 1 => \E f \in Files : Held(f)
  BY <1>6 DEF IInv, LoadedHeld
<1>8. /\ proc' \in Process /\ proc'.value = p.value /\ ~proc'.renamed
      /\ proc'.create = proc.create /\ told' \in Promises
      /\ \/ proc'.mode = "running" /\ proc'.at = "none"
         \/ /\ proc'.mode = "booting" /\ proc.mode = "booting" /\ told' = told
            /\ proc'.stage \in {3, 4} /\ proc'.at = "upgrade"
  <2>1. CASE proc.mode = "running"
    <3>1. proc' = p
      BY <2>1 DEF Written
    <3>2. proc.pending.data \in Nat
      BY DEF TypeOK, Process, Content
    <3> DEFINE acked == [told.acked EXCEPT ![proc.file] = proc.pending.data]
               before == [told.before EXCEPT ![proc.file] = told.acked[proc.file]]
    <3>3. acked \in [Files -> Nat] /\ before \in [Files -> Nat]
      BY <3>2 DEF TypeOK, Promises, Process
    <3>4. told' = [acked |-> acked, before |-> before, inUse |-> TRUE]
      BY <2>1 DEF Written
    <3> HIDE DEF acked, before
    <3>5. told' \in Promises
      BY <3>3, <3>4 DEF Promises
    <3> HIDE DEF p
    <3> QED
      BY <1>1, <1>2, <2>1, <3>1, <3>5
  <2>2. CASE proc.mode = "booting"
    <3>1. proc' = Proceed(p) /\ told' = told
      BY <2>2 DEF Written
    <3> HIDE DEF p
    <3> QED
      BY <1>1, <1>2, <1>3, <2>2, <3>1, ProceedFacts DEF TypeOK
  <2> QED
    BY <1>3, <2>1, <2>2
<1> HIDE DEF p
<1>9. TypeOK'
  BY <1>8 DEF TypeOK
<1>10. Shape'
  BY <1>4, <1>8 DEF Shape
<1>11. LoadedHeld'
  BY <1>5, <1>7 DEF LoadedHeld
<1>12. UsedHeld'
  BY <1>7, <1>8 DEF IInv, UsedHeld, Moving
<1> QED
  BY <1>9, <1>10, <1>11, <1>12 DEF IInv

\* The directory is synced: what is on the disk is durable.
LEMMA SyncKeepsIInv == ASSUME IInv, Sync PROVE IInv'
<1> TypeOK /\ Shape
  BY DEF IInv
<1>1. /\ proc.renamed /\ disk' = disk /\ synced' = disk /\ count' = count
      /\ proc.file \in Files /\ count["damage"] \in Nat
  BY ConstantFacts DEF Sync, SyncDirectory, TypeOK, Process
<1>2. \A f \in Files : (Held(f)' <=> Held(f)) /\ (Held(f) => Durable(f)')
  BY <1>1 DEF Held, Durable
<1>3. CASE proc.at \in {"create", "restore"} /\ Loaded(proc.pending)
  <2>1. proc.mode = "booting" /\ proc.pending \in Content
    BY <1>3 DEF Shape, Writing, TypeOK, Process
  <2>2. Accounted(proc.file)
    BY <1>1, <1>3 DEF Accounted
  <2> QED
    BY <1>1, <1>3, <2>1, <2>2, LoadedKeepsIInv DEF Loading
<1>4. CASE proc.at = "write" /\ Written
  BY <1>1, <1>2, <1>4, WrittenKeepsIInv DEF TypeOK
<1>5. CASE /\ proc.at \in {"move", "backup"} /\ UNCHANGED told
           /\ proc' = [proc EXCEPT !.renamed = FALSE,
                                   !.at = IF @ = "move" THEN "recover" ELSE "write"]
  <2>1. proc' \in Process
    BY <1>5 DEF TypeOK, Process, Calls
  <2>2. /\ proc'.at = IF proc.at = "move" THEN "recover" ELSE "write"
        /\ ~proc'.renamed /\ proc'.mode = proc.mode /\ proc'.stage = proc.stage
        /\ proc'.create = proc.create /\ proc'.file = proc.file
        /\ proc'.value = proc.value
    BY <1>5 DEF TypeOK, Process
  <2>3. TypeOK'
    BY <1>1, <1>5, <2>1 DEF TypeOK
  <2>4. Shape'
    BY <1>5, <2>2 DEF Shape, Loading, Writing
  <2>5. \A f \in Files : Accounted(f)' => Accounted(f)
    BY <2>2 DEF Accounted
  <2>6. LoadedHeld'
    BY <1>1, <1>2, <2>5 DEF IInv, LoadedHeld
  <2>7. UsedHeld'
    BY <1>1, <1>2, <1>5, <2>2 DEF IInv, UsedHeld, Durable, Moving
  <2> QED
    BY <2>3, <2>4, <2>6, <2>7 DEF IInv
<1> QED
  BY <1>3, <1>4, <1>5 DEF Sync

-----------------------------------------------------------------------------

\* Every step keeps the invariant.
LEMMA StepKeepsIInv == IInv /\ [Next]_vars => IInv'
<1> SUFFICES ASSUME IInv, [Next]_vars PROVE IInv'
  OBVIOUS
<1>1. CASE Boot
  BY <1>1, BootKeepsIInv
<1>2. CASE LoadMissing \/ LoadValid \/ LoadCorrupt
  BY <1>2, LoadKeepsIInv
<1>3. CASE Recover \/ Upgrade
  BY <1>3, RecoverKeepsIInv, UpgradeKeepsIInv
<1>4. CASE \E f \in Files : Mutate(f)
  BY <1>4, MutateKeepsIInv
<1>5. CASE Read \/ Rename \/ Sync
  BY <1>5, ReadKeepsIInv, RenameKeepsIInv, SyncKeepsIInv
<1>6. CASE CallFails \/ ReadFails \/ Kill \/ PowerLoss
  BY <1>6, DisasterKeepsIInv
<1>7. CASE \E f \in Files, p \in Parts : Decay(f, p)
  BY <1>7, DecayKeepsIInv
<1>8. CASE UNCHANGED vars
  BY <1>8 DEF vars, IInv, TypeOK, Shape, LoadedHeld, UsedHeld, Accounted, Held, Durable
<1> QED
  BY <1>1, <1>2, <1>3, <1>4, <1>5, <1>6, <1>7, <1>8 DEF Next

\* The invariant holds in every state of every behaviour.
LEMMA IInvHolds == Spec => []IInv
BY InitEstablishesIInv, StepKeepsIInv, PTL DEF Spec

\* A file that is held is a primary, and creating files takes proc.create.
LEMMA IInvSuffices == IInv => NeverReset
<1> SUFFICES ASSUME IInv, told.inUse, count["damage"] <= 1
             PROVE  proc.at # "create" /\ \E f \in Files : Exists(f)
  BY DEF NeverReset
<1>1. count["damage"] \in {0, 1}
  BY ConstantFacts DEF IInv, TypeOK
<1>2. proc.at = "create" => proc.mode = "booting" /\ proc.create
  BY DEF IInv, Shape, Writing, TypeOK, Process
<1>3. proc.at # "create"
  BY <1>2 DEF IInv, UsedHeld
<1>4. \E f \in Files : Held(f)
  BY <1>1 DEF IInv, UsedHeld, Durable, Files
<1> QED
  BY <1>3, <1>4, ConstantFacts DEF Held, Valid, Exists

\* Every field keeps its type, whatever fails, and whenever the process dies.
THEOREM StorageTypeCorrect == Spec => []TypeOK
BY IInvHolds, PTL DEF IInv

\* An installation that has been used never becomes a fresh one, to be claimed
\* by whoever registers first, for any number of updates, failing calls, kills
\* and power losses, and one damaged file.
THEOREM NeverResetHolds == Spec => []NeverReset
BY IInvHolds, IInvSuffices, PTL

-----------------------------------------------------------------------------
(* What the files hold *)

\* How much of what was told a slot holds, if it holds anything.
Damaged == count["damage"]
AtLeast(slot, n) == Valid(slot) => slot.data >= n
Intact(f) == disk[f]["backup"] # Corrupt /\ synced[f]["backup"] # Corrupt

\* One damage spoils the primary of a file or its backup.
Spoiled ==
    /\ Damaged = 0 => \A f \in Files, p \in Parts : disk[f][p] # Corrupt /\ synced[f][p] # Corrupt
    /\ Damaged = 1 => \A f \in Files : Accounted(f) => Held(f) \/ disk[f]["backup"] # Corrupt
    /\ Damaged = 1 /\ told.inUse =>
          /\ \A f \in Files : Durable(f) \/ Intact(f)
          /\ proc.at \in Moving => Intact(proc.file)

\* What the callers were told, beside the copy in memory.
Told ==
    \A f \in Files :
        /\ told.before[f] <= told.acked[f] /\ told.acked[f] <= count["update"]
        /\ ~told.inUse => told.acked[f] = 0
        /\ proc.value[f] # Missing => told.acked[f] <= proc.value[f].data

\* The primaries hold the last update, or, with one damaged, the last but one
\* until a boot has loaded it; what a power loss leaves is no worse.
Primaries ==
    Damaged <= 1 => \A f \in Files :
        LET shown == disk[f]["primary"] safe == synced[f]["primary"] IN
        /\ Damaged = 0 => AtLeast(shown, told.acked[f]) /\ AtLeast(safe, told.acked[f])
        /\ AtLeast(shown, told.before[f]) /\ AtLeast(safe, told.before[f])
        /\ proc.value[f] # Missing => AtLeast(shown, told.acked[f])
        /\ safe = shown \/ AtLeast(safe, told.acked[f])

\* The backups hold the last update but one.
Backups ==
    Damaged <= 1 => \A f \in Files :
        AtLeast(disk[f]["backup"], told.before[f]) /\ AtLeast(synced[f]["backup"], told.before[f])

\* What a write or a recovery has in its hands.
InHand ==
  LET f == proc.file IN
    /\ proc.at \in Writing => proc.pending.data >= told.acked[f]
    /\ proc.at \in Writing /\ proc.mode = "running" => proc.pending.data <= count["update"]
    /\ Damaged <= 1 =>
        /\ proc.at \in {"create", "restore", "write"} /\ proc.renamed /\ Valid(Primary) =>
              Primary = proc.pending
        /\ (\/ proc.at = "move" /\ proc.renamed
            \/ proc.at \in {"recover", "restore"} /\ ~proc.renamed) => ~Valid(Primary)
        /\ proc.at \in Moving => AtLeast(synced[f]["primary"], told.acked[f])
        /\ proc.at = "restore" => proc.pending.data >= told.before[f]
        /\ proc.at = "backup" => proc.current.data >= told.acked[f]
        /\ proc.at = "backup" /\ proc.renamed => AtLeast(Backup, told.acked[f])
        /\ proc.at = "write" =>
              AtLeast(Backup, told.acked[f]) /\ AtLeast(synced[f]["backup"], told.acked[f])

\* The invariant of the contents, which rests on the first one.
DataInv == Spoiled /\ Told /\ Primaries /\ Backups /\ InHand

\* At the start no caller has been told anything.
LEMMA InitEstablishesData == Init => DataInv
<1> SUFFICES ASSUME Init PROVE DataInv
  OBVIOUS
<1>1. /\ count["damage"] = 0 /\ count["update"] = 0 /\ proc.at = "none"
      /\ \A f \in Files : proc.value[f] = Missing
      /\ \A f \in Files : told.acked[f] = 0 /\ told.before[f] = 0
  BY DEF Init, Kinds, Down
<1>2. synced = disk /\ \A f \in Files, p \in Parts :
         disk[f][p] = Missing \/ disk[f][p] = [data |-> 0, schema |-> 1]
  BY DEF Init, Fresh, Old
<1>3. [data |-> 0, schema |-> 1] \in Content
  BY DEF Content
<1>4. \A f \in Files, p \in Parts : disk[f][p] # Corrupt /\ AtLeast(disk[f][p], 0)
  <2>1. AtLeast(Missing, 0) /\ AtLeast([data |-> 0, schema |-> 1], 0)
    BY SlotAssumption DEF AtLeast, Valid
  <2> QED  BY <1>2, <1>3, <2>1, SlotAssumption
<1>5. Spoiled
  BY <1>1, <1>2, <1>4 DEF Spoiled, Damaged
<1>6. Told
  BY <1>1 DEF Told
<1>7. Primaries /\ Backups
  BY <1>1, <1>2, <1>4 DEF Primaries, Backups, Parts
<1>8. InHand
  BY <1>1 DEF InHand, Moving, Writing
<1> QED  BY <1>5, <1>6, <1>7, <1>8 DEF DataInv

\* Holding an update is holding the earlier ones.
LEMMA Weaker ==
    ASSUME NEW slot, NEW n \in Nat, NEW m \in Nat, m <= n, AtLeast(slot, n)
    PROVE  AtLeast(slot, m)
BY DEF AtLeast, Valid, Content

\* The types the comparisons need.
LEMMA PromiseFacts ==
    ASSUME TypeOK
    PROVE  /\ \A f \in Files : told.acked[f] \in Nat /\ told.before[f] \in Nat
           /\ count["update"] \in Nat /\ Damaged \in Nat
           /\ proc.file \in Files /\ proc.pending \in Content /\ proc.current \in Content
           /\ proc.pending.data \in Nat /\ proc.current.data \in Nat
BY DEF TypeOK, Promises, Kinds, Damaged, Process, Content

\* With nothing damaged, everything is at least what the callers were told.
LEMMA Undamaged ==
    ASSUME IInv, DataInv, Damaged = 0
    PROVE  \A f \in Files :
              /\ AtLeast(disk[f]["primary"], told.acked[f])
              /\ AtLeast(synced[f]["primary"], told.acked[f])
              /\ Intact(f)
              /\ told.inUse => Durable(f)
BY DEF IInv, DataInv, Spoiled, Primaries, Intact, UsedHeld, Parts, Damaged

\* The process ends, and each file keeps what it shows or what is durable of it.
LEMMA EndKeepsData ==
    ASSUME IInv, IInv', DataInv, proc' \in {Down, [Down EXCEPT !.mode = "diagnostic"]},
           told' = told, count'["update"] = count["update"], count'["damage"] >= count["damage"],
           \/ synced' = synced /\ disk' = disk
           \/ synced' = disk' /\ \A f \in Files, p \in Parts :
                                    disk'[f][p] \in {disk[f][p], synced[f][p]}
    PROVE  DataInv'
<1> TypeOK /\ Damaged' \in Nat
  BY PromiseFacts DEF IInv, TypeOK, Kinds, Damaged
<1>1. proc'.at = "none" /\ ~proc'.renamed /\ \A f \in Files : proc'.value[f] = Missing
  BY DEF Down
<1>2. /\ Damaged \in Nat /\ Damaged' >= Damaged
      /\ \A f \in Files : told.acked[f] \in Nat /\ told.before[f] \in Nat
  BY PromiseFacts DEF Damaged
<1>3. \A f \in Files, p \in Parts :
         /\ disk'[f][p] \in {disk[f][p], synced[f][p]}
         /\ synced'[f][p] \in {disk[f][p], synced[f][p]}
  OBVIOUS
<1>4. \A f \in Files : (Intact(f) => Intact(f)') /\ (Durable(f) => Durable(f)')
  BY <1>3 DEF Intact, Durable, Held, Parts
<1>5. Spoiled'
  <2>1. Damaged' = 0 => \A f \in Files, p \in Parts : disk'[f][p] # Corrupt /\ synced'[f][p] # Corrupt
    BY <1>2, <1>3 DEF DataInv, Spoiled
  <2>2. Damaged' = 1 => \A f \in Files : ~Accounted(f)'
    BY <1>1 DEF Accounted
  <2>3. Damaged' = 1 /\ told.inUse => \A f \in Files : (Durable(f) \/ Intact(f))'
    BY <1>2, <1>4, Undamaged DEF DataInv, Spoiled
  <2> QED  BY <1>1, <2>1, <2>2, <2>3 DEF Spoiled, Moving
<1>6. Told'
  BY <1>1 DEF DataInv, Told
<1>7. ASSUME Damaged' <= 1, NEW f \in Files
      PROVE  LET shown == disk'[f]["primary"] safe == synced'[f]["primary"] IN
             /\ Damaged' = 0 => AtLeast(shown, told.acked[f]) /\ AtLeast(safe, told.acked[f])
             /\ AtLeast(shown, told.before[f]) /\ AtLeast(safe, told.before[f])
             /\ safe = shown \/ AtLeast(safe, told.acked[f])
  <2>1. Damaged <= 1
    BY <1>2, <1>7
  <2> QED  BY <1>2, <1>3, <1>7, <2>1, SMTT(20) DEF DataInv, Primaries, Parts
<1>8. Primaries'
  BY <1>1, <1>7 DEF Primaries
<1>9. Backups'
  BY <1>2, <1>3 DEF DataInv, Backups, Parts
<1>10. InHand'
  BY <1>1 DEF InHand, Moving, Writing
<1> QED  BY <1>5, <1>6, <1>8, <1>9, <1>10 DEF DataInv

\* The process chooses what it does next; the disk and the promises stay.
LEMMA ChoiceKeepsData ==
    ASSUME IInv, IInv', DataInv, UNCHANGED <<disk, synced, told>>,
           count'["damage"] = count["damage"], count'["update"] >= count["update"],
           proc'.value = proc.value \/ \A f \in Files : proc'.value[f] = Missing,
           ~proc'.renamed, proc'.at \in Moving => proc.at \in Moving /\ proc'.file = proc.file,
           InHand'
    PROVE  DataInv'
<1> TypeOK /\ TypeOK'
  BY DEF IInv
<1>1. /\ Damaged' = Damaged /\ count["update"] \in Nat /\ count'["update"] \in Nat
      /\ \A f \in Files : told.acked[f] \in Nat
  BY PromiseFacts DEF Damaged, TypeOK, Kinds
<1>2. \A f \in Files : proc'.value[f] # Missing => proc'.value[f] = proc.value[f]
  OBVIOUS
<1>3. \A f \in Files : Accounted(f)' => Accounted(f)
  BY <1>2 DEF Accounted
<1>4. Spoiled'
  BY <1>1, <1>3 DEF DataInv, Spoiled, Held, Durable, Intact
<1>5. Told'
  BY <1>1, <1>2 DEF DataInv, Told
<1>6. Primaries' /\ Backups'
  BY <1>1, <1>2 DEF DataInv, Primaries, Backups
<1> QED  BY <1>4, <1>5, <1>6 DEF DataInv

\* One slot decays: nothing else changes, and it no longer holds anything.
LEMMA DecayKeepsData ==
    ASSUME IInv, IInv', DataInv, NEW f \in Files, NEW p \in Parts, Decay(f, p)
    PROVE  DataInv'
<1> TypeOK /\ TypeOK'
  BY DEF IInv
<1>1. /\ proc' = proc /\ told' = told /\ count'["damage"] = count["damage"] + 1
      /\ count'["update"] = count["update"] /\ Valid(disk[f][p])
  BY DEF Decay, Happens, TypeOK, Kinds
<1>2. /\ disk'[f][p] = Corrupt /\ synced'[f][p] \in {synced[f][p], Corrupt}
      /\ synced[f][p] = disk[f][p] => synced'[f][p] = Corrupt
      /\ \A g \in Files, q \in Parts : g # f \/ q # p =>
            disk'[g][q] = disk[g][q] /\ synced'[g][q] = synced[g][q]
  BY DEF Decay, TypeOK, Disk
<1>3. ~Valid(Corrupt) /\ \A n : AtLeast(Corrupt, n)
  BY SlotAssumption DEF AtLeast, Valid
<1>4. /\ Damaged \in Nat /\ Damaged' = Damaged + 1
      /\ \A g \in Files : told.acked[g] \in Nat /\ told.before[g] \in Nat
      /\ \A g \in Files : told.before[g] <= told.acked[g]
  BY <1>1, PromiseFacts DEF Damaged, DataInv, Told
<1> SUFFICES ASSUME Damaged = 0 PROVE DataInv'
  <2>1. ASSUME Damaged # 0 PROVE DataInv'
    <3>1. ~(Damaged' <= 1) /\ Damaged' # 0 /\ Damaged' # 1
      BY <1>4, <2>1
    <3> QED  BY <1>1, <3>1 DEF DataInv, Told, Spoiled, Primaries, Backups, InHand
  <2> QED  BY <2>1
<1>5. \A g \in Files, q \in Parts : \A n :
         /\ AtLeast(disk[g][q], n) => AtLeast(disk'[g][q], n)
         /\ AtLeast(synced[g][q], n) => AtLeast(synced'[g][q], n)
         /\ Valid(disk'[g][q]) => disk'[g][q] = disk[g][q]
  BY <1>2, <1>3
<1>6. Spoiled'
  <2>1. \A g \in Files : Durable(g)' \/ Intact(g)' \/ ~told.inUse
    <3>1. CASE p = "primary"
      BY <1>2, <3>1, Undamaged DEF Intact, Parts
    <3>2. CASE p = "backup"
      BY <1>2, <3>2, Undamaged DEF Durable, Held, Parts
    <3> QED  BY <3>1, <3>2 DEF Parts
  <2>2. \A g \in Files : Accounted(g)' => Held(g)' \/ disk'[g]["backup"] # Corrupt
    <3>1. \A g \in Files : Accounted(g)' => Held(g)
      BY <1>1 DEF Accounted, IInv, LoadedHeld, Damaged
    <3> QED  BY <1>2, <3>1, Undamaged DEF Held, Intact, Parts
  <2>3. told.inUse => proc.at \notin Moving
    BY DEF IInv, UsedHeld, Damaged
  <2> QED  BY <1>1, <1>4, <2>1, <2>2, <2>3 DEF Spoiled
<1>7. Told'
  BY <1>1 DEF DataInv, Told
<1>8. \A g \in Files : /\ AtLeast(disk[g]["primary"], told.acked[g])
                       /\ AtLeast(synced[g]["primary"], told.acked[g])
  BY Undamaged
<1>9. Primaries'
  <2>1. \A g \in Files : /\ AtLeast(disk[g]["primary"], told.before[g])
                         /\ AtLeast(synced[g]["primary"], told.before[g])
    BY <1>4, <1>8, Weaker
  <2> QED  BY <1>1, <1>4, <1>5, <1>8, <2>1 DEF DataInv, Primaries, Parts
<1>10. Backups'
  BY <1>1, <1>4, <1>5 DEF DataInv, Backups, Parts
<1>11. InHand'
  BY <1>1, <1>4, <1>5, PromiseFacts DEF DataInv, InHand, Primary, Backup, Valid, Parts
<1> QED  BY <1>6, <1>7, <1>9, <1>10, <1>11 DEF DataInv

\* What a boot may load, and how much of what was told it keeps.
Found(c) ==
    \/ proc.at = "load" /\ Primary = c /\ synced' = synced
    \/ /\ proc.at \in {"create", "restore"} /\ proc.renamed /\ proc.pending = c
       /\ synced' = disk

\* With one file damaged, what is loaded lacks the last update at most.
LEMMA FoundIsEnough ==
    ASSUME IInv, DataInv, NEW c \in Content, Found(c), Damaged <= 1
    PROVE  /\ c.data >= told.before[proc.file]
           /\ Damaged = 0 => c.data >= told.acked[proc.file]
           /\ Valid(Primary) => Primary = c
<1> TypeOK
  BY DEF IInv
<1>1. /\ told.acked[proc.file] \in Nat /\ told.before[proc.file] \in Nat /\ c.data \in Nat
      /\ told.before[proc.file] <= told.acked[proc.file] /\ proc.file \in Files
      /\ Damaged \in Nat
  BY PromiseFacts DEF DataInv, Told, Content
<1>2. CASE proc.at = "load" /\ Primary = c
  BY <1>1, <1>2 DEF DataInv, Primaries, AtLeast, Valid, Primary
<1>3. CASE proc.at \in {"create", "restore"} /\ proc.renamed /\ proc.pending = c
  <2>1. Valid(Primary) => Primary = c
    BY <1>3 DEF DataInv, InHand
  <2>2. ~told.inUse => told.acked[proc.file] = 0
    BY <1>1 DEF DataInv, Told
  <2>3. proc.at = "create" => ~told.inUse
    BY <1>1 DEF IInv, UsedHeld, Shape, Damaged, Writing, TypeOK, Process
  <2>4. proc.at = "restore" /\ Damaged = 0 => ~told.inUse
    BY DEF IInv, UsedHeld, Damaged, Moving
  <2>5. proc.at = "restore" => c.data >= told.before[proc.file]
    BY <1>3 DEF DataInv, InHand
  <2> QED  BY <1>1, <1>3, <2>1, <2>2, <2>3, <2>4, <2>5
<1> QED  BY <1>2, <1>3 DEF Found

\* A load lowers what is relied on to what was found.
LEMMA LoadedKeepsData ==
    ASSUME IInv, IInv', DataInv, proc.mode = "booting", NEW c \in Content,
           Found(c), Loaded(c), disk' = disk, count' = count
    PROVE  DataInv'
<1> TypeOK /\ Shape
  BY DEF IInv
<1> DEFINE f == proc.file
<1>1. /\ proc'.value[f].data = c.data
      /\ \A g \in Files : g # f => proc'.value[g] = proc.value[g]
      /\ ~proc'.renamed /\ proc'.at \in {"load", "upgrade", "none"}
  BY LoadedFacts, ConstantFacts DEF Loading, Found
<1>2. /\ told'.acked[f] = AtMost(told.acked[f], c.data)
      /\ told'.before[f] = AtMost(told.before[f], c.data)
      /\ \A g \in Files : g # f => told'.acked[g] = told.acked[g] /\ told'.before[g] = told.before[g]
      /\ told'.inUse = told.inUse
  BY DEF Loaded, TypeOK, Promises, Process
<1>3. /\ c.data \in Nat /\ Damaged \in Nat /\ Damaged' = Damaged /\ f \in Files
      /\ \A g \in Files : told.acked[g] \in Nat /\ told.before[g] \in Nat
      /\ \A g \in Files : told.before[g] <= told.acked[g]
  BY PromiseFacts DEF Content, Damaged, DataInv, Told
<1> HIDE DEF f
<1>4. /\ told'.acked[f] <= told.acked[f] /\ told'.acked[f] <= c.data
      /\ told'.before[f] <= told.before[f] /\ told'.before[f] <= c.data
      /\ told'.before[f] <= told'.acked[f]
      /\ told'.acked[f] \in Nat /\ told'.before[f] \in Nat
  BY <1>2, <1>3 DEF AtMost
<1>5. \A g \in Files : /\ told'.acked[g] <= told.acked[g] /\ told'.before[g] <= told.before[g]
                       /\ told'.acked[g] \in Nat /\ told'.before[g] \in Nat
  BY <1>2, <1>3, <1>4
<1>6. synced' = synced \/ synced' = disk
  BY DEF Found
<1>7. Spoiled'
  <2>1. \A g \in Files : (Intact(g) => Intact(g)') /\ (Durable(g) => Durable(g)') /\ Held(g)' = Held(g)
    BY <1>6 DEF Intact, Durable, Held
  <2>2. \A g \in Files : Accounted(g)' => Accounted(g) \/ g = f
    BY <1>1 DEF Accounted
  <2>3. Accounted(f) \/ Held(f)
    BY DEF Found, Accounted, Held, Valid, Primary, f
  <2> QED  BY <1>1, <1>2, <1>3, <1>6, <2>1, <2>2, <2>3 DEF DataInv, Spoiled, Moving
<1>8. Told'
  <2>1. /\ count'["update"] = count["update"] /\ count["update"] \in Nat
        /\ \A g \in Files : told.acked[g] <= count["update"]
    BY PromiseFacts DEF DataInv, Told
  <2>2. ~told.inUse => \A g \in Files : told.acked[g] = 0
    BY DEF DataInv, Told
  <2> QED  BY <1>1, <1>2, <1>3, <1>4, <1>5, <2>1, <2>2 DEF DataInv, Told
<1>9. Primaries'
  <2> SUFFICES ASSUME Damaged <= 1, NEW g \in Files
      PROVE  LET shown == disk'[g]["primary"] safe == synced'[g]["primary"] IN
             /\ Damaged = 0 => AtLeast(shown, told'.acked[g]) /\ AtLeast(safe, told'.acked[g])
             /\ AtLeast(shown, told'.before[g]) /\ AtLeast(safe, told'.before[g])
             /\ proc'.value[g] # Missing => AtLeast(shown, told'.acked[g])
             /\ safe = shown \/ AtLeast(safe, told'.acked[g])
    BY <1>3 DEF Primaries
  <2> DEFINE shown == disk[g]["primary"] safe == synced[g]["primary"]
  <2>1. /\ Damaged = 0 => AtLeast(shown, told'.acked[g]) /\ AtLeast(safe, told'.acked[g])
        /\ AtLeast(shown, told'.before[g]) /\ AtLeast(safe, told'.before[g])
        /\ safe = shown \/ AtLeast(safe, told'.acked[g])
    BY <1>3, <1>5, Weaker DEF DataInv, Primaries
  <2>2. proc'.value[g] # Missing => AtLeast(shown, told'.acked[g])
    <3>1. CASE g = f
      <4>1. Valid(shown) => shown = c
        BY <3>1, FoundIsEnough DEF Primary, f
      <4> QED  BY <1>4, <3>1, <4>1 DEF AtLeast
    <3>2. CASE g # f
      BY <1>1, <1>3, <1>5, <3>2, Weaker DEF DataInv, Primaries
    <3> QED  BY <3>1, <3>2
  <2> QED  BY <1>6, <2>1, <2>2
<1>10. Backups'
  BY <1>3, <1>5, <1>6, Weaker DEF DataInv, Backups
<1>11. InHand'
  BY <1>1 DEF InHand, Moving, Writing
<1> QED  BY <1>7, <1>8, <1>9, <1>10, <1>11 DEF DataInv

\* The steps of a boot and of a write that touch no file.
LEMMA ReadingKeepsData ==
    ASSUME IInv, IInv', DataInv,
           Boot \/ LoadMissing \/ LoadCorrupt \/ Recover \/ Upgrade \/ Read
               \/ \E f \in Files : Mutate(f)
    PROVE  DataInv'
<1> TypeOK /\ Shape /\ TypeOK'
  BY DEF IInv
<1>1. /\ \A f \in Files : told.acked[f] \in Nat /\ told.before[f] \in Nat
      /\ \A f \in Files : told.before[f] <= told.acked[f] /\ told.acked[f] <= count["update"]
      /\ count["update"] \in Nat /\ Damaged \in Nat /\ Damaged' \in Nat /\ proc.file \in Files
  BY PromiseFacts DEF DataInv, Told, Damaged, TypeOK, Kinds
<1>2. ASSUME EnterDiagnostic, UNCHANGED <<disk, synced, told>>,
             count'["update"] = count["update"], count'["damage"] >= count["damage"]
      PROVE  DataInv'
  BY <1>2, EndKeepsData DEF EnterDiagnostic
<1>3. CASE Boot
  <2>1. CASE EnterDiagnostic
    BY <1>1, <1>2, <1>3, <2>1 DEF Boot, Damaged
  <2>2. CASE proc' = [Down EXCEPT !.mode = "booting", !.at = "load", !.create = ~Exists("settings")]
    <3>1. /\ proc'.at = "load" /\ ~proc'.renamed
          /\ \A f \in Files : proc'.value[f] = Missing
      BY <2>2 DEF Down
    <3> QED  BY <1>1, <1>3, <3>1, ChoiceKeepsData DEF Boot, InHand, Moving, Writing
  <2> QED  BY <1>3, <2>1, <2>2 DEF Boot
<1>4. CASE LoadMissing
  <2>1. CASE EnterDiagnostic
    BY <1>1, <1>2, <1>4, <2>1 DEF LoadMissing, Damaged
  <2>2. CASE proc' = [proc EXCEPT !.at = "create", !.pending = Factory]
    <3>1. ~proc.renamed
      BY <1>4 DEF LoadMissing, Shape
    <3>2. proc'.at = "create" /\ ~proc'.renamed /\ proc'.value = proc.value
      BY <2>2, <3>1 DEF TypeOK, Process
    <3> QED  BY <1>1, <1>4, <3>2, ChoiceKeepsData DEF LoadMissing, InHand, Moving, Writing
  <2> QED  BY <1>4, <2>1, <2>2 DEF LoadMissing
<1>5. CASE LoadCorrupt
  <2>1. /\ proc.at = "load" /\ proc.mode = "booting" /\ ~proc.renamed
        /\ proc' = [proc EXCEPT !.at = "move"] /\ UNCHANGED <<disk, synced, told>>
    BY <1>5 DEF LoadCorrupt, Shape, TypeOK, Process, Writing
  <2>2. /\ proc'.at = "move" /\ ~proc'.renamed /\ proc'.file = proc.file
        /\ proc'.value = proc.value
    BY <2>1 DEF TypeOK, Process
  <2>3. /\ count'["update"] = count["update"]
        /\ \/ Primary = Corrupt /\ Damaged' = Damaged
           \/ Valid(Primary) /\ Damaged' = Damaged + 1
    BY <1>5 DEF LoadCorrupt, Happens, Damaged, TypeOK, Kinds
  <2>4. ~Valid(Corrupt) /\ (Primary = Corrupt => Damaged # 0)
    BY <1>1, SlotAssumption DEF Valid, DataInv, Spoiled, Primary, Parts
  <2>5. \A f \in Files : /\ Accounted(f)' => Accounted(f)
                         /\ Held(f)' <=> Held(f)
                         /\ Durable(f)' <=> Durable(f)
                         /\ Intact(f)' <=> Intact(f)
    BY <2>1, <2>2 DEF Accounted, Held, Durable, Intact
  <2>6. Spoiled'
    <3>1. Damaged' = 0 => \A f \in Files, p \in Parts : disk[f][p] # Corrupt /\ synced[f][p] # Corrupt
      BY <1>1, <2>3 DEF DataInv, Spoiled
    <3>2. Damaged' = 1 => \A f \in Files : Accounted(f) => Held(f) \/ disk[f]["backup"] # Corrupt
      BY <1>1, <2>3, Undamaged DEF DataInv, Spoiled, Intact
    <3>3. Damaged' = 1 /\ told.inUse => (\A f \in Files : Durable(f) \/ Intact(f)) /\ Intact(proc.file)
      BY <1>1, <2>3, <2>4, Undamaged DEF DataInv, Spoiled, Durable, Held, Primary
    <3>4. Damaged' = 1 => \A f \in Files : Accounted(f)' => Held(f)' \/ disk'[f]["backup"] # Corrupt
      BY <2>1, <2>5, <3>2
    <3>5. Damaged' = 1 /\ told'.inUse =>
             /\ \A f \in Files : Durable(f)' \/ Intact(f)'
             /\ disk'[proc'.file]["backup"] # Corrupt /\ synced'[proc'.file]["backup"] # Corrupt
      <4>1. \A f \in Files : Durable(f) \/ Intact(f) => Durable(f)' \/ Intact(f)'
        BY <2>5
      <4> QED  BY <2>1, <2>2, <3>3, <4>1 DEF Intact
    <3>6. Damaged' = 0 =>
             \A f \in Files, p \in Parts : disk'[f][p] # Corrupt /\ synced'[f][p] # Corrupt
      BY <2>1, <3>1
    <3> QED  BY <3>4, <3>5, <3>6 DEF Spoiled, Intact
  <2>7. Told'
    BY <2>1, <2>2, <2>3 DEF DataInv, Told
  <2>8. Primaries' /\ Backups'
    BY <1>1, <2>1, <2>2, <2>3 DEF DataInv, Primaries, Backups
  <2>9. Damaged' <= 1 => AtLeast(synced[proc.file]["primary"], told.acked[proc.file])
    BY <1>1, <2>3, <2>4 DEF DataInv, Primaries, AtLeast, Primary
  <2>10. InHand'
    BY <2>1, <2>2, <2>9 DEF InHand, Moving, Writing
  <2> QED  BY <2>6, <2>7, <2>8, <2>10 DEF DataInv
<1>6. CASE Recover
  <2>1. /\ proc.at = "recover" /\ ~proc.renamed /\ UNCHANGED <<disk, synced, told>>
        /\ count'["update"] = count["update"] /\ Damaged' >= Damaged
    BY <1>1, <1>6 DEF Recover, Shape, Happens, Damaged, TypeOK, Kinds
  <2>2. CASE EnterDiagnostic
    BY <1>2, <2>1, <2>2 DEF Damaged
  <2>3. CASE Valid(Backup) /\ UNCHANGED count /\ proc' = [proc EXCEPT !.at = "restore", !.pending = Backup]
    <3>1. /\ proc'.at = "restore" /\ ~proc'.renamed /\ proc'.file = proc.file
          /\ proc'.value = proc.value /\ proc'.pending = Backup
      BY <2>1, <2>3 DEF TypeOK, Process
    <3>2. Damaged <= 1 => Backup.data >= told.before[proc.file]
      BY <1>1, <2>3 DEF DataInv, Backups, AtLeast, Backup
    <3>3. InHand'
      BY <2>1, <2>3, <3>1, <3>2 DEF DataInv, InHand, Damaged, Moving, Writing, Primary
    <3> QED  BY <1>1, <2>1, <2>3, <3>1, <3>3, ChoiceKeepsData DEF Moving
  <2> QED  BY <1>6, <2>2, <2>3 DEF Recover
<1>7. CASE Upgrade
  <2>1. /\ proc.at = "upgrade" /\ ~proc.renamed /\ proc.value[proc.file] # Missing
        /\ proc.mode = "booting" /\ proc.stage \in {3, 4} /\ UNCHANGED <<disk, synced, count, told>>
    BY <1>1, <1>7 DEF Upgrade, Shape, TypeOK, Process, Loading, Writing
  <2>2. CASE proc' = Proceed(proc)
    <3>1. ~proc'.renamed /\ proc'.value = proc.value /\ proc'.at \in {"upgrade", "none"}
      BY <2>1, <2>2, ProceedFacts DEF TypeOK
    <3> QED  BY <1>1, <2>1, <3>1, ChoiceKeepsData DEF InHand, Moving, Writing
  <2>3. CASE proc' = [proc EXCEPT !.at = "read", !.pending = proc.value[proc.file]]
    <3>1. /\ proc'.at = "read" /\ ~proc'.renamed /\ proc'.file = proc.file
          /\ proc'.value = proc.value /\ proc'.pending = proc.value[proc.file]
          /\ proc'.mode = "booting"
      BY <2>1, <2>3 DEF TypeOK, Process
    <3>2. proc'.pending.data >= told.acked[proc.file]
      BY <1>1, <2>1, <3>1 DEF DataInv, Told, TypeOK, Process, Content
    <3>3. InHand'
      BY <2>1, <3>1, <3>2 DEF InHand, Moving, Writing
    <3> QED  BY <1>1, <2>1, <3>1, <3>3, ChoiceKeepsData DEF Moving
  <2> QED  BY <1>7, <2>2, <2>3 DEF Upgrade
<1>8. CASE Read
  <2>1. /\ proc.at = "read" /\ ~proc.renamed /\ Valid(Primary)
        /\ proc' = [proc EXCEPT !.at = "backup", !.current = Primary]
        /\ UNCHANGED <<disk, synced, count, told>>
    BY <1>8 DEF Read, ReadCurrent, Shape
  <2>2. /\ proc'.at = "backup" /\ ~proc'.renamed /\ proc'.file = proc.file
        /\ proc'.value = proc.value /\ proc'.pending = proc.pending
        /\ proc'.mode = proc.mode /\ proc'.current = Primary
    BY <2>1 DEF TypeOK, Process
  <2>3. proc.value[proc.file] # Missing
    BY <1>1, <2>1 DEF Shape, Loading, TypeOK, Process
  <2>4. Damaged <= 1 => Primary.data >= told.acked[proc.file]
    BY <1>1, <2>1, <2>3 DEF DataInv, Primaries, AtLeast, Primary
  <2>5. InHand'
    BY <2>1, <2>2, <2>4 DEF DataInv, InHand, Damaged, Moving, Writing
  <2> QED  BY <1>1, <2>1, <2>2, <2>5, ChoiceKeepsData DEF Moving
<1>9. ASSUME NEW f \in Files, Mutate(f) PROVE DataInv'
  <2>1. /\ ~proc.renamed /\ UNCHANGED <<disk, synced, told>> /\ Damaged' = Damaged
        /\ count'["update"] = count["update"] + 1 /\ proc.mode = "running"
    BY <1>9 DEF Mutate, Shape, Happens, Damaged, TypeOK, Kinds
  <2>2. /\ proc'.at = "read" /\ ~proc'.renamed /\ proc'.file = f
        /\ proc'.value = proc.value /\ proc'.pending.data = count["update"] + 1
    BY <1>9, <2>1 DEF Mutate, TypeOK, Process
  <2>3. InHand'
    BY <1>1, <2>1, <2>2 DEF InHand, Moving, Writing
  <2> QED  BY <1>1, <2>1, <2>2, <2>3, ChoiceKeepsData DEF Damaged, Moving
<1> QED  BY <1>3, <1>4, <1>5, <1>6, <1>7, <1>8, <1>9

\* Calls that fail, kills and power losses cost nothing that was told.
LEMMA DisasterKeepsData ==
    ASSUME IInv, IInv', DataInv, CallFails \/ ReadFails \/ Kill \/ PowerLoss
    PROVE  DataInv'
<1> TypeOK /\ Shape
  BY DEF IInv
<1>1. Damaged \in Nat /\ count["update"] \in Nat
  BY PromiseFacts
<1>2. count'["update"] = count["update"] /\ count'["damage"] = count["damage"]
  BY DEF CallFails, ReadFails, Kill, PowerLoss, Happens, TypeOK, Kinds
<1>3. CASE Kill
  BY <1>1, <1>2, <1>3, EndKeepsData DEF Kill, Damaged
<1>4. CASE PowerLoss
  <2>1. synced' = disk' /\ \A f \in Files, p \in Parts : disk'[f][p] \in {disk[f][p], synced[f][p]}
    BY <1>4 DEF PowerLoss
  <2>2. proc' = Down /\ told' = told
    BY <1>4 DEF PowerLoss
  <2> QED  BY <1>1, <1>2, <2>1, <2>2, EndKeepsData DEF Damaged
<1>5. CASE CallFails \/ ReadFails
  <2>1. UNCHANGED <<disk, synced, told>> /\ Raise
    BY <1>5 DEF CallFails, ReadFails
  <2>2. CASE proc.mode = "running"
    <3>1. proc' = [proc EXCEPT !.at = "none", !.renamed = FALSE]
      BY <2>1, <2>2 DEF Raise
    <3>2. proc'.at = "none" /\ ~proc'.renamed /\ proc'.value = proc.value
      BY <3>1 DEF TypeOK, Process
    <3> QED  BY <1>1, <1>2, <2>1, <3>2, ChoiceKeepsData DEF InHand, Moving, Writing
  <2>3. CASE proc.mode # "running"
    BY <1>1, <1>2, <2>1, <2>3, EndKeepsData DEF Raise, Damaged
  <2> QED  BY <2>2, <2>3
<1> QED  BY <1>3, <1>4, <1>5

\* Where the bytes being written come from decides how much of what was told
\* they keep; nothing is put in the place of a file that is not known.
LEMMA RenameKeepsData == ASSUME IInv, IInv', DataInv, Rename PROVE DataInv'
<1> TypeOK /\ Shape /\ UNCHANGED <<synced, count, told>> /\ Damaged' = Damaged
  BY DEF IInv, Rename, Damaged
<1> DEFINE f == proc.file
<1>1. /\ \A g \in Files : told.acked[g] \in Nat /\ told.before[g] \in Nat
      /\ \A g \in Files : told.before[g] <= told.acked[g]
      /\ f \in Files /\ Damaged \in Nat
      /\ proc.pending \in Content /\ proc.current \in Content
      /\ proc.pending.data \in Nat /\ proc.current.data \in Nat
  BY PromiseFacts DEF DataInv, Told
<1>2. /\ ~proc.renamed /\ proc'.renamed /\ proc'.at = proc.at /\ proc'.file = f
      /\ proc'.value = proc.value /\ proc'.mode = proc.mode
      /\ proc'.pending = proc.pending /\ proc'.current = proc.current
  BY DEF Rename, TypeOK, Process
<1>3. /\ proc.at \in {"create", "restore", "move"} => proc.value[f] = Missing
      /\ proc.at = "write" => proc.value[f] # Missing
  BY <1>1 DEF Shape, Loading, Writing, TypeOK, Process
<1>4. PICK part, slot :
         /\ part \in Parts /\ disk' = [disk EXCEPT ![f][part] = slot]
         /\ \/ proc.at \in {"create", "restore", "write"} /\ part = "primary" /\ slot = proc.pending
            \/ proc.at = "move" /\ part = "primary" /\ slot = Missing
            \/ proc.at = "backup" /\ part = "backup" /\ slot = proc.current
  BY DEF Rename, Put, Parts
<1> HIDE DEF f
<1>5. /\ disk'[f][part] = slot
      /\ \A g \in Files, q \in Parts : g # f \/ q # part => disk'[g][q] = disk[g][q]
  BY <1>1, <1>4 DEF TypeOK, Disk
<1>6. slot # Corrupt /\ (proc.at = "move" => \A n : AtLeast(slot, n))
  BY <1>1, <1>4, SlotAssumption DEF AtLeast, Valid
<1>7. ASSUME Damaged <= 1, part = "primary"
      PROVE  /\ Damaged = 0 => AtLeast(slot, told.acked[f])
             /\ AtLeast(slot, told.before[f])
             /\ proc.value[f] # Missing => AtLeast(slot, told.acked[f])
             /\ AtLeast(synced[f]["primary"], told.acked[f])
  <2>1. CASE proc.at = "create"
    <3>1. told.acked[f] = 0 /\ told.before[f] = 0
      <4>1. ~told.inUse
        BY <1>7, <2>1 DEF IInv, UsedHeld, Shape, Damaged, Writing, TypeOK, Process
      <4> QED  BY <1>1, <4>1 DEF DataInv, Told
    <3>2. \A x : AtLeast(x, 0)
      BY DEF AtLeast, Valid, Content
    <3> QED  BY <3>1, <3>2
  <2>2. CASE proc.at = "restore"
    <3>1. slot = proc.pending /\ proc.value[f] = Missing
      BY <1>3, <1>4, <2>2
    <3>2. /\ proc.pending.data >= told.before[f]
          /\ AtLeast(synced[f]["primary"], told.acked[f])
      BY <1>7, <2>2 DEF DataInv, InHand, Moving, f
    <3>3. Damaged = 0 => told.acked[f] = 0
      BY <1>1, <2>2 DEF IInv, UsedHeld, Damaged, Moving, DataInv, Told
    <3> QED  BY <1>1, <3>1, <3>2, <3>3 DEF AtLeast
  <2>3. CASE proc.at = "write"
    <3>1. slot = proc.pending /\ proc.pending.data >= told.acked[f]
      BY <1>4, <1>7, <2>3 DEF DataInv, InHand, Writing, f
    <3>2. AtLeast(synced[f]["primary"], told.acked[f])
      BY <1>1, <1>3, <1>7, <2>3 DEF DataInv, Primaries
    <3> QED  BY <1>1, <3>1, <3>2 DEF AtLeast
  <2>4. CASE proc.at = "move"
    BY <1>6, <1>7, <2>4 DEF DataInv, InHand, Moving, f
  <2> QED  BY <1>4, <1>7, <2>1, <2>2, <2>3, <2>4
<1>8. proc.at = "backup" /\ Damaged <= 1 =>
         AtLeast(slot, told.acked[f]) /\ AtLeast(slot, told.before[f])
  BY <1>1, <1>4 DEF DataInv, InHand, AtLeast, f
<1>9. Spoiled'
  <2>1. Damaged = 0 => \A g \in Files, p \in Parts : disk'[g][p] # Corrupt /\ synced'[g][p] # Corrupt
    BY <1>5, <1>6 DEF DataInv, Spoiled
  <2>2. \A g \in Files : Intact(g) => Intact(g)'
    BY <1>5, <1>6 DEF Intact, Parts
  <2>3. \A g \in Files : Held(g) => Held(g)' \/ (proc.at = "move" /\ g = f)
    BY <1>1, <1>4, <1>5 DEF Held, Valid, Parts
  <2>4. \A g \in Files : Accounted(g)' =>
           \/ Accounted(g) /\ ~(proc.at = "move" /\ g = f)
           \/ Held(g)'
    <3>1. \A g \in Files : g = f /\ proc.at \in {"create", "restore"} => Held(g)'
      BY <1>1, <1>4, <1>5 DEF Held, Valid, Parts
    <3>2. \A g \in Files : Accounted(g)' => Accounted(g) \/ (g = f /\ proc.at \in {"create", "restore"})
      BY <1>2 DEF Accounted
    <3>3. proc.at = "move" => ~Accounted(f)
      BY <1>2, <1>3 DEF Accounted
    <3> QED  BY <3>1, <3>2, <3>3
  <2>5. \A g \in Files : disk[g]["backup"] # Corrupt => disk'[g]["backup"] # Corrupt
    BY <1>5, <1>6 DEF Parts
  <2>6. Damaged = 1 => \A g \in Files : Accounted(g)' => Held(g)' \/ disk'[g]["backup"] # Corrupt
    <3>1. Damaged = 1 => \A g \in Files : Accounted(g) => Held(g) \/ disk[g]["backup"] # Corrupt
      BY DEF DataInv, Spoiled
    <3> QED  BY <2>3, <2>4, <2>5, <3>1
  <2>7. Damaged = 1 /\ told.inUse =>
           /\ \A g \in Files : Durable(g)' \/ Intact(g)'
           /\ \A g \in Files : proc'.at \in Moving /\ g = f => Intact(g)'
    BY <1>2, <2>2, <2>3 DEF DataInv, Spoiled, Durable, Moving, f
  <2> QED  BY <1>1, <1>2, <2>1, <2>6, <2>7 DEF Spoiled
<1>10. Told'
  BY <1>2 DEF DataInv, Told
<1>11. Primaries'
  <2> SUFFICES ASSUME Damaged <= 1, NEW g \in Files
      PROVE  LET shown == disk'[g]["primary"] safe == synced[g]["primary"] IN
             /\ Damaged = 0 => AtLeast(shown, told.acked[g]) /\ AtLeast(safe, told.acked[g])
             /\ AtLeast(shown, told.before[g]) /\ AtLeast(safe, told.before[g])
             /\ proc.value[g] # Missing => AtLeast(shown, told.acked[g])
             /\ safe = shown \/ AtLeast(safe, told.acked[g])
    BY <1>2 DEF Primaries
  <2>1. CASE g = f /\ part = "primary"
    BY <1>1, <1>5, <1>7, <2>1, Weaker
  <2>2. CASE ~(g = f /\ part = "primary")
    <3>1. disk'[g]["primary"] = disk[g]["primary"]
      BY <1>5, <2>2 DEF Parts
    <3> QED  BY <3>1 DEF DataInv, Primaries
  <2> QED  BY <2>1, <2>2
<1>12. Backups'
  BY <1>4, <1>5, <1>8 DEF DataInv, Backups, Parts
<1>13. InHand'
  <2> SUFFICES ASSUME Damaged <= 1
      PROVE  /\ proc.at \in {"create", "restore", "write"} => Primary' = proc.pending
             /\ proc.at = "move" => ~Valid(Primary')
             /\ proc.at \in Moving => AtLeast(synced[f]["primary"], told.acked[f])
             /\ proc.at = "restore" => proc.pending.data >= told.before[f]
             /\ proc.at = "backup" => proc.current.data >= told.acked[f]
             /\ proc.at = "backup" => AtLeast(Backup', told.acked[f])
             /\ proc.at = "write" =>
                   AtLeast(Backup', told.acked[f]) /\ AtLeast(synced[f]["backup"], told.acked[f])
    BY <1>2, <1>4 DEF DataInv, InHand, f
  <2>1. Primary' = disk'[f]["primary"] /\ Backup' = disk'[f]["backup"] /\ Backup = disk[f]["backup"]
    BY <1>2 DEF Primary, Backup, f
  <2>2. proc.at = "write" => Backup' = Backup
    BY <1>1, <1>4, <1>5, <2>1 DEF Parts
  <2>3. ~Valid(Missing)
    BY SlotAssumption DEF Valid
  <2> QED  BY <1>4, <1>5, <1>8, <2>1, <2>2, <2>3 DEF DataInv, InHand, f
<1> QED  BY <1>9, <1>10, <1>11, <1>12, <1>13 DEF DataInv

\* A write that is durable is what its caller relies on from then on, and the
\* value before it is the backup.
LEMMA WrittenKeepsData ==
    ASSUME IInv, IInv', DataInv, proc.at = "write", proc.renamed, Written,
           disk' = disk, synced' = disk, count' = count
    PROVE  DataInv'
<1> TypeOK /\ Shape
  BY DEF IInv
<1> DEFINE f == proc.file
           n == proc.pending.data
           done == [proc EXCEPT !.value[f] = proc.pending, !.renamed = FALSE, !.at = "none"]
<1>1. /\ \A g \in Files : told.acked[g] \in Nat /\ told.before[g] \in Nat
      /\ \A g \in Files : told.before[g] <= told.acked[g] /\ told.acked[g] <= count["update"]
      /\ f \in Files /\ Damaged \in Nat /\ Damaged' = Damaged /\ n \in Nat /\ n >= told.acked[f]
      /\ proc.mode = "running" => n <= count["update"]
      /\ count["update"] \in Nat
  BY PromiseFacts DEF DataInv, Told, InHand, Writing, Damaged
<1>2. /\ proc.mode = "booting" => proc.stage \in {3, 4}
      /\ \A g \in Files : proc.value[g] # Missing
  BY DEF Shape, Loading, Writing, TypeOK, Process
<1>3. /\ done \in Process /\ ~done.renamed /\ done.at = "none" /\ done.mode = proc.mode
      /\ done.value = [proc.value EXCEPT ![f] = proc.pending] /\ done.stage = proc.stage
  BY DEF TypeOK, Process, Calls
<1> HIDE DEF done
<1>4. /\ proc'.value = done.value /\ ~proc'.renamed
      /\ proc'.at \in {"none", "upgrade"}
  <2>1. CASE proc.mode = "running"
    BY <1>3, <2>1 DEF Written, done
  <2>2. CASE proc.mode = "booting"
    <3>1. proc' = Proceed(done)
      BY <2>2 DEF Written, done
    <3> QED  BY <1>2, <1>3, <2>2, <3>1, ProceedFacts
  <2> QED  BY <2>1, <2>2 DEF Written
<1>5. /\ proc'.value[f] = proc.pending
      /\ \A g \in Files : g # f => proc'.value[g] = proc.value[g]
      /\ \A g \in Files : proc'.value[g] # Missing
  BY <1>1, <1>2, <1>3, <1>4, ConstantFacts DEF TypeOK, Process
<1>6. \/ /\ proc.mode = "running" /\ told'.inUse
         /\ told'.acked[f] = n /\ told'.before[f] = told.acked[f]
         /\ \A g \in Files : g # f => /\ told'.acked[g] = told.acked[g]
                                      /\ told'.before[g] = told.before[g]
      \/ told' = told
  <2>1. CASE proc.mode = "running"
    <3>1. told' = [acked |-> [told.acked EXCEPT ![f] = n],
                   before |-> [told.before EXCEPT ![f] = told.acked[f]], inUse |-> TRUE]
      BY <2>1 DEF Written
    <3>2. told.acked \in [Files -> Nat] /\ told.before \in [Files -> Nat]
      BY DEF TypeOK, Promises
    <3> HIDE DEF f, n
    <3>3. told'.acked = [told.acked EXCEPT ![f] = n] /\ told'.before = [told.before EXCEPT ![f] = told.acked[f]]
      BY <3>1
    <3>4. told'.inUse
      BY <3>1, Zenon
    <3> QED  BY <1>1, <2>1, <3>2, <3>3, <3>4
  <2>2. CASE proc.mode = "booting"
    BY <2>2 DEF Written
  <2> QED  BY <2>1, <2>2 DEF Written
<1>7. Damaged <= 1 =>
         /\ AtLeast(disk[f]["primary"], n)
         /\ AtLeast(disk[f]["backup"], told.acked[f])
  BY <1>1 DEF DataInv, InHand, AtLeast, Primary, Backup
<1> HIDE DEF f, n
<1>8. Spoiled'
  <2>1. Damaged = 0 => \A g \in Files, p \in Parts : disk[g][p] # Corrupt
    BY DEF DataInv, Spoiled
  <2>2. Damaged = 1 => \A g \in Files : Held(g) \/ disk[g]["backup"] # Corrupt
    BY <1>2 DEF DataInv, Spoiled, Accounted
  <2> QED  BY <1>1, <1>4, <2>1, <2>2 DEF Spoiled, Durable, Held, Intact, Moving
<1>9. Told'
  <2> SUFFICES ASSUME NEW g \in Files
      PROVE  /\ told'.before[g] <= told'.acked[g] /\ told'.acked[g] <= count["update"]
             /\ ~told'.inUse => told'.acked[g] = 0
             /\ told'.acked[g] <= proc'.value[g].data
    BY DEF Told
  <2>1. told.acked[g] <= proc.value[g].data
    BY <1>2 DEF DataInv, Told
  <2>2. ~told'.inUse => told'.acked[g] = 0
    BY <1>6 DEF DataInv, Told
  <2> QED  BY <1>1, <1>5, <1>6, <2>1, <2>2 DEF n
<1>10. Primaries'
  <2> SUFFICES ASSUME Damaged <= 1, NEW g \in Files
      PROVE  AtLeast(disk[g]["primary"], told'.acked[g]) /\ AtLeast(disk[g]["primary"], told'.before[g])
    BY <1>1 DEF Primaries
  <2>1. CASE g = f
    BY <1>1, <1>6, <1>7, <2>1, Weaker
  <2>2. CASE g # f
    BY <1>2, <1>6, <2>2 DEF DataInv, Primaries
  <2> QED  BY <2>1, <2>2
<1>11. Backups'
  <2> SUFFICES ASSUME Damaged <= 1, NEW g \in Files
      PROVE  AtLeast(disk[g]["backup"], told'.before[g])
    BY <1>1 DEF Backups
  <2> QED  BY <1>1, <1>6, <1>7, Weaker DEF DataInv, Backups
<1>12. InHand'
  BY <1>4 DEF InHand, Moving, Writing
<1> QED  BY <1>8, <1>9, <1>10, <1>11, <1>12 DEF DataInv

\* Once the directory is synced, a power loss leaves what the disk shows.
LEMMA SyncKeepsData == ASSUME IInv, IInv', DataInv, Sync PROVE DataInv'
<1> TypeOK /\ Shape
  BY DEF IInv
<1>1. proc.renamed /\ disk' = disk /\ synced' = disk /\ count' = count /\ Damaged' = Damaged
  BY DEF Sync, SyncDirectory, Damaged
<1>2. CASE proc.at \in {"create", "restore"} /\ Loaded(proc.pending)
  <2>1. proc.mode = "booting" /\ proc.pending \in Content
    BY <1>2 DEF Shape, Writing, TypeOK, Process
  <2>2. Found(proc.pending)
    BY <1>1, <1>2 DEF Found
  <2> QED  BY <1>1, <1>2, <2>1, <2>2, LoadedKeepsData
<1>3. CASE proc.at = "write" /\ Written
  BY <1>1, <1>3, WrittenKeepsData
<1>4. CASE /\ proc.at \in {"move", "backup"} /\ UNCHANGED told
           /\ proc' = [proc EXCEPT !.renamed = FALSE,
                                   !.at = IF @ = "move" THEN "recover" ELSE "write"]
  <2>1. /\ proc'.at = IF proc.at = "move" THEN "recover" ELSE "write"
        /\ ~proc'.renamed /\ proc'.mode = proc.mode /\ proc'.file = proc.file
        /\ proc'.value = proc.value /\ proc'.pending = proc.pending
    BY <1>4 DEF TypeOK, Process
  <2>2. Spoiled'
    <3>1. \A g \in Files : /\ Accounted(g)' => Accounted(g)
                           /\ Held(g)' <=> Held(g)
                           /\ Durable(g) \/ Intact(g) => Durable(g)' \/ Intact(g)'
                           /\ Intact(g) => disk[g]["backup"] # Corrupt
      BY <1>1, <1>4, <2>1 DEF Accounted, Held, Durable, Intact
    <3>2. Damaged = 0 => \A g \in Files, p \in Parts : disk[g][p] # Corrupt
      BY DEF DataInv, Spoiled
    <3>3. Damaged = 1 => \A g \in Files : Accounted(g) => Held(g) \/ disk[g]["backup"] # Corrupt
      BY DEF DataInv, Spoiled
    <3>4. Damaged = 1 /\ told.inUse =>
             /\ \A g \in Files : Durable(g) \/ Intact(g)
             /\ proc'.at \in Moving => Intact(proc.file)
      BY <1>4, <2>1 DEF DataInv, Spoiled, Moving
    <3>5. Damaged = 1 /\ told.inUse /\ proc'.at \in Moving =>
             disk[proc'.file]["backup"] # Corrupt
      BY <2>1, <3>1, <3>4, PromiseFacts
    <3> QED  BY <1>1, <1>4, <3>1, <3>2, <3>3, <3>4, <3>5 DEF Spoiled, Intact
  <2>3. Told'
    BY <1>1, <1>4, <2>1 DEF DataInv, Told
  <2>4. Primaries' /\ Backups'
    BY <1>1, <1>4, <2>1 DEF DataInv, Primaries, Backups
  <2>5. InHand'
    <3>1. Primary' = disk[proc.file]["primary"] /\ Backup' = disk[proc.file]["backup"]
      BY <1>1, <2>1 DEF Primary, Backup
    <3>2. CASE proc.at = "move"
      BY <1>1, <1>4, <2>1, <3>1, <3>2 DEF DataInv, InHand, Moving, Writing, AtLeast, Primary
    <3>3. CASE proc.at = "backup"
      BY <1>1, <1>4, <2>1, <3>1, <3>3 DEF DataInv, InHand, Moving, Writing, Backup
    <3> QED  BY <1>4, <3>2, <3>3
  <2> QED  BY <2>2, <2>3, <2>4, <2>5 DEF DataInv
<1> QED  BY <1>1, <1>2, <1>3, <1>4 DEF Sync

\* What a boot finds in the place of a file is what it loads.
LEMMA LoadValidKeepsData == ASSUME IInv, IInv', DataInv, LoadValid PROVE DataInv'
<1> TypeOK /\ Shape
  BY DEF IInv
<1>1. /\ proc.at = "load" /\ Primary \in Content /\ Loaded(Primary)
      /\ UNCHANGED <<disk, synced, count>>
  BY DEF LoadValid, Valid
<1>2. proc.mode = "booting"
  BY <1>1 DEF Shape, Writing, TypeOK, Process
<1>3. Found(Primary)
  BY <1>1 DEF Found
<1> QED  BY <1>1, <1>2, <1>3, LoadedKeepsData

\* Every step keeps the invariant of the contents.
LEMMA StepKeepsData == ASSUME IInv, IInv', DataInv, [Next]_vars PROVE DataInv'
<1>1. CASE \/ Boot \/ LoadMissing \/ LoadCorrupt \/ Recover \/ Upgrade \/ Read
           \/ \E f \in Files : Mutate(f)
  BY <1>1, ReadingKeepsData
<1>2. CASE LoadValid \/ Rename \/ Sync
  BY <1>2, LoadValidKeepsData, RenameKeepsData, SyncKeepsData
<1>3. CASE CallFails \/ ReadFails \/ Kill \/ PowerLoss
  BY <1>3, DisasterKeepsData
<1>4. CASE \E f \in Files, p \in Parts : Decay(f, p)
  BY <1>4, DecayKeepsData
<1>5. CASE UNCHANGED vars
  BY <1>5, SMTT(20) DEF vars, DataInv, Spoiled, Told, Primaries, Backups, InHand, Damaged, AtLeast,
              Intact, Accounted, Durable, Held, Primary, Backup
<1> QED  BY <1>1, <1>2, <1>3, <1>4, <1>5 DEF Next

\* Both invariants hold in every state of every behaviour.
LEMMA DataInvHolds == Spec => [](IInv /\ DataInv)
<1>1. Init => IInv /\ DataInv
  BY InitEstablishesIInv, InitEstablishesData
<1>2. IInv /\ DataInv /\ [Next]_vars => (IInv /\ DataInv)'
  BY StepKeepsIInv, StepKeepsData
<1> QED  BY <1>1, <1>2, PTL DEF Spec

\* A file with one slot damaged has got the other one.
LEMMA DataInvSuffices == IInv /\ DataInv => SurvivesOneDamage
<1> SUFFICES ASSUME IInv, DataInv, told.inUse, Damaged <= 1, NEW f \in Files,
                    disk[f]["backup"] # Missing
             PROVE  \E p \in Parts : Valid(disk[f][p])
  BY DEF SurvivesOneDamage, Damaged
<1>1. Damaged \in {0, 1}
  BY PromiseFacts DEF IInv
<1>2. Durable(f) \/ Intact(f)
  BY <1>1, Undamaged DEF DataInv, Spoiled
<1>3. disk[f]["backup"] \in Content \cup {Missing, Corrupt}
  BY DEF IInv, TypeOK, Disk, Slot, Parts
<1> QED  BY <1>2, <1>3 DEF Durable, Held, Intact, Valid, Parts

\* A file that has got its backup keeps a valid copy at every instant: between
\* two calls of a write or of a recovery, after a kill or a power loss, and with
\* one of all the files damaged at any moment (storage.py:59-148).
THEOREM DamageIsSurvived == Spec => []SurvivesOneDamage
BY DataInvHolds, DataInvSuffices, PTL

\* A value comes into memory only when a boot loads what it has found.
LEMMA ValuesAreFound ==
    ASSUME IInv, [Next]_vars, NEW f \in Files, proc.value[f] = Missing, proc'.value[f] # Missing
    PROVE  f = proc.file /\ \E c \in Content : Found(c) /\ proc'.value[f].data = c.data
<1> TypeOK /\ Shape
  BY DEF IInv
<1>1. ASSUME NEW c \in Content, Loaded(c), Found(c), proc.mode = "booting"
      PROVE  f = proc.file /\ proc'.value[f].data = c.data
  BY <1>1, LoadedFacts, ConstantFacts DEF Found, Loading
<1>2. CASE LoadValid
  <2>1. proc.at = "load" /\ Primary \in Content /\ Loaded(Primary) /\ Found(Primary)
    BY <1>2 DEF LoadValid, Valid, Found
  <2>2. proc.mode = "booting"
    BY <2>1 DEF Shape, Writing, TypeOK, Process
  <2> QED  BY <1>1, <2>1, <2>2
<1>3. CASE Sync
  <2>1. CASE proc.at \in {"create", "restore"} /\ Loaded(proc.pending)
    <3>1. proc.mode = "booting" /\ proc.pending \in Content
      BY <2>1 DEF Shape, Writing, TypeOK, Process
    <3>2. Found(proc.pending)
      BY <1>3, <2>1 DEF Found, Sync, SyncDirectory
    <3> QED  BY <1>1, <2>1, <3>1, <3>2
  <2>2. CASE proc.at = "write"
    BY <2>2 DEF Shape, Loading, Writing, TypeOK, Process
  <2>3. CASE proc' = [proc EXCEPT !.renamed = FALSE,
                                  !.at = IF @ = "move" THEN "recover" ELSE "write"]
    BY <2>3 DEF TypeOK, Process
  <2> QED  BY <1>3, <2>1, <2>2, <2>3 DEF Sync
<1>4. CASE Upgrade
  <2>1. CASE proc' = Proceed(proc)
    BY <2>1, ProceedFacts DEF TypeOK
  <2>2. CASE proc' = [proc EXCEPT !.at = "read", !.pending = proc.value[proc.file]]
    BY <2>2 DEF TypeOK, Process
  <2> QED  BY <1>4, <2>1, <2>2 DEF Upgrade
<1>5. \A g \in Files : Down.value[g] = Missing /\ [Down EXCEPT !.mode = "diagnostic"].value[g] = Missing
  BY DEF Down
<1>6. CASE Boot
  <2>1. CASE EnterDiagnostic
    BY <1>5, <2>1 DEF EnterDiagnostic
  <2>2. CASE proc' = [Down EXCEPT !.mode = "booting", !.at = "load", !.create = ~Exists("settings")]
    <3>1. proc'.value[f] = Missing
      BY <2>2 DEF Down
    <3> QED  BY <3>1
  <2> QED  BY <1>6, <2>1, <2>2 DEF Boot
<1>7. CASE LoadMissing \/ LoadCorrupt \/ Recover
  BY <1>5, <1>7 DEF LoadMissing, LoadCorrupt, Recover, EnterDiagnostic, TypeOK, Process
<1>8. CASE Read \/ Rename \/ \E g \in Files : Mutate(g)
  <2>1. proc'.value = proc.value
    BY <1>8 DEF Read, Rename, Mutate, TypeOK, Process
  <2> QED  BY <2>1
<1>9. CASE CallFails \/ ReadFails \/ Kill \/ PowerLoss
  BY <1>5, <1>9 DEF CallFails, ReadFails, Kill, PowerLoss, Raise, TypeOK, Process
<1>10. CASE UNCHANGED proc
  BY <1>10
<1> QED
  BY <1>2, <1>3, <1>4, <1>6, <1>7, <1>8, <1>9, <1>10 DEF Next, vars, Decay

\* An update whose caller was told of success is there after a restart, and one
\* damaged file costs the last update and no other, for every number of updates
\* and every order of failing calls, kills and power losses (storage.py:92-148).
THEOREM AckedUpdatesSurvive == Spec => AckedSurvives
<1> DEFINE Kept ==
       \A f \in Files : /\ proc.value[f] = Missing /\ proc'.value[f] # Missing
                        /\ count["damage"] <= 1
         => proc'.value[f].data >=
               IF count["damage"] = 0 THEN told.acked[f] ELSE told.before[f]
<1>1. IInv /\ DataInv /\ [Next]_vars => Kept
  <2> SUFFICES ASSUME IInv, DataInv, [Next]_vars, NEW f \in Files, Damaged <= 1,
                      proc.value[f] = Missing, proc'.value[f] # Missing
               PROVE  /\ proc'.value[f].data >= told.before[f]
                      /\ Damaged = 0 => proc'.value[f].data >= told.acked[f]
    BY DEF Damaged
  <2>1. PICK c \in Content : f = proc.file /\ Found(c) /\ proc'.value[f].data = c.data
    BY ValuesAreFound
  <2> QED  BY <2>1, FoundIsEnough
<1>2. IInv /\ DataInv /\ [Next]_vars => [Kept]_vars
  BY <1>1
<1> HIDE DEF Kept
<1>3. Spec => [][Kept]_vars
  BY <1>2, DataInvHolds, PTL DEF Spec
<1> QED  BY <1>3 DEF AckedSurvives, Kept
==============================================================================
