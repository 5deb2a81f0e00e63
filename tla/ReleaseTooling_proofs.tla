----------------------- MODULE ReleaseTooling_proofs -----------------------
(***************************************************************************)
(* Proofs about ReleaseTooling, for any finite set of interpreters and any *)
(* bounds.                                                                 *)
(***************************************************************************)
EXTENDS ReleaseTooling, FiniteSetTheorems, TLAPS

Building == {"build", "repair", "test", "sum"}

(* The wheels a verifier can come to see are those directly in dist and    *)
(* the raw ones that somebody collects there.                              *)
Collectable == Wheels("raw") \cup Wheels("dist")

(* How far a build has come.  Removing dist leaves nothing behind, and a   *)
(* file that was torn ends the script that was writing it, so each phase   *)
(* finds what the phase before it has made, whole and of this build.       *)
Progress ==
  /\ run.pc \in Building =>
       /\ tree[Stray] = None
       /\ \A p \in Collectable : tree[p] \in {None, builds}
  /\ run.pc = "build" => \A a \in Abis \ run.todo : tree[<<"raw", a>>] = builds
  /\ run.pc = "repair" =>
       /\ \A a \in Abis : tree[<<"raw", a>>] = builds
       /\ \A a \in Abis \ run.todo : tree[<<"wheelhouse", a>>] = builds
  /\ run.pc \in {"test", "sum"} => \A a \in Abis : tree[<<"wheelhouse", a>>] = builds
  /\ run.pc = "sum" => \A a \in Abis \ run.todo : wheelSums[a] = builds

(* Between the scripts, whatever was stopped and whatever was collected,   *)
(* the whole wheels are those of one build.                                *)
OneBuild == \E n \in 0..builds : \A p \in Collectable : tree[p] \in {None, Torn, n}

IInv == TypeOK /\ Progress /\ OneBuild /\ CompleteIsWhole /\ AcceptedIsWhole

-----------------------------------------------------------------------------
(* Paths, and what is written to them.                                     *)

Folders == {"raw", "wheelhouse", "dist"}

LEMMA PathsApart ==
  /\ Stray \in Paths /\ Rest \in Paths /\ Rest \notin DistFiles /\ Stray \in DistFiles
  /\ \A d \in Folders, a \in Abis : /\ <<d, a>> \in Paths \ {Stray, Rest}
                                    /\ <<d, a>> \in DistFiles
  /\ Collectable \subseteq Paths /\ Stray \notin Collectable /\ Rest \notin Collectable
  /\ Collectable \subseteq DistFiles
  /\ DistFiles \subseteq Paths
<1>1. \A d \in Folders, a \in Abis : <<d, a>> \in Wheels(d) /\ <<d, a>> \notin {Stray, Rest}
  BY NamesDistinct DEF Wheels, Folders
<1>2. \A p \in Collectable : p \notin {Stray, Rest}
  BY NamesDistinct DEF Wheels, Collectable
<1>3. Stray # Rest /\ Rest \notin Wheels("raw") \cup Wheels("wheelhouse") \cup Wheels("dist")
  BY NamesDistinct DEF Wheels
<1>4. \A d \in Folders, a \in Abis : <<d, a>> \in DistFiles
  BY <1>1 DEF DistFiles, Folders
<1>5. QED BY <1>1, <1>2, <1>3, <1>4 DEF Paths, DistFiles, Collectable

TreeOK == tree \in [Paths -> Content] /\ tree[Rest] \notin {None, Torn}

LEMMA BuildsIs ==
  ASSUME TypeOK
  PROVE  /\ builds \in 0..MaxBuilds /\ builds \in Nat /\ builds \in Content
         /\ builds # None /\ builds # Torn
         /\ 0 \in Content /\ 0 # None /\ 0 # Torn
         /\ None \in Content /\ Torn \in Content /\ None # Torn
         /\ NoLines \in [Paths -> Content]
<1>1. builds \in 0..MaxBuilds /\ builds \in Nat
  <2>1. MaxBuilds \in Nat
    BY Bounds, Zenon
  <2>2. builds \in 0..MaxBuilds
    BY DEF TypeOK
  <2>3. QED BY <2>1, <2>2
<1>2. None \notin Nat /\ Torn \notin Nat /\ None # Torn
  BY NamesDistinct
<1>3. None \in Content /\ Torn \in Content /\ 0 \in Content /\ builds \in Content
  BY <1>1 DEF Content
<1>4. NoLines \in [Paths -> Content]
  BY <1>3 DEF NoLines
<1>5. QED BY <1>1, <1>2, <1>3, <1>4

LEMMA FilePut ==
  ASSUME TypeOK, NEW p \in DistFiles, NEW c \in Content, tree' = [tree EXCEPT ![p] = c]
  PROVE  TreeOK' /\ \A q \in Paths : tree'[q] = IF q = p THEN c ELSE tree[q]
<1>1. p \in Paths /\ p # Rest /\ Rest \in Paths
  BY PathsApart
<1>2. tree \in [Paths -> Content] /\ tree[Rest] \notin {None, Torn}
  BY DEF TypeOK
<1>3. tree' \in [Paths -> Content] /\ \A q \in Paths : tree'[q] = IF q = p THEN c ELSE tree[q]
  BY <1>1, <1>2
<1>4. QED BY <1>1, <1>2, <1>3 DEF TreeOK

(* Files of dist removed, and one perhaps written. *)
LEMMA FilesRemoved ==
  ASSUME TypeOK, NEW gone \in SUBSET DistFiles, NEW kept \in [gone -> Content],
         tree' = [p \in Paths |-> IF p \in gone THEN kept[p] ELSE tree[p]]
  PROVE  TreeOK'
<1>1. Rest \in Paths /\ Rest \notin gone
  BY PathsApart
<1>2. QED BY <1>1 DEF TypeOK, TreeOK

LEMMA TypeFrom ==
  ASSUME TypeOK, TreeOK', sums' \in [Paths -> Content],
         wheelSums' \in [Abis -> Content \ {Torn}], builds' \in 0..MaxBuilds,
         run' \in [pc: {"idle", "clean", "clean for make", "build", "repair", "test",
                        "sum", "generate"},
                   todo: SUBSET (Abis \cup {"dist", Rest}),
                   lines: [Paths -> Content]],
         run'.pc = "idle" => run' = Idle, said' = "nothing"
  PROVE  TypeOK'
BY DEF TypeOK, TreeOK, Idle, NoLines

LEMMA SaidNothing ==
  ASSUME said' = "nothing"
  PROVE  CompleteIsWhole' /\ AcceptedIsWhole'
BY DEF CompleteIsWhole, AcceptedIsWhole

(* A script stops, whatever it did last. *)
LEMMA StopKeeps ==
  ASSUME IInv, Stop, TreeOK', OneBuild', sums' \in [Paths -> Content],
         wheelSums' \in [Abis -> Content \ {Torn}], builds' = builds
  PROVE  IInv'
<1>1. /\ run' = Idle /\ said' = "nothing" /\ run'.pc = "idle"
  BY DEF Stop, Idle
<1>2. Idle \in [pc: {"idle", "clean", "clean for make", "build", "repair", "test",
                     "sum", "generate"},
                todo: SUBSET (Abis \cup {"dist", Rest}), lines: [Paths -> Content]]
  BY BuildsIs DEF IInv, Idle
<1>3. TypeOK'
  BY <1>1, <1>2, BuildsIs, TypeFrom DEF IInv
<1>4. Progress'
  BY <1>1 DEF Progress, Building
<1>5. QED BY <1>1, <1>3, <1>4, SaidNothing DEF IInv

LEMMA TypesOf ==
  ASSUME IInv
  PROVE  /\ TypeOK /\ TreeOK /\ sums \in [Paths -> Content]
         /\ wheelSums \in [Abis -> Content \ {Torn}] /\ builds \in 0..MaxBuilds
         /\ OneBuild /\ Progress
BY DEF IInv, TypeOK, TreeOK

LEMMA StopOnly ==
  ASSUME IInv, Stop, UNCHANGED <<tree, sums, wheelSums, builds>>
  PROVE  IInv'
BY TypesOf, StopKeeps DEF TreeOK, OneBuild

(* A script begins or goes on to its next phase. *)
LEMMA BeginKeeps ==
  ASSUME IInv, NEW pc \in {"clean", "clean for make", "build", "repair", "test", "sum",
                           "generate"},
         NEW todo \in SUBSET (Abis \cup {"dist", Rest}), Begin(pc, todo),
         TreeOK', OneBuild', sums' \in [Paths -> Content],
         wheelSums' \in [Abis -> Content \ {Torn}], builds' \in 0..MaxBuilds, Progress'
  PROVE  IInv'
<1>1. /\ run' = [pc |-> pc, todo |-> todo, lines |-> NoLines] /\ said' = "nothing"
      /\ run'.pc # "idle"
  BY DEF Begin
<1>2. TypeOK'
  BY <1>1, BuildsIs, TypeFrom DEF IInv
<1>3. QED BY <1>1, <1>2, SaidNothing DEF IInv

(* What a build, as far as it has come, says of the collectable wheels. *)
LEMMA BuildingIsOneBuild ==
  ASSUME TypeOK, \A p \in Collectable : tree[p] \in {None, builds}
  PROVE  OneBuild
BY BuildsIs DEF OneBuild

-----------------------------------------------------------------------------
(* build_python_wheels.sh                                                  *)

LEMMA StartKeeps ==
  ASSUME IInv, Build_start \/ Make_start
  PROVE  IInv'
<1>1. /\ builds' = builds + 1 /\ builds' \in 0..MaxBuilds /\ UNCHANGED <<tree, sums, wheelSums>>
      /\ Begin("clean", {}) \/ Begin("clean for make", {})
  <2>1. builds < MaxBuilds /\ builds' = builds + 1 /\ builds \in Nat
    BY BuildsIs, TypesOf DEF Build_start, Make_start
  <2>2. MaxBuilds \in Nat
    BY Bounds, Zenon
  <2>3. builds' \in 0..MaxBuilds
    BY <2>1, <2>2
  <2>4. QED BY <2>1, <2>3 DEF Build_start, Make_start
<1>2. TreeOK'
  BY <1>1, TypesOf DEF TreeOK
<1>3. OneBuild'
  <2>1. builds \in Nat /\ OneBuild
    BY TypesOf, BuildsIs
  <2>2. PICK n \in 0..builds : \A p \in Collectable : tree[p] \in {None, Torn, n}
    BY <2>1 DEF OneBuild
  <2>3. builds' = builds + 1 /\ tree' = tree
    BY <1>1
  <2>4. n \in 0..builds /\ builds \in Nat
    BY <2>1
  <2>5. n \in 0..builds'
    BY <2>3, <2>4
  <2>6. QED BY <2>2, <2>3, <2>5 DEF OneBuild
<1>4. Progress'
  <2>1. run'.pc = "clean" \/ run'.pc = "clean for make"
    <3>1. CASE Begin("clean", {})
      BY <3>1 DEF Begin
    <3>2. CASE Begin("clean for make", {})
      BY <3>2 DEF Begin
    <3>3. QED BY <1>1, <3>1, <3>2
  <2>2. run'.pc \notin Building
    BY <2>1 DEF Building
  <2>3. QED BY <2>2 DEF Progress, Building
<1>5. QED BY <1>1, <1>2, <1>3, <1>4, TypesOf, BeginKeeps

LEMMA NoWheelSumsIs ==
  NoWheelSums \in [Abis -> Content \ {Torn}]
BY NamesDistinct DEF NoWheelSums, Content

LEMMA CleanKeeps ==
  ASSUME IInv, Clean
  PROVE  IInv'
<1>1. /\ tree' = [p \in Paths |-> IF p \in ToClean THEN None ELSE tree[p]]
      /\ wheelSums' = NoWheelSums /\ Begin("build", Abis) /\ UNCHANGED <<sums, builds>>
  BY DEF Clean
<1>2. ToClean \subseteq DistFiles
  BY DEF ToClean, Present
<1>3. TreeOK'
  <2>1. Rest \in Paths /\ Rest \notin ToClean
    BY <1>2, PathsApart
  <2>2. QED BY <1>1, <2>1, TypesOf, BuildsIs DEF TreeOK
<1>4. \A p \in DistFiles : tree'[p] = None
  BY <1>1, PathsApart DEF ToClean, Present
<1>5. OneBuild'
  BY <1>1, <1>4, PathsApart, TypesOf, BuildsIs DEF OneBuild
<1>6. Progress'
  <2>1. run'.pc = "build" /\ run'.todo = Abis
    BY <1>1 DEF Begin
  <2>2. tree'[Stray] = None /\ \A p \in Collectable : tree'[p] = None
    BY <1>4, PathsApart
  <2>3. QED BY <2>1, <2>2 DEF Progress
<1>7. QED BY <1>1, <1>3, <1>5, <1>6, NoWheelSumsIs, TypesOf, BeginKeeps

LEMMA CleanStoppedKeeps ==
  ASSUME IInv, Clean_stopped
  PROVE  IInv'
<1>1. PICK gone \in SUBSET ToClean :
        tree' = [p \in Paths |-> IF p \in gone THEN None ELSE tree[p]]
  BY DEF Clean_stopped
<1>2. gone \subseteq DistFiles
  BY DEF ToClean, Present
<1>3. TreeOK'
  <2>1. Rest \in Paths /\ Rest \notin gone
    BY <1>2, PathsApart
  <2>2. QED BY <1>1, <2>1, TypesOf, BuildsIs DEF TreeOK
<1>4. OneBuild'
  <2>1. PICK n \in 0..builds : \A p \in Collectable : tree[p] \in {None, Torn, n}
    BY TypesOf DEF OneBuild
  <2>2. \A p \in Collectable : tree'[p] \in {None, Torn, n}
    BY <1>1, <2>1, PathsApart
  <2>3. QED BY <2>2 DEF OneBuild, Clean_stopped
<1>5. QED BY <1>3, <1>4, NoWheelSumsIs, TypesOf, StopKeeps DEF Clean_stopped

(* The wheel of interpreter a is written, or torn; x is what is done.      *)
LEMMA WritesKeeps ==
  ASSUME IInv, NEW p \in DistFiles, NEW x, Writes(p, builds, x), run.pc # "idle",
         UNCHANGED <<sums, wheelSums, builds>>,
         \A q \in Collectable : tree[q] \in {None, builds},
         Done(x) /\ (\A q \in Paths : tree'[q] = IF q = p THEN builds ELSE tree[q])
           => Progress'
  PROVE  IInv'
<1>1. CASE tree' = [tree EXCEPT ![p] = builds] /\ Done(x)
  <2>1. TreeOK' /\ \A q \in Paths : tree'[q] = IF q = p THEN builds ELSE tree[q]
    BY <1>1, BuildsIs, TypesOf, FilePut
  <2>2. Progress'
    BY <1>1, <2>1
  <2>3. \A q \in Collectable : tree'[q] \in {None, Torn, builds}
    BY <2>1, PathsApart
  <2>4. OneBuild'
    BY <2>3, BuildsIs, TypesOf DEF OneBuild
  <2>5. /\ run' = [run EXCEPT !.todo = @ \ {x}] /\ said' = "nothing"
    BY <1>1 DEF Done
  <2>6. TypeOK'
    BY <2>1, <2>5, TypesOf, TypeFrom DEF TypeOK
  <2>7. QED BY <2>2, <2>4, <2>5, <2>6, SaidNothing DEF IInv
<1>2. CASE tree' = [tree EXCEPT ![p] = Torn] /\ Fail(x)
  <2>1. TreeOK' /\ \A q \in Paths : tree'[q] = IF q = p THEN Torn ELSE tree[q]
    BY <1>2, BuildsIs, TypesOf, FilePut
  <2>2. \A q \in Collectable : tree'[q] \in {None, Torn, builds}
    BY <2>1, PathsApart
  <2>3. OneBuild'
    BY <2>2, BuildsIs, TypesOf DEF OneBuild
  <2>4. QED BY <1>2, <2>1, <2>3, TypesOf, StopKeeps DEF Fail
<1>3. QED BY <1>1, <1>2 DEF Writes

LEMMA BuildWheelKeeps ==
  ASSUME IInv, NEW a \in Abis, Build_wheel(a)
  PROVE  IInv'
<1> DEFINE p == <<"raw", a>>
<1>1. /\ run.pc = "build" /\ Writes(p, builds, a) /\ UNCHANGED <<sums, wheelSums, builds>>
      /\ p \in DistFiles
  BY PathsApart DEF Build_wheel, Folders
<1>2. \A q \in Collectable : tree[q] \in {None, builds}
  BY <1>1, TypesOf DEF Progress, Building
<1>3. ASSUME Done(a), \A q \in Paths : tree'[q] = IF q = p THEN builds ELSE tree[q]
      PROVE  Progress'
  <2>1. run'.pc = "build" /\ run'.todo = run.todo \ {a}
    BY <1>1, <1>3, TypesOf DEF Done, TypeOK
  <2>2. tree'[Stray] = None /\ \A q \in Collectable : tree'[q] \in {None, builds}
    BY <1>1, <1>2, <1>3, TypesOf, PathsApart DEF Progress, Building, Folders
  <2>3. \A b \in Abis \ (run.todo \ {a}) : tree'[<<"raw", b>>] = builds
    BY <1>1, <1>3, TypesOf, PathsApart DEF Progress, Folders
  <2>4. QED BY <1>1, <2>1, <2>2, <2>3 DEF Progress
<1> HIDE DEF p
<1>4. QED BY <1>1, <1>2, <1>3, WritesKeeps

LEMMA RepairWheelKeeps ==
  ASSUME IInv, NEW a \in Abis, Repair_wheel(a)
  PROVE  IInv'
<1> DEFINE p == <<"wheelhouse", a>>
<1>1. /\ run.pc = "repair" /\ UNCHANGED <<sums, wheelSums, builds>> /\ p \in DistFiles
      /\ p \notin Collectable
  BY PathsApart DEF Repair_wheel, Folders, Collectable, Wheels
<1>2. /\ \A q \in Collectable : tree[q] \in {None, builds}
      /\ tree[<<"raw", a>>] = builds /\ builds # Torn
  BY <1>1, TypesOf, BuildsIs DEF Progress, Building
<1>3. Writes(p, builds, a)
  BY <1>2 DEF Repair_wheel
<1>4. ASSUME Done(a), \A q \in Paths : tree'[q] = IF q = p THEN builds ELSE tree[q]
      PROVE  Progress'
  <2>1. run'.pc = "repair" /\ run'.todo = run.todo \ {a}
    BY <1>1, <1>4, TypesOf DEF Done, TypeOK
  <2>2. tree'[Stray] = None /\ \A q \in Collectable : tree'[q] \in {None, builds}
    BY <1>1, <1>2, <1>4, TypesOf, PathsApart DEF Progress, Building, Folders
  <2>3. \A b \in Abis : tree'[<<"raw", b>>] = builds
    BY <1>1, <1>4, TypesOf, PathsApart DEF Progress, Folders
  <2>4. \A b \in Abis \ (run.todo \ {a}) : tree'[<<"wheelhouse", b>>] = builds
    BY <1>1, <1>4, TypesOf, PathsApart DEF Progress, Folders
  <2>5. QED BY <1>1, <2>1, <2>2, <2>3, <2>4 DEF Progress
<1> HIDE DEF p
<1>5. QED BY <1>1, <1>2, <1>3, <1>4, WritesKeeps

(* Every interpreter had its turn: on to the next phase, or no further. *)
LEMMA CountedKeeps ==
  ASSUME IInv, Raw_counted \/ Final_counted
  PROVE  IInv'
<1>1. UNCHANGED <<tree, sums, wheelSums, builds>> /\ run.todo = {}
  BY DEF Raw_counted, Final_counted, Counted
<1>2. TreeOK' /\ OneBuild'
  BY <1>1, TypesOf DEF TreeOK, OneBuild
<1>3. CASE Stop
  BY <1>1, <1>3, StopOnly
<1>4. CASE run.pc = "build" /\ Begin("repair", Abis)
  <2>1. Progress'
    BY <1>1, <1>4, TypesOf DEF Begin, Progress, Building
  <2>2. QED BY <1>1, <1>2, <1>4, <2>1, TypesOf, BeginKeeps
<1>5. CASE run.pc = "repair" /\ Begin("test", Abis)
  <2>1. Progress'
    BY <1>1, <1>5, TypesOf DEF Begin, Progress, Building
  <2>2. QED BY <1>1, <1>2, <1>5, <2>1, TypesOf, BeginKeeps
<1>6. QED BY <1>3, <1>4, <1>5 DEF Raw_counted, Final_counted, Counted

LEMMA TestsDoneKeeps ==
  ASSUME IInv, Tests_done
  PROVE  IInv'
<1>1. /\ UNCHANGED <<tree, sums, wheelSums, builds>> /\ run.pc = "test" /\ Begin("sum", Abis)
  BY DEF Tests_done
<1>2. TreeOK' /\ OneBuild'
  BY <1>1, TypesOf DEF TreeOK, OneBuild
<1>3. Progress'
  BY <1>1, TypesOf DEF Begin, Progress, Building
<1>4. QED BY <1>1, <1>2, <1>3, TypesOf, BeginKeeps

(* A script is done with x and has written nothing in dist but a line.     *)
LEMMA DoneKeeps ==
  ASSUME IInv, NEW x, Done(x), run.pc # "idle", UNCHANGED <<tree, sums, builds>>,
         wheelSums' \in [Abis -> Content \ {Torn}], Progress'
  PROVE  IInv'
<1>1. run' = [run EXCEPT !.todo = @ \ {x}] /\ said' = "nothing"
  BY DEF Done
<1>2. TreeOK' /\ OneBuild'
  BY TypesOf DEF TreeOK, OneBuild
<1>3. TypeOK'
  BY <1>1, <1>2, TypesOf, TypeFrom DEF TypeOK
<1>4. QED BY <1>1, <1>2, <1>3, SaidNothing DEF IInv

LEMMA TestWheelKeeps ==
  ASSUME IInv, NEW a \in Abis, Test_wheel(a)
  PROVE  IInv'
<1>1. UNCHANGED <<tree, sums, wheelSums, builds>> /\ run.pc = "test"
  BY DEF Test_wheel
<1>2. CASE Fail(a)
  BY <1>1, <1>2, StopOnly DEF Fail
<1>3. CASE Done(a)
  <2>1. run'.pc = "test"
    BY <1>1, <1>3, TypesOf DEF Done, TypeOK
  <2>2. Progress'
    BY <1>1, <2>1, TypesOf DEF Progress, Building
  <2>3. QED BY <1>1, <1>3, <2>2, TypesOf, DoneKeeps
<1>4. QED BY <1>2, <1>3 DEF Test_wheel

LEMMA SumWheelKeeps ==
  ASSUME IInv, NEW a \in Abis, Sum_wheel(a)
  PROVE  IInv'
<1>1. /\ run.pc = "sum" /\ Done(a) /\ UNCHANGED <<tree, sums, builds>>
      /\ wheelSums' = [wheelSums EXCEPT ![a] = builds]
  BY TypesOf DEF Sum_wheel, Progress
<1>2. /\ wheelSums' \in [Abis -> Content \ {Torn}]
      /\ \A b \in Abis : wheelSums'[b] = IF b = a THEN builds ELSE wheelSums[b]
  BY <1>1, TypesOf, BuildsIs
<1>3. run'.pc = "sum" /\ run'.todo = run.todo \ {a}
  BY <1>1, TypesOf DEF Done, TypeOK
<1>4. Progress'
  BY <1>1, <1>2, <1>3, TypesOf DEF Progress, Building
<1>5. QED BY <1>1, <1>2, <1>4, DoneKeeps

LEMMA CompleteKeeps ==
  ASSUME IInv, Build_complete
  PROVE  IInv'
<1>1. /\ run.pc = "sum" /\ run.todo = {} /\ run' = Idle /\ said' = "complete"
      /\ UNCHANGED <<tree, sums, wheelSums, builds>> /\ run'.pc = "idle"
  BY DEF Build_complete, Idle
<1>2. TypeOK'
  BY <1>1, TypesOf, BuildsIs DEF TypeOK, Idle, NoLines
<1>3. Progress' /\ OneBuild'
  BY <1>1, TypesOf DEF Progress, OneBuild, Building
<1>4. CompleteIsWhole' /\ AcceptedIsWhole'
  BY <1>1, TypesOf DEF Progress, Building, CompleteIsWhole, AcceptedIsWhole
<1>5. QED BY <1>2, <1>3, <1>4 DEF IInv

-----------------------------------------------------------------------------
(* Other hands.                                                            *)

LEMMA KilledKeeps ==
  ASSUME IInv, Killed
  PROVE  IInv'
BY StopOnly DEF Killed

LEMMA MakeWheelKeeps ==
  ASSUME IInv, NEW a \in Abis, Make_wheel(a)
  PROVE  IInv'
<1> DEFINE p == <<"dist", a>>
<1>1. PICK c \in {builds, None, Torn} :
        tree' = [q \in Paths |-> IF q = p THEN c ELSE IF q \in ToClean THEN None ELSE tree[q]]
  BY DEF Make_wheel
<1>2. /\ wheelSums' = NoWheelSums /\ Stop /\ UNCHANGED <<sums, builds>>
  BY DEF Make_wheel
<1>3. p \in DistFiles /\ Rest \in Paths /\ Rest # p /\ Rest \notin ToClean /\ c \in Content
  BY PathsApart, TypesOf, BuildsIs DEF Folders, ToClean, Present
<1> HIDE DEF p
<1>4. TreeOK'
  BY <1>1, <1>3, TypesOf, BuildsIs DEF TreeOK
<1>5. \A q \in Collectable : tree'[q] \in {None, Torn, builds}
  BY <1>1, PathsApart DEF ToClean, Present
<1>6. OneBuild'
  BY <1>2, <1>5, TypesOf, BuildsIs DEF OneBuild
<1>7. QED BY <1>2, <1>4, <1>6, NoWheelSumsIs, TypesOf, StopKeeps

(* Between the scripts somebody changes a file. *)
LEMMA HandKeeps ==
  ASSUME IInv, TreeOK', OneBuild', Progress', said' = "nothing",
         UNCHANGED <<sums, wheelSums, builds, run>>
  PROVE  IInv'
<1>1. TypeOK'
  BY TypesOf, TypeFrom DEF TypeOK
<1>2. QED BY <1>1, SaidNothing DEF IInv

LEMMA CollectKeeps ==
  ASSUME IInv, NEW a \in Abis, Collect(a)
  PROVE  IInv'
<1> DEFINE p == <<"dist", a>>
           w == <<"raw", a>>
<1>1. PICK c \in {tree[w], Torn} : tree' = [tree EXCEPT ![p] = c]
  BY DEF Collect
<1>2. /\ run.pc = "idle" /\ said' = "nothing" /\ UNCHANGED <<sums, wheelSums, builds, run>>
  BY DEF Collect
<1>3. p \in DistFiles /\ w \in Collectable /\ w \in Paths /\ tree[w] \in Content
  BY PathsApart, TypesOf DEF Folders, Collectable, Wheels, TreeOK
<1>4. c \in Content
  BY <1>3, BuildsIs, TypesOf
<1> HIDE DEF p, w
<1>5. TreeOK' /\ \A q \in Paths : tree'[q] = IF q = p THEN c ELSE tree[q]
  BY <1>1, <1>3, <1>4, TypesOf, FilePut
<1>6. OneBuild'
  <2>1. PICK n \in 0..builds : \A q \in Collectable : tree[q] \in {None, Torn, n}
    BY TypesOf DEF OneBuild
  <2>2. \A q \in Collectable : tree'[q] \in {None, Torn, n}
    BY <1>1, <1>3, <1>5, <2>1, PathsApart
  <2>3. QED BY <1>2, <2>2 DEF OneBuild
<1>7. Progress'
  BY <1>2 DEF Progress, Building
<1>8. QED BY <1>2, <1>5, <1>6, <1>7, HandKeeps

LEMMA EditKeeps ==
  ASSUME IInv, Edit
  PROVE  IInv'
<1>1. /\ tree' = [tree EXCEPT ![Rest] = tree[Rest] + 1]
      /\ said' = "nothing" /\ UNCHANGED <<sums, wheelSums, builds, run>>
  BY DEF Edit
<1>2. Rest \in Paths /\ tree[Rest] + 1 \in Nat
  BY PathsApart, TypesOf DEF TreeOK, Content
<1>3. tree' \in [Paths -> Content] /\ tree'[Rest] \in Nat
      /\ \A q \in Paths \ {Rest} : tree'[q] = tree[q]
  BY <1>1, <1>2, TypesOf DEF TreeOK, Content
<1>4. TreeOK'
  BY <1>3, NamesDistinct DEF TreeOK
<1>5. OneBuild' /\ Progress'
  <2>1. /\ \A q \in Collectable : tree'[q] = tree[q]
        /\ tree'[Stray] = tree[Stray]
        /\ \A a \in Abis : /\ tree'[<<"raw", a>>] = tree[<<"raw", a>>]
                           /\ tree'[<<"wheelhouse", a>>] = tree[<<"wheelhouse", a>>]
    BY <1>3, PathsApart DEF Folders
  <2>2. OneBuild'
    BY <1>1, <2>1, TypesOf DEF OneBuild
  <2>3. Progress'
    BY <1>1, <2>1, TypesOf DEF Progress
  <2>4. QED BY <2>2, <2>3
<1>6. QED BY <1>1, <1>4, <1>5, HandKeeps

-----------------------------------------------------------------------------
(* tools/generate-checksums.sh                                             *)

LEMMA GenerateStartKeeps ==
  ASSUME IInv, Generate_start
  PROVE  IInv'
<1>1. Begin("generate", {"dist", Rest}) /\ UNCHANGED <<tree, sums, wheelSums, builds>>
  BY DEF Generate_start
<1>2. TreeOK' /\ OneBuild'
  BY <1>1, TypesOf DEF TreeOK, OneBuild
<1>3. Progress'
  BY <1>1 DEF Begin, Progress, Building
<1>4. QED BY <1>1, <1>2, <1>3, TypesOf, BeginKeeps

LEMMA GenerateLinesKeeps ==
  ASSUME IInv, NEW part \in {"dist", Rest}, Generate_lines(part)
  PROVE  IInv'
<1> DEFINE read == IF part = Rest THEN {Rest} ELSE DistFiles
           lines == [p \in Paths |-> IF p \in read THEN tree[p] ELSE run.lines[p]]
<1>1. /\ run.pc = "generate" /\ said' = "nothing"
      /\ UNCHANGED <<tree, sums, wheelSums, builds>>
      /\ run' = [run EXCEPT !.todo = @ \ {part}, !.lines = lines]
  BY DEF Generate_lines
<1>2. lines \in [Paths -> Content]
  BY TypesOf DEF TypeOK
<1> HIDE DEF lines, read
<1>3. run' = [pc |-> "generate", todo |-> run.todo \ {part}, lines |-> lines]
  BY <1>1, TypesOf DEF TypeOK
<1>4. TypeOK'
  BY <1>1, <1>2, <1>3, TypesOf, TypeFrom DEF TypeOK, TreeOK
<1>5. OneBuild' /\ Progress'
  BY <1>1, <1>3, TypesOf DEF OneBuild, Progress, Building
<1>6. QED BY <1>1, <1>4, <1>5, SaidNothing DEF IInv

LEMMA GenerateMoveKeeps ==
  ASSUME IInv, Generate_move \/ Generate_move_stopped
  PROVE  IInv'
<1>1. Stop /\ UNCHANGED <<tree, wheelSums, builds>>
  BY DEF Generate_move, Generate_move_stopped
<1>2. TreeOK' /\ OneBuild'
  BY <1>1, TypesOf DEF TreeOK, OneBuild
<1>3. sums' \in [Paths -> Content]
  <2>1. run.lines \in [Paths -> Content] /\ None \in Content
    BY TypesOf, BuildsIs DEF TypeOK
  <2>2. CASE Generate_move
    BY <2>1, <2>2 DEF Generate_move
  <2>3. CASE Generate_move_stopped
    BY <2>1, <2>3 DEF Generate_move_stopped
  <2>4. QED BY <2>2, <2>3
<1>4. QED BY <1>1, <1>2, <1>3, TypesOf, StopKeeps

-----------------------------------------------------------------------------
(* verify-release.sh                                                       *)

LEMMA WheelsFinite ==
  IsFiniteSet(Wheels("dist")) /\ Cardinality(Wheels("dist")) = Cardinality(Abis)
<1> DEFINE f == [a \in Abis |-> <<"dist", a>>]
<1>1. f \in Bijection(Abis, Wheels("dist"))
  <2>1. f \in [Abis -> Wheels("dist")] /\ DOMAIN f = Abis
    BY DEF Wheels
  <2>2. \A a \in Abis : f[a] = <<"dist", a>>
    OBVIOUS
  <2>3. \A p \in Wheels("dist") : \E a \in Abis : p = <<"dist", a>>
    BY DEF Wheels
  <2> HIDE DEF f
  <2>4. f \in Injection(Abis, Wheels("dist"))
    BY <2>1, <2>2 DEF Injection, IsInjective
  <2>5. f \in Surjection(Abis, Wheels("dist"))
    BY <2>1, <2>2, <2>3 DEF Surjection
  <2>6. QED BY <2>4, <2>5 DEF Bijection
<1>2. IsFiniteSet(Abis)
  BY Bounds, Zenon
<1>3. ExistsBijection(Abis, Wheels("dist"))
  BY <1>1 DEF ExistsBijection
<1>4. QED BY <1>2, <1>3, FS_Bijection

(* One wheel for each interpreter, and as many as there are interpreters:  *)
(* then there is no other.                                                 *)
LEMMA NoStray ==
  ASSUME WheelsAccepted
  PROVE  tree[Stray] = None
<1> SUFFICES ASSUME tree[Stray] # None PROVE FALSE
  OBVIOUS
<1>1. Present({Stray} \cup Wheels("dist")) = Wheels("dist") \cup {Stray}
  BY DEF WheelsAccepted, Present
<1>2. Stray \notin Wheels("dist")
  BY NamesDistinct DEF Wheels
<1>3. Cardinality(Wheels("dist") \cup {Stray}) = Cardinality(Abis) + 1
  BY <1>2, WheelsFinite, FS_AddElement
<1>4. Cardinality(Abis) \in Nat
  <2>1. IsFiniteSet(Abis)
    BY Bounds, Zenon
  <2>2. QED BY <2>1, FS_CardinalityType
<1>5. Cardinality(Abis) + 1 = Cardinality(Abis)
  BY <1>1, <1>3 DEF WheelsAccepted
<1>6. QED BY <1>4, <1>5

LEMMA VerifyKeeps ==
  ASSUME IInv, NEW tool \in BOOLEAN, Verify(tool)
  PROVE  IInv'
<1>1. /\ UNCHANGED <<tree, sums, wheelSums, builds, run>> /\ run.pc = "idle"
      /\ said' \in {"fail", "pass", "pass without sha256sum"}
      /\ said' = "pass" => WheelsAccepted /\ SumsAccepted
  BY DEF Verify
<1>2. TypeOK'
  BY <1>1, TypesOf DEF TypeOK
<1>3. Progress' /\ OneBuild'
  BY <1>1, TypesOf DEF Progress, OneBuild
<1>4. CompleteIsWhole'
  BY <1>1 DEF CompleteIsWhole
<1>5. AcceptedIsWhole'
  <2> SUFFICES ASSUME said' = "pass"
               PROVE  /\ tree[Stray] = None
                      /\ \E n \in 0..MaxBuilds : \A a \in Abis : tree[<<"dist", a>>] = n
                      /\ \A p \in Paths : sums[p] \in {None, tree[p]}
    BY <1>1 DEF AcceptedIsWhole
  <2>1. tree[Stray] = None /\ \A p \in Paths : sums[p] \in {None, tree[p]}
    BY <1>1, NoStray DEF SumsAccepted
  <2>2. PICK n \in 0..builds : \A p \in Collectable : tree[p] \in {None, Torn, n}
    BY TypesOf DEF OneBuild
  <2>3. \A a \in Abis : tree[<<"dist", a>>] = n
    BY <1>1, <2>2 DEF WheelsAccepted, Collectable, Wheels
  <2>4. n \in 0..MaxBuilds
    <3>1. MaxBuilds \in Nat
      BY Bounds, Zenon
    <3>2. builds \in 0..MaxBuilds /\ n \in 0..builds
      BY TypesOf
    <3>3. QED BY <3>1, <3>2
  <2>5. QED BY <2>1, <2>3, <2>4
<1>6. QED BY <1>2, <1>3, <1>4, <1>5 DEF IInv

-----------------------------------------------------------------------------
(* The invariant.                                                          *)

LEMMA IInvInit == Init => IInv
<1> SUFFICES ASSUME Init PROVE IInv
  OBVIOUS
<1>1. None \in Content /\ Torn \in Content /\ 0 \in Content /\ NoLines \in [Paths -> Content]
      /\ 0 \notin {None, Torn} /\ None # Torn
  BY NamesDistinct DEF Content, NoLines
<1>2. PICK old \in {None, 0} :
        tree = [p \in Paths |-> IF p = Stray THEN old
                                ELSE IF p \in {Rest} \cup Wheels("dist") THEN 0 ELSE None]
  BY DEF Init
<1>3. TreeOK
  BY <1>1, <1>2, PathsApart DEF TreeOK
<1>4. /\ sums \in [Paths -> Content] /\ wheelSums \in [Abis -> Content \ {Torn}]
      /\ run = Idle /\ said = "nothing"
  BY <1>1, <1>3 DEF Init, TreeOK
<1>5. builds \in 0..MaxBuilds /\ builds = 0
  <2>1. MaxBuilds \in Nat
    BY Bounds, Zenon
  <2>2. QED BY <2>1 DEF Init
<1>6. TypeOK
  BY <1>1, <1>3, <1>4, <1>5 DEF TypeOK, TreeOK, Idle
<1>7. Progress /\ CompleteIsWhole /\ AcceptedIsWhole
  BY <1>4 DEF Progress, Building, Idle, CompleteIsWhole, AcceptedIsWhole
<1>8. OneBuild
  <2>1. \A p \in Collectable : tree[p] \in {None, Torn, 0}
    BY <1>2, PathsApart
  <2>2. QED BY <1>5, <2>1 DEF OneBuild
<1>9. QED BY <1>6, <1>7, <1>8 DEF IInv

LEMMA IInvStep == IInv /\ [Next]_vars => IInv'
<1> SUFFICES ASSUME IInv, [Next]_vars PROVE IInv'
  OBVIOUS
<1>1. CASE Build
  BY <1>1, StartKeeps, CleanKeeps, CleanStoppedKeeps, CountedKeeps, TestsDoneKeeps,
     CompleteKeeps, BuildWheelKeeps, RepairWheelKeeps, TestWheelKeeps, SumWheelKeeps DEF Build
<1>2. CASE Generate
  BY <1>2, GenerateStartKeeps, GenerateLinesKeeps, GenerateMoveKeeps DEF Generate
<1>3. CASE Killed \/ Make_start \/ Edit
  BY <1>3, KilledKeeps, StartKeeps, EditKeeps
<1>4. ASSUME NEW a \in Abis, Make_wheel(a) \/ Collect(a) PROVE IInv'
  BY <1>4, MakeWheelKeeps, CollectKeeps
<1>5. ASSUME NEW tool \in BOOLEAN, Verify(tool) PROVE IInv'
  BY <1>5, VerifyKeeps
<1>6. CASE UNCHANGED vars
  BY <1>6 DEF IInv, TypeOK, Progress, OneBuild, CompleteIsWhole, AcceptedIsWhole, vars
<1>7. QED BY <1>1, <1>2, <1>3, <1>4, <1>5, <1>6 DEF Next

LEMMA IInvAlways == Spec => []IInv
BY IInvInit, IInvStep, PTL DEF Spec

-----------------------------------------------------------------------------
(* Every variable keeps its type; in particular no line of the wheels'     *)
(* own list is ever of a torn file.                                        *)
THEOREM ReleaseTypeCorrect == Spec => []TypeOK
BY IInvAlways, PTL DEF IInv

(* What the build calls complete (build_python_wheels.sh, set -e and the   *)
(* counts) has a whole wheel of this build for every interpreter, listed   *)
(* as it is, and nothing older in dist.                                    *)
THEOREM CompleteBuildIsWhole == Spec => []CompleteIsWhole
BY IInvAlways, PTL DEF IInv

(* What verify-release.sh passes has one whole wheel for each interpreter  *)
(* and no other, all of one build, and nothing that was edited since it    *)
(* was listed, whatever was stopped or copied before.                      *)
THEOREM VerifiedIsWhole == Spec => []AcceptedIsWhole
BY IInvAlways, PTL DEF IInv
=============================================================================
