--------------------------- MODULE ReleaseTooling ---------------------------
(***************************************************************************)
(* The scripts that make a release out of the repository's tree:           *)
(* build_python_wheels.sh builds wheels, repairs and tests them; a         *)
(* maintainer, or make wheel, puts wheels directly into dist;              *)
(* tools/generate-checksums.sh writes SHA256SUMS; verify-release.sh says   *)
(* whether the tree is a release.  A script stops at the first command     *)
(* that fails (set -e) or when it is killed, and leaves what is there.     *)
(* One script or copy is under way at a time; files outside dist can be    *)
(* edited at any moment.                                                   *)
(*                                                                         *)
(* What a wheel holds is the number of the build that made it.  Left out:  *)
(* tools, interpreters, environments and logs, the option --metadata-only  *)
(* (which looks at nothing modelled here), and the order of the            *)
(* interpreters, which changes nothing that follows.                       *)
(***************************************************************************)
EXTENDS Naturals, FiniteSets

CONSTANTS
  Abis,      (* Interpreters there is a wheel for; four in the scripts.    *)
  Stray,     (* A wheel of an earlier version, directly in dist.           *)
  Rest,      (* The files outside dist.                                    *)
  None,      (* No file; no line in a list.                                *)
  Torn,      (* A file that was not written to its end.                    *)
  MaxBuilds, (* Bound: builds.                                             *)
  MaxEdits   (* Bound: edits.                                              *)

ASSUME NamesDistinct ==
  /\ {Stray, Rest} \cap ({"raw", "wheelhouse", "dist"} \X Abis) = {}
  /\ Stray # Rest /\ None # Torn /\ {None, Torn} \cap Nat = {}
ASSUME Bounds == MaxBuilds \in Nat /\ MaxEdits \in Nat /\ IsFiniteSet(Abis)

Wheels(d) == {d} \X Abis
DistFiles == {Stray} \cup Wheels("raw") \cup Wheels("wheelhouse") \cup Wheels("dist")
Paths     == {Rest} \cup DistFiles
Content   == Nat \cup {None, Torn}

VARIABLES
  tree,      (* Paths -> what is there.                                    *)
  sums,      (* SHA256SUMS: the content each path is listed with.          *)
  wheelSums, (* dist/SHA256SUMS, the same for the wheelhouse.              *)
  builds,    (* The number of the latest build.                            *)
  run,       (* The script in progress: what it is doing, to what, and the *)
             (* lines it has collected.                                    *)
  said       (* What a script said when it ended, else "nothing".          *)

vars == <<tree, sums, wheelSums, builds, run, said>>

NoLines == [p \in Paths |-> None]
Idle    == [pc |-> "idle", todo |-> {}, lines |-> NoLines]

TypeOK ==
  /\ tree \in [Paths -> Content] /\ tree[Rest] \notin {None, Torn}
  /\ sums \in [Paths -> Content]
  /\ wheelSums \in [Abis -> Content \ {Torn}]
  /\ builds \in 0..MaxBuilds
  /\ run \in [pc: {"idle", "clean", "clean for make", "build", "repair", "test",
                   "sum", "generate"},
              todo: SUBSET (Abis \cup {"dist", Rest}),
              lines: [Paths -> Content]]
  /\ run.pc = "idle" => run = Idle
  /\ said \in {"nothing", "complete", "pass", "pass without sha256sum", "fail"}

(* A tree with the wheels of build 0, with or without older ones and lists.*)
Init ==
  /\ \E old \in {None, 0} :
       tree = [p \in Paths |-> IF p = Stray THEN old
                               ELSE IF p \in {Rest} \cup Wheels("dist") THEN 0 ELSE None]
  /\ sums \in {tree, NoLines}
  /\ wheelSums = [a \in Abis |-> None]
  /\ builds = 0
  /\ run = Idle
  /\ said = "nothing"

-----------------------------------------------------------------------------
(* Running a script.                                                       *)

Begin(pc, todo) ==
  run' = [pc |-> pc, todo |-> todo, lines |-> NoLines] /\ said' = "nothing"

Stop    == run' = Idle /\ said' = "nothing"
Done(x) == run' = [run EXCEPT !.todo = @ \ {x}] /\ said' = "nothing"

(* Defect: set -e is missing. *)
Fail_goes_on(x) == Done(x)

(* A command that was busy with x fails. *)
Fail(x) == Stop

(* A command writes file p: to its end, or the script stops. *)
Writes(p, c, x) ==
  \/ tree' = [tree EXCEPT ![p] = c] /\ Done(x)
  \/ tree' = [tree EXCEPT ![p] = Torn] /\ Fail(x)

Present(S) == {p \in S : tree[p] # None}

(* What rm -rf dist has still to remove. *)
ToClean == Present(DistFiles)

-----------------------------------------------------------------------------
(* build_python_wheels.sh                                                  *)

Build_start ==
  /\ run.pc = "idle" /\ builds < MaxBuilds
  /\ builds' = builds + 1
  /\ Begin("clean", {})
  /\ UNCHANGED <<tree, sums, wheelSums>>

NoWheelSums == [a \in Abis |-> None]

(* rm -rf dist, and what of it is done when it is stopped. *)
Clean ==
  /\ run.pc = "clean"
  /\ tree' = [p \in Paths |-> IF p \in ToClean THEN None ELSE tree[p]]
  /\ wheelSums' = NoWheelSums
  /\ Begin("build", Abis)
  /\ UNCHANGED <<sums, builds>>

Clean_stopped ==
  /\ run.pc \in {"clean", "clean for make"}
  /\ \E gone \in SUBSET ToClean :
       tree' = [p \in Paths |-> IF p \in gone THEN None ELSE tree[p]]
  /\ wheelSums' \in {wheelSums, NoWheelSums}
  /\ Stop
  /\ UNCHANGED <<sums, builds>>

Build_wheel(a) ==
  /\ run.pc = "build" /\ a \in run.todo
  /\ Writes(<<"raw", a>>, builds, a)
  /\ UNCHANGED <<sums, wheelSums, builds>>

(* Every interpreter had its turn: are there as many wheels? *)
Counted(d, next) ==
  /\ run.todo = {}
  /\ IF Cardinality(Present(Wheels(d))) = Cardinality(Abis)
       THEN Begin(next, Abis) ELSE Stop
  /\ UNCHANGED <<tree, sums, wheelSums, builds>>

Raw_counted == run.pc = "build" /\ Counted("raw", "repair")

(* auditwheel refuses what is not a wheel. *)
Repair_wheel(a) ==
  /\ run.pc = "repair" /\ a \in run.todo
  /\ IF tree[<<"raw", a>>] = Torn
       THEN Fail(a) /\ UNCHANGED tree
       ELSE Writes(<<"wheelhouse", a>>, tree[<<"raw", a>>], a)
  /\ UNCHANGED <<sums, wheelSums, builds>>

Final_counted == run.pc = "repair" /\ Counted("wheelhouse", "test")

(* Installing the wheel of interpreter a and importing it. *)
Test_wheel(a) ==
  /\ run.pc = "test" /\ a \in run.todo
  /\ IF tree[<<"wheelhouse", a>>] \in {None, Torn}
       THEN Fail(a)
       ELSE Done(a) \/ Fail(a)
  /\ UNCHANGED <<tree, sums, wheelSums, builds>>

Tests_done ==
  /\ run.pc = "test" /\ run.todo = {}
  /\ Begin("sum", Abis)
  /\ UNCHANGED <<tree, sums, wheelSums, builds>>

(* One line of dist/SHA256SUMS. *)
Sum_wheel(a) ==
  /\ run.pc = "sum" /\ a \in run.todo
  /\ wheelSums' = [wheelSums EXCEPT ![a] = tree[<<"wheelhouse", a>>]]
  /\ Done(a)
  /\ UNCHANGED <<tree, sums, builds>>

Build_complete ==
  /\ run.pc = "sum" /\ run.todo = {}
  /\ run' = Idle /\ said' = "complete"
  /\ UNCHANGED <<tree, sums, wheelSums, builds>>

Killed ==
  /\ run.pc # "idle"
  /\ Stop
  /\ UNCHANGED <<tree, sums, wheelSums, builds>>

-----------------------------------------------------------------------------
(* Other hands.                                                            *)

(* make wheel: rm -rf dist, then one wheel directly in dist. *)
Make_start ==
  /\ run.pc = "idle" /\ builds < MaxBuilds
  /\ builds' = builds + 1
  /\ Begin("clean for make", {})
  /\ UNCHANGED <<tree, sums, wheelSums>>

Make_wheel(a) ==
  /\ run.pc = "clean for make"
  /\ \E c \in {builds, None, Torn} :
       tree' = [p \in Paths |-> IF p = <<"dist", a>> THEN c
                                ELSE IF p \in ToClean THEN None ELSE tree[p]]
  /\ wheelSums' = NoWheelSums
  /\ Stop
  /\ UNCHANGED <<sums, builds>>

(* The verifier wants the raw wheels directly in dist; nothing in the      *)
(* repository puts them there.                                             *)
Collect(a) ==
  /\ run.pc = "idle"
  /\ tree[<<"raw", a>>] # None
  /\ \E c \in {tree[<<"raw", a>>], Torn} : tree' = [tree EXCEPT ![<<"dist", a>>] = c]
  /\ said' = "nothing"
  /\ UNCHANGED <<sums, wheelSums, builds, run>>

Edit ==
  /\ tree[Rest] < MaxEdits
  /\ tree' = [tree EXCEPT ![Rest] = @ + 1]
  /\ said' = "nothing"
  /\ UNCHANGED <<sums, wheelSums, builds, run>>

-----------------------------------------------------------------------------
(* tools/generate-checksums.sh                                             *)

Generate_start ==
  /\ run.pc = "idle"
  /\ Begin("generate", {"dist", Rest})
  /\ UNCHANGED <<tree, sums, wheelSums, builds>>

(* The lines go to a temporary file.  Nothing changes in dist meanwhile;   *)
(* other files can be edited before or after their turn.                   *)
Generate_lines(part) ==
  /\ run.pc = "generate" /\ part \in run.todo
  /\ LET read == IF part = Rest THEN {Rest} ELSE DistFiles IN
       run' = [run EXCEPT
         !.todo  = @ \ {part},
         !.lines = [p \in Paths |-> IF p \in read THEN tree[p] ELSE @[p]]]
  /\ said' = "nothing"
  /\ UNCHANGED <<tree, sums, wheelSums, builds>>

Generate_move ==
  /\ run.pc = "generate" /\ run.todo = {}
  /\ sums' = run.lines
  /\ Stop
  /\ UNCHANGED <<tree, wheelSums, builds>>

(* The files of dist as sort -z brings them. *)
InListOrder == <<{Stray}, Wheels("dist"), Wheels("raw"), Wheels("wheelhouse")>>

(* mv from another file system copies: stopped, it leaves the first lines. *)
(* The files outside dist come before and after it.  When only some of     *)
(* them are listed, an edit concerns a listed one or not: the list is then *)
(* one that names Rest, or one that does not.                              *)
Generate_move_stopped ==
  /\ run.pc = "generate" /\ run.todo = {}
  /\ \E i \in 1..4, others \in {{}, {Rest}} : \E part \in SUBSET InListOrder[i] :
       LET listed == UNION {InListOrder[j] : j \in 1..(i - 1)} \cup part \cup others IN
       sums' = [p \in Paths |-> IF p \in listed THEN run.lines[p] ELSE None]
  /\ Stop
  /\ UNCHANGED <<tree, wheelSums, builds>>

-----------------------------------------------------------------------------
(* verify-release.sh                                                       *)

(* Defect: the wheels are not counted. *)
WheelsAccepted_uncounted ==
  \A p \in Wheels("dist") : tree[p] \notin {None, Torn}

(* Every wheel has its name, is intact, and there are no others. *)
WheelsAccepted ==
  /\ \A p \in Wheels("dist") : tree[p] \notin {None, Torn}
  /\ Cardinality(Present({Stray} \cup Wheels("dist"))) = Cardinality(Abis)

SumsAccepted == sums # NoLines /\ \A p \in Paths : sums[p] \in {None, tree[p]}

(* tool: there is a sha256sum.  Without it SHA256SUMS has only to exist.   *)
(* The rest of the tree may be refused as well.                            *)
Verify(tool) ==
  /\ run.pc = "idle"
  /\ said' \in {"fail"} \cup
       (IF WheelsAccepted /\ (IF tool THEN SumsAccepted ELSE sums # NoLines)
          THEN {IF tool THEN "pass" ELSE "pass without sha256sum"} ELSE {})
  /\ UNCHANGED <<tree, sums, wheelSums, builds, run>>

-----------------------------------------------------------------------------
Build ==
  \/ Build_start
  \/ Clean
  \/ Clean_stopped
  \/ Raw_counted
  \/ Final_counted
  \/ Tests_done
  \/ Build_complete
  \/ \E a \in Abis : Build_wheel(a) \/ Repair_wheel(a) \/ Test_wheel(a) \/ Sum_wheel(a)

Generate ==
  \/ Generate_start
  \/ \E part \in {"dist", Rest} : Generate_lines(part)
  \/ Generate_move
  \/ Generate_move_stopped

Next ==
  \/ Build
  \/ Generate
  \/ Killed
  \/ Make_start
  \/ Edit
  \/ \E a \in Abis : Make_wheel(a) \/ Collect(a)
  \/ \E tool \in BOOLEAN : Verify(tool)

Spec == Init /\ [][Next]_vars

-----------------------------------------------------------------------------
(* When the build says that it is complete, there is a whole wheel of this *)
(* build for every interpreter, listed as it is, and nothing older in dist.*)
CompleteIsWhole ==
  said = "complete" =>
    /\ tree[Stray] = None
    /\ \A a \in Abis : tree[<<"wheelhouse", a>>] = builds /\ wheelSums[a] = builds

(* What the verifier accepts has one whole wheel for each interpreter, all *)
(* of one build, whatever builds and copies were stopped before.  What     *)
(* SHA256SUMS lists is as it was listed; a list that was cut short does    *)
(* not name everything.                                                    *)
AcceptedIsWhole ==
  said = "pass" =>
    /\ tree[Stray] = None
    /\ \E n \in 0..MaxBuilds : \A a \in Abis : tree[<<"dist", a>>] = n
    /\ \A p \in Paths : sums[p] \in {None, tree[p]}
=============================================================================
