------------------------------ MODULE Installer ------------------------------
(***************************************************************************)
(* install.sh and uninstall.sh working on one prefix.  The installer puts  *)
(* the files of a release in place one by one and writes the manifest that *)
(* names them last; the uninstaller takes its work from that manifest.     *)
(* Either script may stop anywhere, because a command fails (set -e) or    *)
(* because it is killed; nobody undoes what it has done.                   *)
(*                                                                         *)
(* What a path holds is the release it came from.  Left out: the options   *)
(* and checks that only refuse to start, --dry-run, --prefix and --libdir  *)
(* (every run is given the same ones), ldconfig and file modes.            *)
(***************************************************************************)
EXTENDS Naturals, Sequences, FiniteSets, SequencesExt

CONSTANTS
  Releases,   (* Releases of the SDK.                                      *)
  Selections, (* The sets of optional parts users ask for.                 *)
  Headers, CppHeaders, Configs, Docs, DocPages,
              (* The names in each part of a release, in install order.    *)
  Artifacts,  (* Releases -> its library artifacts, sorted by name.        *)
  Target,     (* Releases -> what its artifacts that are links point at.   *)
  Shared,     (* Directories other packages may use.                       *)
  NULL

Manifest == "install-manifest.txt"

(* What an installation puts in place, in order. *)
Payload(r, c) ==
  Headers \o (IF "cpp" \in c THEN CppHeaders ELSE <<>>) \o Artifacts[r]
    \o Configs \o (IF "docs" \in c THEN Docs \o DocPages ELSE <<>>)

Paths == UNION {ToSet(Payload(r, c)) : r \in Releases, c \in Selections}

DirOf(p) ==
  CASE p \in ToSet(Headers) \cup ToSet(CppHeaders) -> "include/dense"
    [] p \in ToSet(Configs)  -> "lib/pkgconfig"
    [] p \in ToSet(Docs)     -> "share/doc/dense"
    [] p \in ToSet(DocPages) -> "share/doc/dense/docs"
    [] p = Manifest          -> "share/dense"
    [] OTHER                 -> "lib"

(* Every directory the scripts touch below the prefix, with the one above. *)
ParentOf ==
  [d \in {"include", "include/dense", "lib", "lib/pkgconfig", "share",
          "share/dense", "share/doc", "share/doc/dense", "share/doc/dense/docs"} |->
     CASE d = "include/dense"                   -> "include"
       [] d = "lib/pkgconfig"                   -> "lib"
       [] d \in {"share/dense", "share/doc"}    -> "share"
       [] d = "share/doc/dense"                 -> "share/doc"
       [] d = "share/doc/dense/docs"            -> "share/doc/dense"
       [] OTHER                                 -> NULL]

Dirs == DOMAIN ParentOf

(* What install -d makes for a directory: it and those above it. *)
Above[d \in Dirs \cup {NULL}] ==
  IF d = NULL THEN {} ELSE {d} \cup Above[ParentOf[d]]

ASSUME NamesDistinct == Manifest \notin Paths /\ Shared \subseteq Dirs

(* HEADERS (125-135) is never empty.  A release may be without the other parts. *)
ASSUME PartsAreLists ==
  /\ {Headers, CppHeaders, Configs, Docs, DocPages} \subseteq Seq(STRING)
  /\ Artifacts \in [Releases -> Seq(STRING)]
  /\ Headers # <<>>

ASSUME FewReleases == IsFiniteSet(Releases) /\ IsFiniteSet(Selections)
ASSUME NullDistinct == NULL \notin Dirs /\ NULL \notin Seq(Paths \cup {Manifest})

VARIABLES
  tree,     (* Paths -> what is there: a release, "partial" or "none".     *)
  dirs,     (* The directories that exist.                                 *)
  foreign,  (* Directories that hold files of other packages.              *)
  manifest, (* The manifest's lines, or NULL when there is none.           *)
  run,      (* The script that runs or ran last: where it is, what it      *)
            (* installs, the work left, and MANIFEST_TMP or the lines read.*)
  used      (* Auxiliary: the one release and selection installed so far,  *)
            (* or all of them once there were two.                         *)

vars == <<tree, dirs, foreign, manifest, run, used>>

Running == {"clear", "place", "manifest", "write", "remove", "rmdir"}
Ended   == {"never ran", "installed", "removed", "stopped"}

Installed == {p \in Paths : tree[p] # "none"}

(* The tree stays a tree (uninstall.sh 125-141): no directory is removed   *)
(* that still holds a file, a directory or something of another package.   *)
TreeKept ==
  /\ foreign \subseteq dirs
  /\ \A p \in Installed : DirOf(p) \in dirs
  /\ \A d \in dirs : ParentOf[d] = NULL \/ ParentOf[d] \in dirs
  /\ manifest # NULL => DirOf(Manifest) \in dirs

TypeOK ==
  /\ tree \in [Paths -> Releases \cup {"none", "partial"}]
  /\ dirs \in SUBSET Dirs
  /\ foreign \in SUBSET Dirs
  /\ manifest = NULL \/ manifest \in Seq(Paths \cup {Manifest})
  /\ run \in [pc: Running \cup Ended, release: Releases \cup {NULL},
              choice: Selections \cup {{}},
              queue: Seq(Paths \cup {Manifest} \cup Dirs),
              lines: Seq(Paths \cup {Manifest})]
  /\ run.queue # <<>> <=> run.pc \in {"clear", "place", "remove", "rmdir"}
  /\ used \subseteq Releases \X Selections
  /\ TreeKept

Init ==
  /\ tree = [p \in Paths |-> "none"]
  /\ dirs \in {UNION {Above[d] : d \in ds} : ds \in SUBSET Shared}
  /\ foreign \in SUBSET (dirs \cap Shared)
  /\ manifest = NULL
  /\ run = [pc |-> "never ran", release |-> NULL, choice |-> {},
            queue |-> <<>>, lines |-> <<>>]
  /\ used = {}

Put(p, what) == tree' = [tree EXCEPT ![p] = what]

-----------------------------------------------------------------------------
(* install.sh *)

Install_start(r, c) ==
  /\ run.pc \in Ended
  /\ run' = [pc |-> "clear", release |-> r, choice |-> c,
             queue |-> Payload(r, c), lines |-> <<>>]
  /\ used' = IF used \subseteq {<<r, c>>} THEN {<<r, c>>} ELSE Releases \X Selections
  /\ UNCHANGED <<tree, dirs, foreign, manifest>>

IsLink(p) == p \in DOMAIN Target[run.release]

(* Defect: a path that is there already is recorded and left alone. *)
Install_clear_skips ==
  /\ run.pc = "clear"
  /\ LET p == Head(run.queue) IN
       /\ dirs' = dirs \cup Above[DirOf(p)]
       /\ \/ /\ tree[p] = "none"
             /\ Put(p, IF IsLink(p) THEN "none" ELSE "partial")
             /\ run' = [run EXCEPT !.pc = "place"]
          \/ /\ tree[p] # "none"
             /\ UNCHANGED tree
             /\ run' = [run EXCEPT !.pc = IF Len(run.queue) = 1 THEN "manifest" ELSE "clear",
                                   !.queue = Tail(@), !.lines = Append(@, p)]
  /\ UNCHANGED <<foreign, manifest, used>>

(* The directory is made, then rm -f for a link; install removes what is   *)
(* there and begins to copy for a file.                                    *)
Install_clear ==
  /\ run.pc = "clear"
  /\ LET p == Head(run.queue) IN
       /\ dirs' = dirs \cup Above[DirOf(p)]
       /\ Put(p, IF IsLink(p) THEN "none" ELSE "partial")
  /\ run' = [run EXCEPT !.pc = "place"]
  /\ UNCHANGED <<foreign, manifest, used>>

(* Defect: a link is not recorded. *)
Install_place_unrecorded ==
  /\ run.pc = "place"
  /\ LET p == Head(run.queue) IN
       /\ Put(p, run.release)
       /\ run' = [run EXCEPT !.pc = IF Len(run.queue) = 1 THEN "manifest" ELSE "clear",
                             !.queue = Tail(@),
                             !.lines = IF IsLink(p) THEN @ ELSE Append(@, p)]
  /\ UNCHANGED <<dirs, foreign, manifest, used>>

(* The file is copied or the link made, and the path recorded. *)
Install_place ==
  /\ run.pc = "place"
  /\ LET p == Head(run.queue) IN
       /\ Put(p, run.release)
       /\ run' = [run EXCEPT !.pc = IF Len(run.queue) = 1 THEN "manifest" ELSE "clear",
                             !.queue = Tail(@), !.lines = Append(@, p)]
  /\ UNCHANGED <<dirs, foreign, manifest, used>>

(* The manifest records itself, last; installing it removes the old one. *)
Install_manifest ==
  /\ run.pc = "manifest"
  /\ dirs' = dirs \cup Above[DirOf(Manifest)]
  /\ manifest' = NULL
  /\ run' = [run EXCEPT !.pc = "write", !.lines = Append(@, Manifest)]
  /\ UNCHANGED <<tree, foreign, used>>

Install_write ==
  /\ run.pc = "write"
  /\ manifest' = run.lines
  /\ run' = [run EXCEPT !.pc = "installed"]
  /\ UNCHANGED <<tree, dirs, foreign, used>>

-----------------------------------------------------------------------------
(* uninstall.sh *)

(* Without a manifest, or with an empty one, the uninstaller refuses. *)
Uninstall_start ==
  /\ run.pc \in Ended
  /\ manifest # NULL
  /\ manifest # <<>>
  /\ run' = [pc |-> "remove", release |-> NULL, choice |-> {},
             queue |-> Reverse(manifest), lines |-> manifest]
  /\ UNCHANGED <<tree, dirs, foreign, manifest, used>>

(* The directories it tries to remove, in order. *)
Emptied ==
  <<"share/dense", "share/doc/dense/docs", "share/doc/dense", "lib/pkgconfig",
    "lib", "include/dense">>

NextRemoval ==
  run' = IF Len(run.queue) = 1 THEN [run EXCEPT !.pc = "rmdir", !.queue = Emptied]
                               ELSE [run EXCEPT !.queue = Tail(@)]

(* Defect: -e alone, which follows a link: one that dangles is kept. *)
Uninstall_remove_dangling ==
  /\ run.pc = "remove"
  /\ LET p == Head(run.queue) IN
       IF p = Manifest THEN manifest' = NULL /\ UNCHANGED tree
       ELSE /\ UNCHANGED manifest
            /\ IF \E r \in Releases : /\ p \in DOMAIN Target[r]
                                      /\ tree[p] = r
                                      /\ tree[Target[r][p]] = "none"
               THEN UNCHANGED tree ELSE Put(p, "none")
  /\ NextRemoval
  /\ UNCHANGED <<dirs, foreign, used>>

(* rm -f of the last entry left, whatever it is now, the manifest first. *)
Uninstall_remove ==
  /\ run.pc = "remove"
  /\ LET p == Head(run.queue) IN
       IF p = Manifest THEN manifest' = NULL /\ UNCHANGED tree
                       ELSE Put(p, "none") /\ UNCHANGED manifest
  /\ NextRemoval
  /\ UNCHANGED <<dirs, foreign, used>>

(* Defect: only files count, not directories. *)
IsEmpty_of_files(d) ==
  /\ d \notin foreign
  /\ manifest # NULL => DirOf(Manifest) # d
  /\ \A p \in Installed : DirOf(p) # d

IsEmpty(d) ==
  /\ d \notin foreign
  /\ manifest # NULL => DirOf(Manifest) # d
  /\ \A p \in Installed : DirOf(p) # d
  /\ \A e \in dirs : ParentOf[e] # d

Uninstall_rmdir ==
  /\ run.pc = "rmdir"
  /\ LET d == Head(run.queue) IN
       dirs' = IF d \in dirs /\ IsEmpty(d) THEN dirs \ {d} ELSE dirs
  /\ run' = [run EXCEPT !.pc = IF Len(run.queue) = 1 THEN "removed" ELSE "rmdir",
                        !.queue = Tail(@)]
  /\ UNCHANGED <<tree, foreign, manifest, used>>

-----------------------------------------------------------------------------
(* A script fails or is killed.  Copying the manifest may have written some *)
(* of its lines.                                                           *)
Stop ==
  /\ run.pc \in Running
  /\ run' = [run EXCEPT !.pc = "stopped", !.queue = <<>>]
  /\ \/ UNCHANGED manifest
     \/ run.pc = "write" /\ \E n \in 0..Len(run.lines) - 1 :
                              manifest' = SubSeq(run.lines, 1, n)
  /\ UNCHANGED <<tree, dirs, foreign, used>>

Install ==
  \/ \E r \in Releases, c \in Selections : Install_start(r, c)
  \/ Install_clear
  \/ Install_place
  \/ Install_manifest
  \/ Install_write

Uninstall == Uninstall_start \/ Uninstall_remove \/ Uninstall_rmdir

Next == Install \/ Uninstall \/ Stop

Spec == Init /\ [][Next]_vars

-----------------------------------------------------------------------------
(* After an installation that ran to its end (270-320), whatever runs were *)
(* interrupted before it and of whatever release: every path of the        *)
(* release is whole and of this release, and the manifest names them and   *)
(* itself.                                                                 *)
InstalledWhole ==
  run.pc = "installed" =>
    LET mine == ToSet(Payload(run.release, run.choice)) IN
    /\ manifest # NULL /\ ToSet(manifest) = mine \cup {Manifest}
    /\ \A p \in mine : tree[p] = run.release

Uniform == Cardinality(used) = 1

(* When the same release is installed the same way each time: the manifest *)
(* names itself last (316-320), so one that names itself names everything  *)
(* that any run, finished or not, has left in the prefix.                  *)
ManifestCovers ==
  Uniform /\ run.pc \in Ended /\ manifest # NULL =>
    (Manifest \in ToSet(manifest) => Installed \subseteq ToSet(manifest))

(* And an uninstallation from such a manifest that ran to its end leaves   *)
(* nothing: no file, and no directory of the list that is empty            *)
(* (docs/RELEASE-CHECKLIST.md 24: complete uninstall).                     *)
UninstallComplete ==
  Uniform /\ run.pc = "removed" /\ Manifest \in ToSet(run.lines) =>
    /\ Installed = {} /\ manifest = NULL
    /\ \A d \in dirs \cap ToSet(Emptied) : ~IsEmpty(d)
=============================================================================
