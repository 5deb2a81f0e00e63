-------------------------- MODULE Installer_proofs --------------------------
(***************************************************************************)
(* Proofs about Installer, for any finite sets of releases and selections, *)
(* any parts of a release and any directories that others use.             *)
(***************************************************************************)
EXTENDS Installer, SequenceTheorems, FiniteSetTheorems, TLAPS

Lines == Paths \cup {Manifest}
Mine == ToSet(Payload(run.release, run.choice))

(* What an installation has done: what is recorded and what is still to be *)
(* done is the payload, and what is recorded is in place, except for the   *)
(* path that is being written over.                                        *)
Installing ==
  /\ run.pc \in {"clear", "place", "manifest", "write", "installed"} =>
       run.release \in Releases /\ run.choice \in Selections
  /\ run.pc \in {"clear", "place", "manifest"} =>
       ToSet(run.lines) \cup ToSet(run.queue) = Mine
  /\ run.pc = "place" => DirOf(Head(run.queue)) \in dirs
  /\ run.pc = "write" =>
       /\ DirOf(Manifest) \in dirs
       /\ \E l \in Seq(Paths) : ToSet(l) = Mine /\ run.lines = Append(l, Manifest)
  /\ run.pc \in {"clear", "place", "manifest", "write"} =>
       \A p \in ToSet(run.lines) \ {Manifest} :
         tree[p] = run.release \/ (run.pc = "place" /\ p = Head(run.queue))
  /\ run.pc = "installed" =>
       /\ manifest # NULL /\ ToSet(manifest) = Mine \cup {Manifest}
       /\ \A p \in Mine : tree[p] = run.release

(* The prefix knows of one release and selection only: every file is of    *)
(* them, and a manifest that names itself names all of them.               *)
OnlyOne(r, c) ==
  LET all == ToSet(Payload(r, c)) IN
  /\ Installed \subseteq all
  /\ run.pc \in {"clear", "place", "manifest", "write"} => run.release = r /\ run.choice = c
  /\ manifest # NULL /\ Manifest \in ToSet(manifest) => ToSet(manifest) = all \cup {Manifest}

UsedFor ==
  /\ used = {} => /\ Installed = {} /\ manifest = NULL
                 /\ run.pc \notin {"clear", "place", "manifest", "write"}
  /\ \A r \in Releases, c \in Selections : used = {<<r, c>>} => OnlyOne(r, c)

(* An uninstallation that works from such a manifest.                      *)
Whole == (\E r \in Releases, c \in Selections : used = {<<r, c>>})
            /\ Manifest \in ToSet(run.lines)

(* How many of the directories it has tried. *)
Tried == Len(Emptied) - Len(run.queue)

Uninstalling ==
  /\ run.pc = "remove" => ToSet(run.queue) \subseteq Lines
  /\ run.pc = "remove" /\ Whole =>
       /\ Installed \subseteq ToSet(run.queue)
       /\ manifest # NULL => Manifest \in ToSet(run.queue)
  /\ run.pc \in {"rmdir", "removed"} /\ Whole => Installed = {} /\ manifest = NULL
  /\ run.pc = "rmdir" =>
       /\ Len(run.queue) <= Len(Emptied)
       /\ \A i \in 1..Len(run.queue) : run.queue[i] = Emptied[Tried + i]
  /\ run.pc \in {"rmdir", "removed"} =>
       \A i \in 1..Tried : Emptied[i] \in dirs => ~IsEmpty(Emptied[i])

IInv == TypeOK /\ Installing /\ UsedFor /\ Uninstalling

-----------------------------------------------------------------------------
(* Lists, and the sets of what they name.                                  *)

LEMMA SetOf ==
  ASSUME NEW S, NEW s \in Seq(S)
  PROVE  /\ Len(s) \in Nat /\ DOMAIN s = 1..Len(s)
         /\ ToSet(s) = {s[i] : i \in 1..Len(s)} /\ ToSet(s) \subseteq S
         /\ s \in Seq(ToSet(s))
         /\ s # <<>> <=> Len(s) > 0
         /\ s = <<>> => ToSet(s) = {}
BY DEF ToSet

LEMMA HeadAndTail ==
  ASSUME NEW S, NEW s \in Seq(S), s # <<>>
  PROVE  /\ Head(s) \in S /\ Head(s) \in ToSet(s) /\ Head(s) = s[1]
         /\ Tail(s) \in Seq(S) /\ Len(Tail(s)) = Len(s) - 1
         /\ \A i \in 1..Len(s) - 1 : Tail(s)[i] = s[i + 1]
         /\ ToSet(s) = {Head(s)} \cup ToSet(Tail(s))
         /\ Len(s) = 1 <=> Tail(s) = <<>>
<1>1. /\ Len(s) \in Nat /\ Len(s) > 0 /\ Head(s) = s[1] /\ Head(s) \in S
      /\ Tail(s) \in Seq(S) /\ Len(Tail(s)) = Len(s) - 1
      /\ \A i \in 1..Len(s) - 1 : Tail(s)[i] = s[i + 1]
  BY SetOf, HeadTailProperties
<1>2. /\ ToSet(s) = {s[i] : i \in 1..Len(s)}
      /\ ToSet(Tail(s)) = {Tail(s)[i] : i \in 1..Len(s) - 1}
  BY <1>1, SetOf
<1>3. ToSet(s) = {Head(s)} \cup ToSet(Tail(s))
  <2>1. ASSUME NEW i \in 1..Len(s) PROVE s[i] \in {Head(s)} \cup ToSet(Tail(s))
    <3>1. CASE i = 1
      BY <1>1, <3>1
    <3>2. CASE i # 1
      <4>1. i - 1 \in 1..Len(s) - 1 /\ s[i] = Tail(s)[i - 1]
        BY <1>1, <3>2
      <4>2. QED BY <1>2, <4>1
    <3>3. QED BY <3>1, <3>2
  <2>2. ASSUME NEW i \in 1..Len(s) - 1 PROVE Tail(s)[i] \in ToSet(s)
    <3>1. i + 1 \in 1..Len(s) /\ Tail(s)[i] = s[i + 1]
      BY <1>1
    <3>2. QED BY <1>2, <3>1
  <2>3. Head(s) \in ToSet(s)
    BY <1>1, <1>2
  <2>4. QED BY <1>2, <2>1, <2>2, <2>3
<1>4. Len(s) = 1 <=> Tail(s) = <<>>
  <2>1. Tail(s) = <<>> <=> Len(Tail(s)) = 0
    BY <1>1, EmptySeq
  <2>2. QED BY <1>1, <2>1
<1>5. QED BY <1>1, <1>3, <1>4

LEMMA AppendSet ==
  ASSUME NEW S, NEW s \in Seq(S), NEW e \in S
  PROVE  /\ Append(s, e) \in Seq(S) /\ ToSet(Append(s, e)) = ToSet(s) \cup {e}
         /\ Append(s, e) # <<>> /\ Len(Append(s, e)) = Len(s) + 1
         /\ \A i \in 1..Len(s) : Append(s, e)[i] = s[i]
<1>1. /\ Append(s, e) \in Seq(S) /\ Len(Append(s, e)) = Len(s) + 1
      /\ \A i \in 1..Len(s) : Append(s, e)[i] = s[i]
      /\ Append(s, e)[Len(s) + 1] = e
      /\ Len(s) \in Nat
  BY SetOf
<1>2. ToSet(s) = {s[i] : i \in 1..Len(s)}
      /\ ToSet(Append(s, e)) = {Append(s, e)[i] : i \in 1..Len(s) + 1}
  BY <1>1, SetOf
<1>3. QED BY <1>1, <1>2

LEMMA ConcatSet ==
  ASSUME NEW S, NEW s \in Seq(S), NEW t \in Seq(S)
  PROVE  s \o t \in Seq(S) /\ ToSet(s \o t) = ToSet(s) \cup ToSet(t)
<1>1. /\ s \o t \in Seq(S) /\ Len(s \o t) = Len(s) + Len(t)
      /\ \A i \in 1..Len(s) + Len(t) :
           (s \o t)[i] = IF i <= Len(s) THEN s[i] ELSE t[i - Len(s)]
      /\ Len(s) \in Nat /\ Len(t) \in Nat
  BY ConcatProperties, SetOf
<1>2. /\ ToSet(s) = {s[i] : i \in 1..Len(s)} /\ ToSet(t) = {t[i] : i \in 1..Len(t)}
      /\ ToSet(s \o t) = {(s \o t)[i] : i \in 1..Len(s) + Len(t)}
  BY <1>1, SetOf
<1> DEFINE u == s \o t
<1> HIDE DEF u
<1>3. \A i \in 1..Len(s) : i \in 1..Len(s) + Len(t) /\ u[i] = s[i]
  BY <1>1 DEF u
<1>4. \A i \in 1..Len(t) : i + Len(s) \in 1..Len(s) + Len(t) /\ u[i + Len(s)] = t[i]
  BY <1>1 DEF u
<1>5. \A i \in 1..Len(s) + Len(t) :
        \/ i \in 1..Len(s) /\ u[i] = s[i]
        \/ i - Len(s) \in 1..Len(t) /\ u[i] = t[i - Len(s)]
  BY <1>1 DEF u
<1>6. ToSet(u) = {u[i] : i \in 1..Len(s) + Len(t)}
  BY <1>2 DEF u
<1>7. ToSet(u) \subseteq ToSet(s) \cup ToSet(t)
  BY <1>2, <1>5, <1>6
<1>8. ToSet(s) \subseteq ToSet(u)
  BY <1>2, <1>3, <1>6
<1>9. ToSet(t) \subseteq ToSet(u)
  BY <1>2, <1>4, <1>6
<1>10. QED BY <1>1, <1>7, <1>8, <1>9 DEF u

LEMMA ReverseSet ==
  ASSUME NEW S, NEW s \in Seq(S)
  PROVE  /\ Reverse(s) \in Seq(S) /\ ToSet(Reverse(s)) = ToSet(s)
         /\ Reverse(s) # <<>> <=> s # <<>>
<1> DEFINE n == Len(s)
           t == Reverse(s)
<1>1. /\ n \in Nat /\ t = [i \in 1..n |-> s[(n - i) + 1]]
      /\ \A i \in 1..n : (n - i) + 1 \in 1..n /\ s[i] \in S
  BY SetOf DEF Reverse
<1>2. t \in [1..n -> S]
  BY <1>1
<1>3. t \in Seq(S) /\ Len(t) = n
  BY <1>1, <1>2
<1>4. ToSet(s) = {s[i] : i \in 1..n} /\ ToSet(t) = {t[i] : i \in 1..n}
  BY <1>3, SetOf
<1>5. \A i \in 1..n : t[i] = s[(n - i) + 1]
  BY <1>1
<1> HIDE DEF n, t
<1>6. \A i \in 1..n : (n - ((n - i) + 1)) + 1 = i
  BY <1>1
<1>7. ToSet(t) \subseteq ToSet(s)
  BY <1>1, <1>4, <1>5
<1>8. ToSet(s) \subseteq ToSet(t)
  BY <1>1, <1>4, <1>5, <1>6
<1>9. t # <<>> <=> s # <<>>
  BY <1>3, SetOf DEF n
<1>10. QED BY <1>3, <1>7, <1>8, <1>9 DEF t

(* A manifest that was cut short holds none but recorded paths. *)
LEMMA CutShort ==
  ASSUME NEW S, NEW T, S \subseteq T, NEW l \in Seq(S), NEW e \in T,
         NEW n \in 0..Len(Append(l, e)) - 1
  PROVE  SubSeq(Append(l, e), 1, n) \in Seq(S)
<1>1. l \in Seq(T)
  BY SeqMonotonic
<1>2. Len(Append(l, e)) = Len(l) + 1 /\ \A i \in 1..Len(l) : Append(l, e)[i] = l[i]
  BY <1>1, AppendSet
<1>3. n \in Int /\ \A i \in 1..n : i \in 1..Len(l) /\ l[i] \in S
  BY <1>2, SetOf
<1>4. \A i \in 1..n : Append(l, e)[i] \in S
  BY <1>2, <1>3
<1>5. QED BY <1>3, <1>4, SubSeqProperties

-----------------------------------------------------------------------------
(* What a release consists of.                                             *)

LEMMA PayloadIs ==
  ASSUME NEW r \in Releases, NEW c \in Selections
  PROVE  /\ Payload(r, c) \in Seq(Paths) /\ Payload(r, c) # <<>>
         /\ ToSet(Artifacts[r]) \subseteq ToSet(Payload(r, c))
         /\ ToSet(Payload(r, c)) \subseteq Paths
<1> DEFINE cpp == IF "cpp" \in c THEN CppHeaders ELSE <<>>
           docs == IF "docs" \in c THEN Docs \o DocPages ELSE <<>>
<1>1. /\ Headers \in Seq(STRING) /\ cpp \in Seq(STRING) /\ Artifacts[r] \in Seq(STRING)
      /\ Configs \in Seq(STRING) /\ Docs \in Seq(STRING) /\ DocPages \in Seq(STRING)
      /\ Headers # <<>>
  <2>1. \A q \in {Headers, CppHeaders, Configs, Docs, DocPages} : q \in Seq(STRING)
    BY PartsAreLists, Zenon
  <2>2. Artifacts[r] \in Seq(STRING) /\ Headers # <<>>
    BY PartsAreLists, Zenon
  <2>3. <<>> \in Seq(STRING)
    BY EmptySeq
  <2>4. QED BY <2>1, <2>2, <2>3
<1>2. docs \in Seq(STRING)
  <2>1. Docs \o DocPages \in Seq(STRING)
    BY <1>1, ConcatSet, Zenon
  <2>2. <<>> \in Seq(STRING)
    BY EmptySeq
  <2>3. QED BY <2>1, <2>2
<1>3. Payload(r, c) = Headers \o cpp \o Artifacts[r] \o Configs \o docs
  BY DEF Payload
<1> HIDE DEF cpp, docs
<1>4. /\ Headers \o cpp \in Seq(STRING)
      /\ ToSet(Headers \o cpp) = ToSet(Headers) \cup ToSet(cpp)
  BY <1>1, ConcatSet
<1> DEFINE s2 == Headers \o cpp
           s3 == s2 \o Artifacts[r]
           s4 == s3 \o Configs
           s5 == s4 \o docs
<1>5. s3 \in Seq(STRING) /\ ToSet(s3) = ToSet(s2) \cup ToSet(Artifacts[r])
  <2> HIDE DEF s2
  <2>1. s2 \in Seq(STRING)
    BY <1>4 DEF s2
  <2>2. QED BY <1>1, <2>1, ConcatSet, Zenon
<1>6. s4 \in Seq(STRING) /\ ToSet(s4) = ToSet(s3) \cup ToSet(Configs)
  <2> HIDE DEF s3
  <2>1. QED BY <1>1, <1>5, ConcatSet
<1>7. s5 \in Seq(STRING) /\ ToSet(s5) = ToSet(s4) \cup ToSet(docs)
  <2> HIDE DEF s4
  <2>1. QED BY <1>2, <1>6, ConcatSet
<1>8. Payload(r, c) = s5
  BY <1>3
<1> HIDE DEF s2, s3, s4, s5
<1>9. ToSet(Headers) # {}
  BY <1>1, HeadAndTail
<1>10. ToSet(s5) # {} /\ ToSet(Artifacts[r]) \subseteq ToSet(s5)
  BY <1>4, <1>5, <1>6, <1>7, <1>9 DEF s2
<1>11. ToSet(Payload(r, c)) \subseteq Paths
  BY DEF Paths
<1>12. s5 \in Seq(ToSet(s5)) /\ s5 # <<>>
  BY <1>7, <1>10, SetOf
<1>13. s5 \in Seq(Paths)
  BY <1>8, <1>11, <1>12, SeqMonotonic
<1>14. QED BY <1>8, <1>10, <1>11, <1>12, <1>13

-----------------------------------------------------------------------------
(* The directories.                                                        *)

LEMMA Parents ==
  /\ Dirs = {"include", "include/dense", "lib", "lib/pkgconfig", "share",
             "share/dense", "share/doc", "share/doc/dense", "share/doc/dense/docs"}
  /\ ParentOf["include"] = NULL /\ ParentOf["lib"] = NULL /\ ParentOf["share"] = NULL
  /\ ParentOf["include/dense"] = "include" /\ ParentOf["lib/pkgconfig"] = "lib"
  /\ ParentOf["share/dense"] = "share" /\ ParentOf["share/doc"] = "share"
  /\ ParentOf["share/doc/dense"] = "share/doc"
  /\ ParentOf["share/doc/dense/docs"] = "share/doc/dense"
BY DEF Dirs, ParentOf

(* The recursive definition has a solution, this table. *)
LEMMA AboveIs ==
  \A d \in Dirs \cup {NULL} :
    Above[d] = IF d = NULL THEN {} ELSE {d} \cup Above[ParentOf[d]]
<1> DEFINE G == [d \in Dirs \cup {NULL} |->
                   CASE d = "include" -> {"include"}
                     [] d = "lib"     -> {"lib"}
                     [] d = "share"   -> {"share"}
                     [] d = "include/dense" -> {"include", "include/dense"}
                     [] d = "lib/pkgconfig" -> {"lib", "lib/pkgconfig"}
                     [] d = "share/dense"   -> {"share", "share/dense"}
                     [] d = "share/doc"     -> {"share", "share/doc"}
                     [] d = "share/doc/dense" -> {"share", "share/doc", "share/doc/dense"}
                     [] d = "share/doc/dense/docs" ->
                          {"share", "share/doc", "share/doc/dense", "share/doc/dense/docs"}
                     [] OTHER -> {}]
           Unfolded(f) == [d \in Dirs \cup {NULL} |->
                             IF d = NULL THEN {} ELSE {d} \cup f[ParentOf[d]]]
<1>1. NULL \notin Dirs
  BY NullDistinct
<1>2. ASSUME NEW d \in Dirs \cup {NULL}
      PROVE  G[d] = IF d = NULL THEN {} ELSE {d} \cup G[ParentOf[d]]
  <2>1. G[NULL] = {}
    BY <1>1, Parents
  <2>2. /\ G["include"] = {"include"} /\ G["lib"] = {"lib"} /\ G["share"] = {"share"}
        /\ G["include/dense"] = {"include", "include/dense"}
        /\ G["lib/pkgconfig"] = {"lib", "lib/pkgconfig"}
        /\ G["share/dense"] = {"share", "share/dense"}
        /\ G["share/doc"] = {"share", "share/doc"}
        /\ G["share/doc/dense"] = {"share", "share/doc", "share/doc/dense"}
        /\ G["share/doc/dense/docs"] =
             {"share", "share/doc", "share/doc/dense", "share/doc/dense/docs"}
    BY Parents
  <2> HIDE DEF G
  <2>3. CASE d = NULL
    BY <2>1, <2>3
  <2>4. CASE d # NULL
    <3>1. d \in {"include", "include/dense", "lib", "lib/pkgconfig", "share",
             "share/dense", "share/doc", "share/doc/dense", "share/doc/dense/docs"}
      BY <2>4, Parents
    <3>2. G[d] = {d} \cup G[ParentOf[d]]
      BY <2>1, <2>2, <3>1, Parents
    <3>3. QED BY <2>4, <3>2
  <2>5. QED BY <2>3, <2>4
<1>3. G = Unfolded(G)
  <2>1. G = [d \in Dirs \cup {NULL} |-> G[d]]
    BY Zenon
  <2> HIDE DEF G
  <2>2. [d \in Dirs \cup {NULL} |-> G[d]] = Unfolded(G)
    BY <1>2, Zenon
  <2>3. QED BY <2>1, <2>2, Zenon
<1> HIDE DEF G
<1>4. Above = CHOOSE f : f = Unfolded(f)
  BY DEF Above
<1> HIDE DEF Unfolded
<1>5. Above = Unfolded(Above)
  BY <1>3, <1>4
<1>6. QED BY <1>5 DEF Unfolded

(* A directory is made with all that are above it. *)
LEMMA MadeWithThoseAbove ==
  ASSUME NEW d \in Dirs
  PROVE  /\ d \in Above[d] /\ Above[d] \subseteq Dirs
         /\ \A e \in Above[d] : ParentOf[e] = NULL \/ ParentOf[e] \in Above[d]
<1>1. NULL \notin Dirs /\ Above[NULL] = {}
  BY NullDistinct, AboveIs
<1>2. \A e \in Dirs : Above[e] = {e} \cup Above[ParentOf[e]]
  BY <1>1, AboveIs
<1>3. /\ Above["include"] = {"include"} /\ Above["lib"] = {"lib"} /\ Above["share"] = {"share"}
  BY <1>1, <1>2, Parents
<1>4. /\ Above["include/dense"] = {"include", "include/dense"}
      /\ Above["lib/pkgconfig"] = {"lib", "lib/pkgconfig"}
      /\ Above["share/dense"] = {"share", "share/dense"}
      /\ Above["share/doc"] = {"share", "share/doc"}
  BY <1>2, <1>3, Parents
<1>5. Above["share/doc/dense"] = {"share", "share/doc", "share/doc/dense"}
  BY <1>2, <1>4, Parents
<1>6. Above["share/doc/dense/docs"] =
        {"share", "share/doc", "share/doc/dense", "share/doc/dense/docs"}
  BY <1>2, <1>5, Parents
<1>7. d \in {"include", "include/dense", "lib", "lib/pkgconfig", "share",
             "share/dense", "share/doc", "share/doc/dense", "share/doc/dense/docs"}
  BY Parents
<1>8. d \in Above[d] /\ Above[d] \subseteq Dirs
  BY <1>3, <1>4, <1>5, <1>6, <1>7, Parents
<1>9. \A e \in Above[d] : ParentOf[e] = NULL \/ ParentOf[e] \in Above[d]
  BY <1>3, <1>4, <1>5, <1>6, <1>7, Parents
<1>10. QED BY <1>8, <1>9

LEMMA EveryPathHasItsDirectory == \A p : DirOf(p) \in Dirs
BY Parents DEF DirOf

(* The uninstaller tries a directory before the one above it. *)
LEMMA InnermostFirst ==
  /\ Emptied \in Seq(Dirs) /\ Len(Emptied) = 6 /\ Emptied # <<>>
  /\ \A i, j \in 1..6 : i < j => ParentOf[Emptied[j]] # Emptied[i] /\ Emptied[i] # Emptied[j]
<1>1. /\ Len(Emptied) = 6 /\ Emptied # <<>>
      /\ Emptied[1] = "share/dense" /\ Emptied[2] = "share/doc/dense/docs"
      /\ Emptied[3] = "share/doc/dense" /\ Emptied[4] = "lib/pkgconfig"
      /\ Emptied[5] = "lib" /\ Emptied[6] = "include/dense"
  BY DEF Emptied
<1>2. Emptied \in Seq(Dirs)
  BY Parents DEF Emptied
<1>3. \A i \in 1..6 : i \in {1, 2, 3, 4, 5, 6}
  OBVIOUS
<1> HIDE DEF Emptied
<1>4. NULL \notin Dirs
  BY NullDistinct
<1>5. ASSUME NEW i \in {1, 2, 3, 4, 5, 6}, NEW j \in {1, 2, 3, 4, 5, 6}, i < j
      PROVE  ParentOf[Emptied[j]] # Emptied[i] /\ Emptied[i] # Emptied[j]
  BY <1>1, <1>4, <1>5, Parents
<1>6. QED BY <1>1, <1>2, <1>3, <1>5

-----------------------------------------------------------------------------
(* What the steps have in common.                                          *)

LEMMA Fields ==
  ASSUME TypeOK
  PROVE  /\ run.pc \in Running \cup Ended /\ run.release \in Releases \cup {NULL}
         /\ run.choice \in Selections \cup {{}}
         /\ run.queue \in Seq(Paths \cup {Manifest} \cup Dirs)
         /\ run.lines \in Seq(Lines) /\ ToSet(run.lines) \subseteq Lines
<1>1. run.lines \in Seq(Lines)
  BY DEF TypeOK, Lines
<1>2. ToSet(run.lines) \subseteq Lines
  BY <1>1, SetOf
<1>3. QED BY <1>1, <1>2 DEF TypeOK

(* A path is put in place, or removed. *)
LEMMA PutIs ==
  ASSUME TypeOK, NEW p \in Paths, NEW what \in Releases \cup {"none", "partial"},
         Put(p, what)
  PROVE  /\ tree' \in [Paths -> Releases \cup {"none", "partial"}]
         /\ tree'[p] = what
         /\ \A q \in Paths : q # p => tree'[q] = tree[q]
         /\ Installed' \subseteq Installed \cup {p}
         /\ what = "none" => Installed' \subseteq Installed \ {p}
BY DEF TypeOK, Put, Installed

(* A directory is made. *)
LEMMA MadeDirs ==
  ASSUME TypeOK, NEW d \in Dirs, dirs' = dirs \cup Above[d]
  PROVE  /\ dirs' \subseteq Dirs /\ dirs \subseteq dirs' /\ d \in dirs'
         /\ \A e \in dirs' : ParentOf[e] = NULL \/ ParentOf[e] \in dirs'
BY MadeWithThoseAbove DEF TypeOK, TreeKept

(* The path that is worked on. *)
LEMMA WorkedOn ==
  ASSUME IInv, run.pc \in {"clear", "place"}
  PROVE  /\ run.queue # <<>> /\ Head(run.queue) \in Mine /\ Mine \subseteq Paths
         /\ Head(run.queue) \in Paths
         /\ run.release \in Releases /\ run.choice \in Selections
<1>1. run.queue \in Seq(Paths \cup {Manifest} \cup Dirs) /\ run.queue # <<>>
  BY Fields DEF IInv, TypeOK
<1>2. Head(run.queue) \in ToSet(run.queue)
  BY <1>1, HeadAndTail
<1>3. run.release \in Releases /\ run.choice \in Selections
  BY DEF IInv, Installing
<1>4. Head(run.queue) \in Mine
  BY <1>2 DEF IInv, Installing
<1>5. Mine \subseteq Paths
  BY <1>3, PayloadIs DEF Mine
<1>6. QED BY <1>1, <1>3, <1>4, <1>5

-----------------------------------------------------------------------------
(* The invariant holds at first, and each step of a script keeps it.       *)

LEMMA InitIInv ==
  ASSUME Init
  PROVE  IInv
<1>1. Installed = {}
  BY DEF Init, Installed
<1>2. PICK ds \in SUBSET Shared : dirs = UNION {Above[d] : d \in ds}
  BY DEF Init
<1>3. ds \subseteq Dirs
  BY NamesDistinct
<1>4. /\ dirs \subseteq Dirs
      /\ \A e \in dirs : ParentOf[e] = NULL \/ ParentOf[e] \in dirs
  BY <1>2, <1>3, MadeWithThoseAbove
<1>5. TreeKept
  BY <1>1, <1>4 DEF Init, TreeKept
<1>6. /\ <<>> \in Seq(Paths \cup {Manifest} \cup Dirs) /\ <<>> \in Seq(Paths \cup {Manifest})
  BY EmptySeq
<1>7. TypeOK
  <2>1. run \in [pc: Running \cup Ended, release: Releases \cup {NULL},
              choice: Selections \cup {{}},
              queue: Seq(Paths \cup {Manifest} \cup Dirs),
              lines: Seq(Paths \cup {Manifest})]
    BY <1>6 DEF Init, Ended
  <2>2. run.queue # <<>> <=> run.pc \in {"clear", "place", "remove", "rmdir"}
    BY DEF Init
  <2>3. QED BY <1>4, <1>5, <2>1, <2>2 DEF Init, TypeOK
<1>8. run.pc = "never ran" /\ used = {} /\ manifest = NULL
  BY DEF Init
<1>9. QED BY <1>1, <1>7, <1>8 DEF IInv, Installing, UsedFor, Uninstalling

LEMMA StartIInv ==
  ASSUME IInv, NEW r \in Releases, NEW c \in Selections, Install_start(r, c)
  PROVE  IInv'
<1>1. /\ run' = [pc |-> "clear", release |-> r, choice |-> c,
                 queue |-> Payload(r, c), lines |-> <<>>]
      /\ used' = IF used \subseteq {<<r, c>>} THEN {<<r, c>>} ELSE Releases \X Selections
      /\ tree' = tree /\ dirs' = dirs /\ foreign' = foreign /\ manifest' = manifest
  BY DEF Install_start
<1>2. /\ Payload(r, c) \in Seq(Paths \cup {Manifest} \cup Dirs) /\ Payload(r, c) # <<>>
      /\ <<>> \in Seq(Paths \cup {Manifest})
  BY PayloadIs, SeqMonotonic, EmptySeq
<1>3. TypeOK'
  <2>1. run' \in [pc: Running \cup Ended, release: Releases \cup {NULL},
              choice: Selections \cup {{}},
              queue: Seq(Paths \cup {Manifest} \cup Dirs),
              lines: Seq(Paths \cup {Manifest})]
    BY <1>1, <1>2 DEF Running
  <2>2. run'.queue # <<>> <=> run'.pc \in {"clear", "place", "remove", "rmdir"}
    BY <1>1, <1>2
  <2>3. used' \subseteq Releases \X Selections
    BY <1>1
  <2>4. TreeKept'
    BY <1>1 DEF IInv, TypeOK, TreeKept, Installed
  <2>5. QED BY <1>1, <2>1, <2>2, <2>3, <2>4 DEF IInv, TypeOK
<1>4. Installing'
  <2>1. ToSet(<<>>) = {}
    BY <1>2, SetOf
  <2>2. Mine' = ToSet(run'.queue)
    BY <1>1 DEF Mine
  <2>3. QED BY <1>1, <2>1, <2>2 DEF Installing
<1>5. UsedFor'
  <2>1. used' # {} /\ <<r, c>> \in used'
    BY <1>1
  <2>2. ASSUME NEW r2 \in Releases, NEW c2 \in Selections, used' = {<<r2, c2>>}
        PROVE  OnlyOne(r2, c2)'
    <3>1. r2 = r /\ c2 = c
      BY <2>1, <2>2
    <3>2. used \subseteq {<<r, c>>}
      BY <1>1, <2>2, <3>1 DEF IInv, TypeOK
    <3>3. CASE used = {}
      BY <1>1, <3>1, <3>3 DEF IInv, UsedFor, OnlyOne, Installed
    <3>4. CASE used = {<<r, c>>}
      BY <1>1, <3>1, <3>4 DEF IInv, UsedFor, OnlyOne, Installed
    <3>5. QED BY <3>2, <3>3, <3>4
  <2>3. QED BY <2>1, <2>2 DEF UsedFor
<1>6. Uninstalling'
  BY <1>1 DEF Uninstalling
<1>7. QED BY <1>3, <1>4, <1>5, <1>6 DEF IInv

LEMMA ClearIInv ==
  ASSUME IInv, Install_clear
  PROVE  IInv'
<1> DEFINE p == Head(run.queue)
           what == IF IsLink(p) THEN "none" ELSE "partial"
<1>1. /\ run.pc = "clear" /\ run' = [run EXCEPT !.pc = "place"]
      /\ dirs' = dirs \cup Above[DirOf(p)] /\ Put(p, what)
      /\ foreign' = foreign /\ manifest' = manifest /\ used' = used
  BY DEF Install_clear
<1>2. /\ run'.pc = "place" /\ run'.queue = run.queue /\ run'.lines = run.lines
      /\ run'.release = run.release /\ run'.choice = run.choice
      /\ Mine' = Mine
  BY <1>1 DEF IInv, TypeOK, Mine
<1>3. p \in Paths /\ p \in Mine /\ Mine \subseteq Paths /\ run.queue # <<>>
  BY <1>1, WorkedOn
<1>4. what \in Releases \cup {"none", "partial"}
  OBVIOUS
<1>5. DirOf(p) \in Dirs
  BY EveryPathHasItsDirectory
<1> HIDE DEF p, what
<1>6. /\ tree' \in [Paths -> Releases \cup {"none", "partial"}]
      /\ \A q \in Paths : q # p => tree'[q] = tree[q]
      /\ Installed' \subseteq Installed \cup {p}
  BY <1>1, <1>3, <1>4, PutIs DEF IInv
<1>7. /\ dirs' \subseteq Dirs /\ dirs \subseteq dirs' /\ DirOf(p) \in dirs'
      /\ \A e \in dirs' : ParentOf[e] = NULL \/ ParentOf[e] \in dirs'
  BY <1>1, <1>5, MadeDirs DEF IInv
<1>8. TypeOK'
  <2>1. run' \in [pc: Running \cup Ended, release: Releases \cup {NULL},
              choice: Selections \cup {{}},
              queue: Seq(Paths \cup {Manifest} \cup Dirs),
              lines: Seq(Paths \cup {Manifest})]
    BY <1>1 DEF IInv, TypeOK, Running
  <2>2. run'.queue # <<>> <=> run'.pc \in {"clear", "place", "remove", "rmdir"}
    BY <1>2, <1>3
  <2>3. TreeKept'
    BY <1>1, <1>6, <1>7 DEF IInv, TypeOK, TreeKept
  <2>4. QED BY <1>1, <1>6, <1>7, <2>1, <2>2, <2>3 DEF IInv, TypeOK
<1>9. Installing'
  <2>1. ToSet(run.lines) \subseteq Lines
    BY Fields DEF IInv
  <2>2. \A q \in ToSet(run.lines) \ {Manifest} : tree'[q] = run.release \/ q = p
    BY <1>1, <1>6, <2>1 DEF IInv, Installing, Lines
  <2>3. p = Head(run'.queue)
    BY <1>2 DEF p
  <2>4. ToSet(run.lines) \cup ToSet(run.queue) = Mine
    BY <1>1 DEF IInv, Installing
  <2>5. run.release \in Releases /\ run.choice \in Selections
    BY <1>1 DEF IInv, Installing
  <2>6. QED BY <1>2, <1>7, <2>2, <2>3, <2>4, <2>5 DEF Installing
<1>10. UsedFor'
  <2>1. used # {}
    BY <1>1 DEF IInv, UsedFor
  <2>2. ASSUME NEW r \in Releases, NEW c \in Selections, used = {<<r, c>>}
        PROVE  OnlyOne(r, c)'
    <3>1. OnlyOne(r, c)
      BY <2>2 DEF IInv, UsedFor
    <3>2. run.release = r /\ run.choice = c
      BY <1>1, <3>1 DEF OnlyOne
    <3>3. p \in ToSet(Payload(r, c))
      BY <1>3, <3>2 DEF Mine
    <3>4. QED BY <1>1, <1>2, <1>6, <3>1, <3>2, <3>3 DEF OnlyOne
  <2>3. QED BY <1>1, <2>1, <2>2 DEF UsedFor
<1>11. Uninstalling'
  BY <1>2 DEF Uninstalling
<1>12. QED BY <1>8, <1>9, <1>10, <1>11 DEF IInv

LEMMA PlaceIInv ==
  ASSUME IInv, Install_place
  PROVE  IInv'
<1> DEFINE p == Head(run.queue)
           pc == IF Len(run.queue) = 1 THEN "manifest" ELSE "clear"
<1>1. /\ run.pc = "place" /\ Put(p, run.release)
      /\ run' = [run EXCEPT !.pc = pc, !.queue = Tail(run.queue),
                            !.lines = Append(run.lines, p)]
      /\ dirs' = dirs /\ foreign' = foreign /\ manifest' = manifest /\ used' = used
  BY DEF Install_place
<1>2. p \in Paths /\ p \in Mine /\ Mine \subseteq Paths /\ run.queue # <<>>
      /\ run.release \in Releases /\ run.choice \in Selections
  BY <1>1, WorkedOn
<1>3. /\ run.queue \in Seq(Paths \cup {Manifest} \cup Dirs)
      /\ run.lines \in Seq(Lines) /\ ToSet(run.lines) \subseteq Lines
  BY Fields DEF IInv
<1>4. /\ Tail(run.queue) \in Seq(Paths \cup {Manifest} \cup Dirs)
      /\ ToSet(run.queue) = {p} \cup ToSet(Tail(run.queue))
      /\ Len(run.queue) = 1 <=> Tail(run.queue) = <<>>
  BY <1>2, <1>3, HeadAndTail
<1>5. /\ Append(run.lines, p) \in Seq(Lines)
      /\ ToSet(Append(run.lines, p)) = ToSet(run.lines) \cup {p}
  BY <1>2, <1>3, AppendSet DEF Lines
<1>6. DirOf(p) \in dirs
  BY <1>1 DEF IInv, Installing
<1>7. /\ pc \in {"clear", "manifest"}
      /\ pc = "clear" <=> Tail(run.queue) # <<>>
  BY <1>4
<1> HIDE DEF p, pc
<1>8. /\ run'.pc = pc /\ run'.queue = Tail(run.queue) /\ run'.lines = Append(run.lines, p)
      /\ run'.release = run.release /\ run'.choice = run.choice
      /\ Mine' = Mine
  BY <1>1 DEF IInv, TypeOK, Mine
<1>9. /\ tree' \in [Paths -> Releases \cup {"none", "partial"}]
      /\ tree'[p] = run.release
      /\ \A q \in Paths : q # p => tree'[q] = tree[q]
      /\ Installed' \subseteq Installed \cup {p}
  BY <1>1, <1>2, PutIs DEF IInv
<1>10. TypeOK'
  <2>1. run' \in [pc: Running \cup Ended, release: Releases \cup {NULL},
              choice: Selections \cup {{}},
              queue: Seq(Paths \cup {Manifest} \cup Dirs),
              lines: Seq(Paths \cup {Manifest})]
    BY <1>1, <1>4, <1>5, <1>7 DEF IInv, TypeOK, Running, Lines
  <2>2. run'.queue # <<>> <=> run'.pc \in {"clear", "place", "remove", "rmdir"}
    BY <1>7, <1>8
  <2>3. TreeKept'
    BY <1>1, <1>6, <1>9 DEF IInv, TypeOK, TreeKept
  <2>4. QED BY <1>1, <1>9, <2>1, <2>2, <2>3 DEF IInv, TypeOK
<1>11. Installing'
  <2>1. \A q \in ToSet(run.lines) \ {Manifest} : tree[q] = run.release \/ q = p
    BY <1>1 DEF IInv, Installing, p
  <2>2. \A q \in ToSet(run'.lines) \ {Manifest} : tree'[q] = run.release
    BY <1>3, <1>5, <1>8, <1>9, <2>1 DEF Lines
  <2>3. ToSet(run.lines) \cup ToSet(run.queue) = Mine
    BY <1>1 DEF IInv, Installing
  <2>4. ToSet(run'.lines) \cup ToSet(run'.queue) = Mine
    BY <1>4, <1>5, <1>8, <2>3
  <2>5. QED BY <1>2, <1>7, <1>8, <2>2, <2>4 DEF Installing
<1>12. UsedFor'
  <2>1. used # {}
    BY <1>1 DEF IInv, UsedFor
  <2>2. ASSUME NEW r \in Releases, NEW c \in Selections, used = {<<r, c>>}
        PROVE  OnlyOne(r, c)'
    <3>1. OnlyOne(r, c)
      BY <2>2 DEF IInv, UsedFor
    <3>2. run.release = r /\ run.choice = c
      BY <1>1, <3>1 DEF OnlyOne
    <3>3. p \in ToSet(Payload(r, c))
      BY <1>2, <3>2 DEF Mine
    <3>4. QED BY <1>1, <1>8, <1>9, <3>1, <3>2, <3>3 DEF OnlyOne
  <2>3. QED BY <1>1, <2>1, <2>2 DEF UsedFor
<1>13. Uninstalling'
  BY <1>7, <1>8 DEF Uninstalling
<1>14. QED BY <1>10, <1>11, <1>12, <1>13 DEF IInv

LEMMA ManifestIInv ==
  ASSUME IInv, Install_manifest
  PROVE  IInv'
<1>1. /\ run.pc = "manifest" /\ manifest' = NULL /\ dirs' = dirs \cup Above[DirOf(Manifest)]
      /\ run' = [run EXCEPT !.pc = "write", !.lines = Append(run.lines, Manifest)]
      /\ tree' = tree /\ foreign' = foreign /\ used' = used
  BY DEF Install_manifest
<1>2. /\ run.release \in Releases /\ run.choice \in Selections
      /\ ToSet(run.lines) \cup ToSet(run.queue) = Mine
      /\ run.queue = <<>>
  BY <1>1 DEF IInv, TypeOK, Installing
<1>3. /\ run.queue \in Seq(Paths \cup {Manifest} \cup Dirs)
      /\ run.lines \in Seq(Lines) /\ ToSet(run.lines) \subseteq Lines
  BY Fields DEF IInv
<1>4. ToSet(run.lines) = Mine /\ Mine \subseteq Paths
  BY <1>2, <1>3, SetOf, PayloadIs DEF Mine
<1>5. run.lines \in Seq(Paths)
  <2>1. run.lines \in Seq(ToSet(run.lines))
    BY <1>3, SetOf
  <2>2. QED BY <1>4, <2>1, SeqMonotonic
<1>6. /\ Append(run.lines, Manifest) \in Seq(Lines)
      /\ ToSet(Append(run.lines, Manifest)) = ToSet(run.lines) \cup {Manifest}
  BY <1>3, AppendSet DEF Lines
<1>7. /\ run'.pc = "write" /\ run'.queue = run.queue
      /\ run'.lines = Append(run.lines, Manifest)
      /\ run'.release = run.release /\ run'.choice = run.choice
      /\ Mine' = Mine
  BY <1>1 DEF IInv, TypeOK, Mine
<1>8. DirOf(Manifest) \in Dirs
  BY EveryPathHasItsDirectory
<1>9. /\ dirs' \subseteq Dirs /\ dirs \subseteq dirs' /\ DirOf(Manifest) \in dirs'
      /\ \A e \in dirs' : ParentOf[e] = NULL \/ ParentOf[e] \in dirs'
  BY <1>1, <1>8, MadeDirs DEF IInv
<1>10. Installed' = Installed
  BY <1>1 DEF Installed
<1>11. TypeOK'
  <2>1. run' \in [pc: Running \cup Ended, release: Releases \cup {NULL},
              choice: Selections \cup {{}},
              queue: Seq(Paths \cup {Manifest} \cup Dirs),
              lines: Seq(Paths \cup {Manifest})]
    BY <1>1, <1>6 DEF IInv, TypeOK, Running, Lines
  <2>2. run'.queue # <<>> <=> run'.pc \in {"clear", "place", "remove", "rmdir"}
    BY <1>2, <1>7
  <2>3. TreeKept'
    BY <1>1, <1>9, <1>10 DEF IInv, TypeOK, TreeKept
  <2>4. QED BY <1>1, <1>9, <2>1, <2>2, <2>3 DEF IInv, TypeOK
<1>12. Installing'
  <2>1. \A q \in ToSet(run'.lines) \ {Manifest} : tree'[q] = run.release
    BY <1>1, <1>6, <1>7 DEF IInv, Installing
  <2>2. \E l \in Seq(Paths) : ToSet(l) = Mine' /\ run'.lines = Append(l, Manifest)
    BY <1>4, <1>5, <1>7
  <2>3. QED BY <1>2, <1>7, <1>9, <2>1, <2>2 DEF Installing
<1>13. UsedFor'
  BY <1>1, <1>7, <1>10 DEF IInv, UsedFor, OnlyOne
<1>14. Uninstalling'
  BY <1>7 DEF Uninstalling
<1>15. QED BY <1>11, <1>12, <1>13, <1>14 DEF IInv

LEMMA WriteIInv ==
  ASSUME IInv, Install_write
  PROVE  IInv'
<1>1. /\ run.pc = "write" /\ manifest' = run.lines
      /\ run' = [run EXCEPT !.pc = "installed"]
      /\ tree' = tree /\ dirs' = dirs /\ foreign' = foreign /\ used' = used
  BY DEF Install_write
<1>2. /\ run'.pc = "installed" /\ run'.queue = run.queue /\ run'.lines = run.lines
      /\ run'.release = run.release /\ run'.choice = run.choice
      /\ Mine' = Mine
  BY <1>1 DEF IInv, TypeOK, Mine
<1>3. /\ run.release \in Releases /\ run.choice \in Selections /\ run.queue = <<>>
      /\ DirOf(Manifest) \in dirs
  BY <1>1 DEF IInv, TypeOK, Installing
<1>4. PICK l \in Seq(Paths) : ToSet(l) = Mine /\ run.lines = Append(l, Manifest)
  BY <1>1 DEF IInv, Installing
<1>5. run.lines \in Seq(Lines)
  BY Fields DEF IInv
<1>6. ToSet(run.lines) = Mine \cup {Manifest} /\ Mine \subseteq Paths
  <2>1. l \in Seq(Lines) /\ Manifest \in Lines
    BY SeqMonotonic DEF Lines
  <2>2. ToSet(Append(l, Manifest)) = ToSet(l) \cup {Manifest}
    BY <2>1, AppendSet
  <2>3. QED BY <1>3, <1>4, <2>2, PayloadIs DEF Mine
<1>7. run.lines # NULL
  BY <1>5, NullDistinct DEF Lines
<1>8. \A q \in Mine : tree[q] = run.release
  BY <1>1, <1>6, NamesDistinct DEF IInv, Installing
<1>9. Installed' = Installed
  BY <1>1 DEF Installed
<1>10. TypeOK'
  <2>1. run' \in [pc: Running \cup Ended, release: Releases \cup {NULL},
              choice: Selections \cup {{}},
              queue: Seq(Paths \cup {Manifest} \cup Dirs),
              lines: Seq(Paths \cup {Manifest})]
    BY <1>1 DEF IInv, TypeOK, Ended
  <2>2. run'.queue # <<>> <=> run'.pc \in {"clear", "place", "remove", "rmdir"}
    BY <1>2, <1>3
  <2>3. TreeKept'
    BY <1>1, <1>3, <1>9 DEF IInv, TypeOK, TreeKept
  <2>4. manifest' \in Seq(Paths \cup {Manifest})
    BY <1>1, <1>5 DEF Lines
  <2>5. QED BY <1>1, <2>1, <2>2, <2>3, <2>4 DEF IInv, TypeOK
<1>11. Installing'
  BY <1>1, <1>2, <1>3, <1>6, <1>7, <1>8 DEF Installing
<1>12. UsedFor'
  <2>1. used # {}
    BY <1>1 DEF IInv, UsedFor
  <2>2. ASSUME NEW r \in Releases, NEW c \in Selections, used = {<<r, c>>}
        PROVE  OnlyOne(r, c)'
    <3>1. OnlyOne(r, c)
      BY <2>2 DEF IInv, UsedFor
    <3>2. run.release = r /\ run.choice = c
      BY <1>1, <3>1 DEF OnlyOne
    <3>3. Mine = ToSet(Payload(r, c))
      BY <3>2 DEF Mine
    <3>4. QED BY <1>1, <1>2, <1>6, <1>9, <3>1, <3>3 DEF OnlyOne
  <2>3. QED BY <1>1, <2>1, <2>2 DEF UsedFor
<1>13. Uninstalling'
  BY <1>2 DEF Uninstalling
<1>14. QED BY <1>10, <1>11, <1>12, <1>13 DEF IInv

LEMMA UninstallStartIInv ==
  ASSUME IInv, Uninstall_start
  PROVE  IInv'
<1>1. /\ manifest # NULL /\ manifest # <<>>
      /\ run' = [pc |-> "remove", release |-> NULL, choice |-> {},
                 queue |-> Reverse(manifest), lines |-> manifest]
      /\ tree' = tree /\ dirs' = dirs /\ foreign' = foreign /\ manifest' = manifest
      /\ used' = used
  BY DEF Uninstall_start
<1>2. manifest \in Seq(Lines)
  BY <1>1 DEF IInv, TypeOK, Lines
<1>3. /\ Reverse(manifest) \in Seq(Lines) /\ Reverse(manifest) # <<>>
      /\ ToSet(Reverse(manifest)) = ToSet(manifest) /\ ToSet(manifest) \subseteq Lines
  BY <1>1, <1>2, ReverseSet, SetOf
<1>4. Reverse(manifest) \in Seq(Paths \cup {Manifest} \cup Dirs)
  BY <1>3, SeqMonotonic DEF Lines
<1>5. Installed' = Installed
  BY <1>1 DEF Installed
<1>6. TypeOK'
  <2>1. run' \in [pc: Running \cup Ended, release: Releases \cup {NULL},
              choice: Selections \cup {{}},
              queue: Seq(Paths \cup {Manifest} \cup Dirs),
              lines: Seq(Paths \cup {Manifest})]
    BY <1>1, <1>2, <1>4 DEF Running, Lines
  <2>2. run'.queue # <<>> <=> run'.pc \in {"clear", "place", "remove", "rmdir"}
    BY <1>1, <1>3
  <2>3. TreeKept'
    BY <1>1, <1>5 DEF IInv, TypeOK, TreeKept
  <2>4. QED BY <1>1, <2>1, <2>2, <2>3 DEF IInv, TypeOK
<1>7. Installing'
  BY <1>1 DEF Installing
<1>8. UsedFor'
  BY <1>1, <1>5 DEF IInv, UsedFor, OnlyOne
<1>9. Uninstalling'
  <2>1. ASSUME Whole'
        PROVE  Installed' \subseteq ToSet(run'.queue) /\ Manifest \in ToSet(run'.queue)
    <3>1. PICK r \in Releases, c \in Selections : used = {<<r, c>>}
      BY <1>1, <2>1 DEF Whole
    <3>2. Manifest \in ToSet(manifest)
      BY <1>1, <2>1 DEF Whole
    <3>3. OnlyOne(r, c)
      BY <3>1 DEF IInv, UsedFor
    <3>4. Installed \subseteq ToSet(manifest)
      BY <1>1, <3>2, <3>3 DEF OnlyOne
    <3>5. QED BY <1>1, <1>3, <1>5, <3>2, <3>4
  <2>2. QED BY <1>1, <1>3, <2>1 DEF Uninstalling
<1>10. QED BY <1>6, <1>7, <1>8, <1>9 DEF IInv

LEMMA RemoveIInv ==
  ASSUME IInv, Uninstall_remove
  PROVE  IInv'
<1> DEFINE p == Head(run.queue)
           last == Len(run.queue) = 1
<1>1. /\ run.pc = "remove"
      /\ \/ p = Manifest /\ manifest' = NULL /\ tree' = tree
         \/ p # Manifest /\ Put(p, "none") /\ manifest' = manifest
      /\ run' = IF last THEN [run EXCEPT !.pc = "rmdir", !.queue = Emptied]
                        ELSE [run EXCEPT !.queue = Tail(run.queue)]
      /\ dirs' = dirs /\ foreign' = foreign /\ used' = used
  BY DEF Uninstall_remove, NextRemoval
<1>2. /\ run.queue \in Seq(Paths \cup {Manifest} \cup Dirs) /\ run.queue # <<>>
      /\ ToSet(run.queue) \subseteq Lines
  BY <1>1, Fields DEF IInv, TypeOK, Uninstalling
<1>3. /\ Tail(run.queue) \in Seq(Paths \cup {Manifest} \cup Dirs)
      /\ ToSet(run.queue) = {p} \cup ToSet(Tail(run.queue))
      /\ last <=> Tail(run.queue) = <<>>
  BY <1>2, HeadAndTail
<1>4. p = Manifest \/ p \in Paths
  BY <1>2, <1>3 DEF Lines
<1>5. ToSet(<<>>) = {}
  BY EmptySeq, SetOf
<1> HIDE DEF p, last
<1>6. /\ tree' \in [Paths -> Releases \cup {"none", "partial"}]
      /\ Installed' \subseteq Installed \ {p}
  <2>1. CASE p = Manifest
    BY <1>1, <2>1, NamesDistinct DEF Installed, IInv, TypeOK
  <2>2. CASE p # Manifest
    BY <1>1, <1>4, <2>2, PutIs DEF IInv
  <2>3. QED BY <2>1, <2>2
<1>7. /\ manifest' = NULL \/ manifest' = manifest
      /\ manifest' # NULL => p # Manifest
  BY <1>1
<1>8. /\ run'.lines = run.lines
      /\ ~last => run'.pc = "remove" /\ run'.queue = Tail(run.queue)
      /\ last => run'.pc = "rmdir" /\ run'.queue = Emptied
  BY <1>1 DEF IInv, TypeOK
<1>9. TypeOK'
  <2>1. Emptied \in Seq(Paths \cup {Manifest} \cup Dirs) /\ Emptied # <<>>
    BY InnermostFirst, SeqMonotonic
  <2>2. run' \in [pc: Running \cup Ended, release: Releases \cup {NULL},
              choice: Selections \cup {{}},
              queue: Seq(Paths \cup {Manifest} \cup Dirs),
              lines: Seq(Paths \cup {Manifest})]
    BY <1>1, <1>3, <2>1 DEF IInv, TypeOK, Running
  <2>3. run'.queue # <<>> <=> run'.pc \in {"clear", "place", "remove", "rmdir"}
    BY <1>3, <1>8, <2>1
  <2>4. TreeKept'
    BY <1>1, <1>6, <1>7 DEF IInv, TypeOK, TreeKept
  <2>5. QED BY <1>1, <1>6, <1>7, <2>2, <2>3, <2>4 DEF IInv, TypeOK
<1>10. Installing'
  BY <1>8 DEF Installing
<1>11. UsedFor'
  BY <1>1, <1>6, <1>7, <1>8 DEF IInv, UsedFor, OnlyOne
<1>12. Uninstalling'
  <2>1. ASSUME Whole'
        PROVE  /\ Installed' \subseteq ToSet(Tail(run.queue))
               /\ manifest' # NULL => Manifest \in ToSet(Tail(run.queue))
    <3>1. Whole
      BY <1>1, <1>8, <2>1 DEF Whole
    <3>2. /\ Installed \subseteq ToSet(run.queue)
          /\ manifest # NULL => Manifest \in ToSet(run.queue)
      BY <1>1, <3>1 DEF IInv, Uninstalling
    <3>3. QED BY <1>3, <1>6, <1>7, <3>2
  <2>2. CASE ~last
    BY <1>2, <1>3, <1>8, <2>1, <2>2 DEF Uninstalling
  <2>3. CASE last
    <3>1. Whole' => Installed' = {} /\ manifest' = NULL
      BY <1>3, <1>5, <2>1, <2>3
    <3>2. Tried' = 0 /\ Len(run'.queue) = 6 /\ Len(Emptied) = 6
      BY <1>8, <2>3, InnermostFirst DEF Tried
    <3>3. \A i \in 1..6 : run'.queue[i] = Emptied[Tried' + i]
      BY <1>8, <2>3, <3>2
    <3>4. \A i \in 1..Tried' : FALSE
      BY <3>2
    <3>5. QED BY <1>8, <2>3, <3>1, <3>2, <3>3, <3>4 DEF Uninstalling
  <2>4. QED BY <2>2, <2>3
<1>13. QED BY <1>9, <1>10, <1>11, <1>12 DEF IInv

LEMMA RmdirIInv ==
  ASSUME IInv, Uninstall_rmdir
  PROVE  IInv'
<1> DEFINE d == Head(run.queue)
           k == Len(run.queue)
           pc == IF Len(run.queue) = 1 THEN "removed" ELSE "rmdir"
<1>1. /\ run.pc = "rmdir"
      /\ dirs' = IF d \in dirs /\ IsEmpty(d) THEN dirs \ {d} ELSE dirs
      /\ run' = [run EXCEPT !.pc = pc, !.queue = Tail(run.queue)]
      /\ tree' = tree /\ foreign' = foreign /\ manifest' = manifest /\ used' = used
  BY DEF Uninstall_rmdir
<1>2. /\ run.queue \in Seq(Paths \cup {Manifest} \cup Dirs) /\ run.queue # <<>>
      /\ k <= 6 /\ Tried = 6 - k
      /\ \A i \in 1..k : run.queue[i] = Emptied[(6 - k) + i]
  BY <1>1, Fields, InnermostFirst DEF IInv, TypeOK, Uninstalling, Tried
<1>3. /\ Tail(run.queue) \in Seq(Paths \cup {Manifest} \cup Dirs)
      /\ Len(Tail(run.queue)) = k - 1 /\ d = run.queue[1]
      /\ \A i \in 1..k - 1 : Tail(run.queue)[i] = run.queue[i + 1]
      /\ k = 1 <=> Tail(run.queue) = <<>>
  BY <1>2, HeadAndTail
<1>4. k \in Nat /\ k > 0
  BY <1>2, SetOf
<1>5. /\ pc \in {"rmdir", "removed"}
      /\ pc = "rmdir" <=> Tail(run.queue) # <<>>
  BY <1>3
<1> HIDE DEF d, k, pc
<1>6. d = Emptied[7 - k]
  BY <1>2, <1>3, <1>4
<1>7. \A i \in 1..k - 1 : Tail(run.queue)[i] = Emptied[(7 - k) + i]
  BY <1>2, <1>3, <1>4
<1>8. /\ run'.lines = run.lines /\ run'.pc = pc /\ run'.queue = Tail(run.queue)
      /\ Tried' = 7 - k /\ Len(run'.queue) = k - 1 /\ Len(Emptied) = 6
  BY <1>1, <1>3, <1>4, InnermostFirst DEF IInv, TypeOK, Tried
<1>9. Installed' = Installed
  BY <1>1 DEF Installed
<1>10. \A e : IsEmpty(e)' <=> /\ e \notin foreign
                              /\ manifest # NULL => DirOf(Manifest) # e
                              /\ \A p \in Installed : DirOf(p) # e
                              /\ \A a \in dirs' : ParentOf[a] # e
  BY <1>1, <1>9 DEF IsEmpty
<1>11. TypeOK'
  <2>1. run' \in [pc: Running \cup Ended, release: Releases \cup {NULL},
              choice: Selections \cup {{}},
              queue: Seq(Paths \cup {Manifest} \cup Dirs),
              lines: Seq(Paths \cup {Manifest})]
    BY <1>1, <1>3, <1>5 DEF IInv, TypeOK, Running, Ended
  <2>2. run'.queue # <<>> <=> run'.pc \in {"clear", "place", "remove", "rmdir"}
    BY <1>5, <1>8
  <2>3. TreeKept'
    BY <1>1, <1>9 DEF IInv, TypeOK, TreeKept, IsEmpty
  <2>4. QED BY <1>1, <2>1, <2>2, <2>3 DEF IInv, TypeOK
<1>12. Installing'
  BY <1>5, <1>8 DEF Installing
<1>13. UsedFor'
  BY <1>1, <1>5, <1>8, <1>9 DEF IInv, UsedFor, OnlyOne
<1>14. Uninstalling'
  <2>1. Whole' => Installed' = {} /\ manifest' = NULL
    BY <1>1, <1>8, <1>9 DEF IInv, Uninstalling, Whole
  <2>2. ASSUME NEW i \in 1..7 - k, Emptied[i] \in dirs'
        PROVE  ~IsEmpty(Emptied[i])'
    <3>1. CASE i = 7 - k
      <4>1. Emptied[i] = d
        BY <1>6, <3>1
      <4>2. d \in dirs /\ ~IsEmpty(d) /\ dirs' = dirs
        BY <1>1, <2>2, <4>1
      <4>3. QED BY <1>10, <4>1, <4>2 DEF IsEmpty
    <3>2. CASE i # 7 - k
      <4>1. i \in 1..6 - k /\ 7 - k \in 1..6 /\ i \in 1..6 /\ i < 7 - k
        BY <1>2, <1>4, <3>2
      <4>2. Emptied[i] \in dirs
        BY <1>1, <2>2
      <4>3. ~IsEmpty(Emptied[i])
        BY <1>1, <1>2, <4>1, <4>2 DEF IInv, Uninstalling
      <4>4. ParentOf[d] # Emptied[i]
        BY <1>6, <4>1, InnermostFirst
      <4>5. QED BY <1>1, <1>10, <4>3, <4>4 DEF IsEmpty
    <3>3. QED BY <3>1, <3>2
  <2>3. \A i \in 1..Len(run'.queue) : run'.queue[i] = Emptied[Tried' + i]
    BY <1>7, <1>8
  <2>4. Len(run'.queue) <= Len(Emptied)
    BY <1>2, <1>4, <1>8
  <2>5. QED BY <1>5, <1>8, <2>1, <2>2, <2>3, <2>4 DEF Uninstalling
<1>15. QED BY <1>11, <1>12, <1>13, <1>14 DEF IInv

LEMMA StopIInv ==
  ASSUME IInv, Stop
  PROVE  IInv'
<1>1. /\ run.pc \in Running /\ run' = [run EXCEPT !.pc = "stopped", !.queue = <<>>]
      /\ \/ manifest' = manifest
         \/ run.pc = "write" /\ \E n \in 0..Len(run.lines) - 1 :
                                  manifest' = SubSeq(run.lines, 1, n)
      /\ tree' = tree /\ dirs' = dirs /\ foreign' = foreign /\ used' = used
  BY DEF Stop
<1>2. run'.pc = "stopped" /\ run'.queue = <<>> /\ run'.lines = run.lines
  BY <1>1 DEF IInv, TypeOK
<1>3. \/ manifest' = manifest
      \/ run.pc = "write" /\ manifest' \in Seq(Paths) /\ DirOf(Manifest) \in dirs
  <2>1. CASE run.pc = "write" /\ \E n \in 0..Len(run.lines) - 1 :
                                   manifest' = SubSeq(run.lines, 1, n)
    <3>1. PICK l \in Seq(Paths) : run.lines = Append(l, Manifest)
      BY <2>1 DEF IInv, Installing
    <3>2. PICK n \in 0..Len(run.lines) - 1 : manifest' = SubSeq(run.lines, 1, n)
      BY <2>1
    <3>3. Paths \subseteq Lines /\ Manifest \in Lines
      BY DEF Lines
    <3>4. n \in 0..Len(Append(l, Manifest)) - 1
      BY <3>1
    <3>5. SubSeq(Append(l, Manifest), 1, n) \in Seq(Paths)
      BY <3>3, <3>4, CutShort
    <3>6. QED BY <2>1, <3>1, <3>2, <3>5 DEF IInv, Installing
  <2>2. QED BY <1>1, <2>1
<1>4. manifest' = manifest \/ manifest' \in Seq(Paths \cup {Manifest})
  BY <1>3, SeqMonotonic
<1>5. manifest' = manifest \/ Manifest \notin ToSet(manifest')
  <2>1. CASE manifest' \in Seq(Paths)
    BY <2>1, SetOf, NamesDistinct
  <2>2. QED BY <1>3, <2>1
<1>6. Installed' = Installed
  BY <1>1 DEF Installed
<1>7. TypeOK'
  <2>1. <<>> \in Seq(Paths \cup {Manifest} \cup Dirs)
    BY EmptySeq
  <2>2. run' \in [pc: Running \cup Ended, release: Releases \cup {NULL},
              choice: Selections \cup {{}},
              queue: Seq(Paths \cup {Manifest} \cup Dirs),
              lines: Seq(Paths \cup {Manifest})]
    BY <1>1, <2>1 DEF IInv, TypeOK, Ended
  <2>3. run'.queue # <<>> <=> run'.pc \in {"clear", "place", "remove", "rmdir"}
    BY <1>2
  <2>4. TreeKept'
    BY <1>1, <1>3, <1>6 DEF IInv, TypeOK, TreeKept
  <2>5. QED BY <1>1, <1>4, <2>2, <2>3, <2>4 DEF IInv, TypeOK
<1>8. Installing'
  BY <1>2 DEF Installing
<1>9. UsedFor'
  <2>1. used = {} => manifest' = manifest
    BY <1>3 DEF IInv, UsedFor
  <2>2. ASSUME NEW r \in Releases, NEW c \in Selections, used = {<<r, c>>}
        PROVE  OnlyOne(r, c)'
    BY <1>2, <1>5, <1>6, <2>2 DEF IInv, UsedFor, OnlyOne
  <2>3. QED BY <1>1, <1>2, <1>6, <2>1, <2>2 DEF IInv, UsedFor
<1>10. Uninstalling'
  BY <1>2 DEF Uninstalling
<1>11. QED BY <1>7, <1>8, <1>9, <1>10 DEF IInv

LEMMA StutterIInv ==
  ASSUME IInv, UNCHANGED vars
  PROVE  IInv'
<1>1. /\ tree' = tree /\ dirs' = dirs /\ foreign' = foreign /\ manifest' = manifest
      /\ run' = run /\ used' = used
  BY DEF vars
<1>2. Installed' = Installed /\ Mine' = Mine /\ Tried' = Tried /\ Whole' = Whole
  BY <1>1 DEF Installed, Mine, Tried, Whole
<1>3. TypeOK'
  BY <1>1, <1>2 DEF IInv, TypeOK, TreeKept
<1>4. Installing'
  BY <1>1, <1>2 DEF IInv, Installing
<1>5. UsedFor'
  BY <1>1, <1>2 DEF IInv, UsedFor, OnlyOne
<1>6. Uninstalling'
  BY <1>1, <1>2 DEF IInv, Uninstalling, IsEmpty
<1>7. QED BY <1>3, <1>4, <1>5, <1>6 DEF IInv

LEMMA IInvStep == IInv /\ [Next]_vars => IInv'
<1> SUFFICES ASSUME IInv, [Next]_vars PROVE IInv'
  OBVIOUS
<1>1. CASE \E r \in Releases, c \in Selections : Install_start(r, c)
  BY <1>1, StartIInv
<1>2. CASE Install_clear
  BY <1>2, ClearIInv
<1>3. CASE Install_place
  BY <1>3, PlaceIInv
<1>4. CASE Install_manifest
  BY <1>4, ManifestIInv
<1>5. CASE Install_write
  BY <1>5, WriteIInv
<1>6. CASE Uninstall_start
  BY <1>6, UninstallStartIInv
<1>7. CASE Uninstall_remove
  BY <1>7, RemoveIInv
<1>8. CASE Uninstall_rmdir
  BY <1>8, RmdirIInv
<1>9. CASE Stop
  BY <1>9, StopIInv
<1>10. CASE UNCHANGED vars
  BY <1>10, StutterIInv
<1>11. QED
  BY <1>1, <1>2, <1>3, <1>4, <1>5, <1>6, <1>7, <1>8, <1>9, <1>10
  DEF Next, Install, Uninstall

LEMMA IInvAlways == Spec => []IInv
BY InitIInv, IInvStep, PTL DEF Spec

-----------------------------------------------------------------------------
(* The same release installed the same way is one pair.                    *)
LEMMA OnePair ==
  ASSUME TypeOK, Uniform
  PROVE  \E r \in Releases, c \in Selections : used = {<<r, c>>}
<1>1. used \in SUBSET (Releases \X Selections)
  BY DEF TypeOK
<1>2. IsFiniteSet(used)
  BY <1>1, FewReleases, FS_Product, FS_Subset
<1>3. PICK x : used = {x}
  BY <1>2, FS_Singleton DEF Uniform
<1>4. x \in Releases \X Selections
  BY <1>1, <1>3
<1>5. QED BY <1>3, <1>4

(* Every variable keeps its type, and the prefix stays a tree: neither     *)
(* script, stopped anywhere, leaves a file, a directory or something of    *)
(* another package in a directory that is gone (uninstall.sh 125-141).     *)
THEOREM InstallerTypeCorrect == Spec => []TypeOK
BY IInvAlways, PTL DEF IInv

(* An installation that ran to its end is whole: every path of the release *)
(* holds what this release puts there, and the manifest names it all       *)
(* (install.sh 270-320), for any runs that were cut short before it and    *)
(* any release they were of.                                               *)
THEOREM InstallationIsWhole == Spec => []InstalledWhole
<1>1. IInv => InstalledWhole
  <2> SUFFICES ASSUME IInv, run.pc = "installed"
               PROVE  /\ manifest # NULL /\ ToSet(manifest) = Mine \cup {Manifest}
                      /\ \A p \in Mine : tree[p] = run.release
    BY DEF InstalledWhole, Mine
  <2> QED BY DEF IInv, Installing
<1>2. QED BY <1>1, IInvAlways, PTL

(* A manifest that names itself names all that any run, finished or not,   *)
(* has left in the prefix, when the same release is always installed the   *)
(* same way (install.sh 316-320).                                          *)
THEOREM ManifestNamesAll == Spec => []ManifestCovers
<1>1. IInv => ManifestCovers
  <2> SUFFICES ASSUME IInv, Uniform, manifest # NULL, Manifest \in ToSet(manifest)
               PROVE  Installed \subseteq ToSet(manifest)
    BY DEF ManifestCovers
  <2>1. PICK r \in Releases, c \in Selections : used = {<<r, c>>}
    BY OnePair DEF IInv
  <2>2. OnlyOne(r, c)
    BY <2>1 DEF IInv, UsedFor
  <2>3. QED BY <2>2 DEF OnlyOne
<1>2. QED BY <1>1, IInvAlways, PTL

(* An uninstallation from such a manifest that ran to its end leaves no    *)
(* file, no manifest and no empty directory of its list                    *)
(* (docs/RELEASE-CHECKLIST.md 24, uninstall.sh 104-141).                   *)
THEOREM UninstallIsComplete == Spec => []UninstallComplete
<1>1. IInv => UninstallComplete
  <2> SUFFICES ASSUME IInv, Uniform, run.pc = "removed", Manifest \in ToSet(run.lines)
               PROVE  /\ Installed = {} /\ manifest = NULL
                      /\ \A d \in dirs \cap ToSet(Emptied) : ~IsEmpty(d)
    BY DEF UninstallComplete
  <2>1. Whole
    BY OnePair DEF IInv, Whole
  <2>2. Installed = {} /\ manifest = NULL
    BY <2>1 DEF IInv, Uninstalling
  <2>3. run.queue = <<>>
    BY DEF IInv, TypeOK
  <2>4. Tried = 6
    BY <2>3, EmptySeq, InnermostFirst DEF Tried
  <2>5. \A d \in ToSet(Emptied) : \E i \in 1..6 : d = Emptied[i]
    <3>1. DOMAIN Emptied = 1..6
      BY InnermostFirst
    <3>2. QED BY <3>1 DEF ToSet
  <2>6. \A i \in 1..6 : Emptied[i] \in dirs => ~IsEmpty(Emptied[i])
    BY <2>4 DEF IInv, Uninstalling
  <2>7. QED BY <2>2, <2>5, <2>6
<1>2. QED BY <1>1, IInvAlways, PTL
=============================================================================
