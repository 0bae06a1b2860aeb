------------------------ MODULE XrdNdnProducerProofs ------------------------
(***************************************************************************)
(* The theorems of module XrdNdnProducer: reads of the right file and      *)
(* descriptors that are not lost, whatever the workers and the garbage     *)
(* collector do, and Interests that are still there when they are read.    *)
(* For any number of Interests, files, threads and descriptors.            *)
(***************************************************************************)
EXTENDS XrdNdnProducer, SequenceTheorems, WellFoundedInduction, TLAPS

-----------------------------------------------------------------------------
(* Numbers that are handed out.                                             *)

\* The least element of a set of numbers is in it.
LEMMA LeastIn == ASSUME NEW S \in SUBSET Nat, S # {} PROVE Least(S) \in S
<1> DEFINE R == {ss \in Nat \X Nat : ss[1] < ss[2]}
<1>0. IsWellFoundedOn(R, Nat)
  BY NatLessThanWellFounded DEF OpToRel
<1>1. \E x \in S : \A y \in S : ~ (<<y, x>> \in R)
  <2> HIDE DEF R
  <2> QED  BY <1>0, WFMin
<1>2. \A x, y \in Nat : <<y, x>> \in R <=> y < x
  OBVIOUS
<1> HIDE DEF R
<1>3. PICK x \in S : \A y \in S : ~ (<<y, x>> \in R)
  BY <1>1
<1>4. ASSUME NEW y \in S PROVE x <= y
  <2>1. x \in Nat /\ y \in Nat
    OBVIOUS
  <2>2. ~ (y < x)
    BY <1>2, <1>3, <2>1
  <2> QED  BY <2>1, <2>2
<1> QED  BY <1>4 DEF Least

\* open returns a descriptor that is free.
LEMMA LeastFree == FreeFds # {} => Least(FreeFds) \in Fds /\ files[Least(FreeFds)] = NoPath
BY LeastIn, XrdNdnProducerAssumption DEF FreeFds, Fds

-----------------------------------------------------------------------------
(* The invariant of the FileHandlers and their descriptors.                 *)

Using == {"open", "opening", "opened", "fstat", "read"}

\* The pointers and the descriptors; a worker has a FileHandler from
\* getFileHandler until its Data is out, and knows its name all that time.
PointersOK ==
    /\ pc \in [Workers -> Using \cup {"idle", "lock", "find", "gcLock", "sweep"}]
    /\ job \in [Workers -> Names \cup {NoName}]
    /\ fh \in [Workers -> Handlers \cup {0}]
    /\ map \in [Paths -> Handlers \cup {0}]
    /\ fd \in [Handlers -> Fds \cup {0}]
    /\ files \in [Fds -> Paths \cup {NoPath}]
    /\ \A w \in Workers :
        /\ fh[w] # 0 <=> pc[w] \in Using
        /\ pc[w] \in Using \cup {"find"} => job[w] \in Names
        /\ pc[w] = "lock" /\ Defined => job[w] \in Names

\* FileHandler h was made for path p: the map or a worker says so.
Serves(h, p) == map[p] = h \/ \E w \in Workers : fh[w] = h /\ job[w].path = p

\* A FileHandler has one path, and its descriptor, which it shares with no
\* other, has that file open; it has none only if the file did not open once.
HandlersOK ==
    /\ \A h \in Handlers : \A p, q \in Paths : Serves(h, p) /\ Serves(h, q) => p = q
    /\ \A h \in Handlers : \A p \in Paths : Serves(h, p) =>
        IF fd[h] = 0 THEN p \in failed ELSE files[fd[h]] = p
    /\ \A h \in Handlers : h \notin Live(map, fh) => fd[h] = 0
    /\ \A g, h \in Handlers : fd[g] = fd[h] /\ fd[g] # 0 => g = h

\* Only a file that did not open at first is opened again.
ReopensFailed == \A w \in Workers : pc[w] = "opening" => job[w].path \in failed

FilesInv == PointersOK /\ HandlersOK /\ ReopensFailed /\ NoDescriptorLost

\* Who keeps a FileHandler alive.
LEMMA InLive ==
    ASSUME NEW m, NEW f, NEW h
    PROVE  h \in Live(m, f) <=> h # 0 /\ ((\E p \in Paths : m[p] = h) \/ \E w \in Workers : f[w] = h)
BY DEF Live

LEMMA NameHasPath == \A n \in Names : n.path \in Paths /\ n.call \in {"open", "fstat", "read"}
BY XrdNdnProducerAssumption

LEMMA NoZero == 0 \notin Handlers /\ 0 \notin Fds /\ NoPath \notin Paths
BY XrdNdnProducerAssumption DEF Handlers, Fds

\* Whoever is pointed to serves a path.
LEMMA LiveServes ==
    ASSUME PointersOK, NEW h \in Handlers
    PROVE  h \in Live(map, fh) <=> \E p \in Paths : Serves(h, p)
<1>1. \A w \in Workers : fh[w] = h => job[w].path \in Paths
  BY NoZero, NameHasPath DEF PointersOK
<1> QED  BY <1>1, InLive, NoZero DEF Serves

\* The invariant implies the property.
LEMMA FilesReadsNamed == FilesInv => ReadsNamedFile
<1> SUFFICES ASSUME FilesInv, NEW w \in Workers, pc[w] = "read", fd[fh[w]] # 0
             PROVE  FileRead(w) = job[w].path
  BY DEF ReadsNamedFile
<1>1. fh[w] \in Handlers /\ job[w].path \in Paths
  BY NameHasPath DEF FilesInv, PointersOK, Using
<1>2. Serves(fh[w], job[w].path)
  BY DEF Serves
<1> QED  BY <1>1, <1>2 DEF FilesInv, HandlersOK, FileRead

\* No file is open at the start.
LEMMA FilesInit == Init => FilesInv
<1> SUFFICES ASSUME Init PROVE FilesInv  OBVIOUS
<1>1. PointersOK
  BY DEF Init, PointersOK, Using
<1>2. \A h \in Handlers, p \in Paths : ~ Serves(h, p)
  BY NoZero DEF Init, Serves
<1>3. HandlersOK
  BY <1>2 DEF Init, HandlersOK
<1>4. ReopensFailed /\ NoDescriptorLost
  BY DEF Init, ReopensFailed, NoDescriptorLost
<1> QED  BY <1>1, <1>3, <1>4 DEF FilesInv

-----------------------------------------------------------------------------
(* What the steps do to them.                                               *)

\* Pointers go, none comes: the objects that die close their files, and
\* nobody else's.
LEMMA DropInv ==
    ASSUME PointersOK, HandlersOK, NoDescriptorLost,
           NEW m, NEW f, NEW S, Drop(m, f, S), failed' = failed,
           \A p \in Paths : m[p] \in {0, map[p]},
           \A w \in Workers : f[w] = 0 \/ (f[w] = fh[w] /\ job'[w] = job[w])
    PROVE  /\ fd' \in [Handlers -> Fds \cup {0}]
           /\ files' \in [Fds -> Paths \cup {NoPath}]
           /\ HandlersOK' /\ NoDescriptorLost'
<1>1. /\ map' = m /\ fh' = f
      /\ files' = [d \in Fds |-> IF \E h \in Live(map, fh) \ Live(m, f) : fd[h] = d
                                 THEN NoPath ELSE files[d]]
      /\ fd' = [h \in Handlers |-> IF h \in Live(m, f) THEN fd[h] ELSE 0]
  BY DEF Drop
<1>2. ASSUME NEW h \in Handlers, NEW p \in Paths, Serves(h, p)' PROVE Serves(h, p)
  BY <1>1, <1>2, NoZero DEF Serves
<1>3. \A h : h \in Live(m, f) => h \in Live(map, fh)
  BY InLive
<1>4. \A h \in Live(map, fh) : h \in Handlers
  BY InLive DEF PointersOK
<1>5. fd' \in [Handlers -> Fds \cup {0}] /\ files' \in [Fds -> Paths \cup {NoPath}]
  BY <1>1 DEF PointersOK
\* A FileHandler that lives keeps its descriptor and the file it has open.
<1>6. ASSUME NEW h \in Handlers, h \in Live(m, f)
      PROVE  fd'[h] = fd[h] /\ (fd[h] # 0 => files'[fd[h]] = files[fd[h]])
  <2>1. fd'[h] = fd[h] /\ fd[h] \in Fds \cup {0}
    BY <1>1, <1>6 DEF PointersOK
  <2>2. ASSUME fd[h] # 0 PROVE ~ \E g \in Live(map, fh) \ Live(m, f) : fd[g] = fd[h]
    BY <1>4, <1>6, <2>2 DEF HandlersOK
  <2> QED  BY <1>1, <2>1, <2>2
<1>7. ASSUME NEW h \in Handlers, NEW p \in Paths, Serves(h, p)' PROVE h \in Live(m, f)
  BY <1>1, <1>7, InLive, NoZero DEF Serves
<1>8. HandlersOK'
  <2>1. \A h \in Handlers : \A p, q \in Paths : Serves(h, p)' /\ Serves(h, q)' => p = q
    BY <1>2 DEF HandlersOK
  <2>2. \A h \in Handlers : \A p \in Paths : Serves(h, p)' =>
            IF fd'[h] = 0 THEN p \in failed' ELSE files'[fd'[h]] = p
    BY <1>2, <1>6, <1>7 DEF HandlersOK
  <2>3. \A h \in Handlers : h \notin Live(map', fh') => fd'[h] = 0
    BY <1>1
  <2>4. \A g, h \in Handlers : fd'[g] = fd'[h] /\ fd'[g] # 0 => g = h
    BY <1>1 DEF HandlersOK
  <2> QED  BY <2>1, <2>2, <2>3, <2>4 DEF HandlersOK
<1>9. NoDescriptorLost'
  <2> SUFFICES ASSUME NEW d \in Fds, files'[d] # NoPath, files'[d] \notin failed
               PROVE  \E h \in Live(m, f) : fd'[h] = d
    BY <1>1 DEF NoDescriptorLost
  <2>1. files'[d] = files[d] /\ ~ \E h \in Live(map, fh) \ Live(m, f) : fd[h] = d
    BY <1>1
  <2>2. PICK h \in Live(map, fh) : fd[h] = d
    BY <2>1 DEF NoDescriptorLost
  <2> QED  BY <1>4, <1>6, <2>1, <2>2
<1> QED  BY <1>5, <1>8, <1>9

\* A worker hands its Data over and lets its FileHandler go.
LEMMA DeliverInv ==
    ASSUME FilesInv, NEW w \in Workers, NEW S, Deliver(w, S), UNCHANGED <<failed, undefined>>
    PROVE  FilesInv'
<1> DEFINE f == [fh EXCEPT ![w] = 0]
<1>1. /\ Drop(map, f, S) /\ job' = [job EXCEPT ![w] = NoName] /\ pc' = [pc EXCEPT ![w] = "idle"]
      /\ map' = map /\ fh' = f
  BY DEF Deliver, Goto, Drop
<1>2. \A v \in Workers : f[v] = 0 \/ (f[v] = fh[v] /\ job'[v] = job[v])
  BY <1>1 DEF FilesInv, PointersOK
<1>3. /\ fd' \in [Handlers -> Fds \cup {0}] /\ files' \in [Fds -> Paths \cup {NoPath}]
      /\ HandlersOK' /\ NoDescriptorLost'
  <2> HIDE DEF f
  <2> QED  BY <1>1, <1>2, DropInv DEF FilesInv
<1>4. PointersOK'
  <2>1. /\ pc' \in [Workers -> Using \cup {"idle", "lock", "find", "gcLock", "sweep"}]
        /\ job' \in [Workers -> Names \cup {NoName}]
        /\ fh' \in [Workers -> Handlers \cup {0}]
        /\ map' \in [Paths -> Handlers \cup {0}]
    BY <1>1 DEF FilesInv, PointersOK
  <2>2. ASSUME NEW v \in Workers
        PROVE  /\ fh'[v] # 0 <=> pc'[v] \in Using
               /\ pc'[v] \in Using \cup {"find"} => job'[v] \in Names
               /\ pc'[v] = "lock" /\ Defined' => job'[v] \in Names
    BY <1>1 DEF FilesInv, PointersOK, Using, Defined
  <2> QED  BY <1>3, <2>1, <2>2 DEF PointersOK
<1>5. ReopensFailed'
  BY <1>1 DEF FilesInv, PointersOK, ReopensFailed
<1> QED  BY <1>3, <1>4, <1>5 DEF FilesInv

\* The map is swept or cleared: workers keep what they use.
LEMMA SweepInv ==
    ASSUME FilesInv, NEW m, NEW S, Drop(m, fh, S), m \in [Paths -> Handlers \cup {0}],
           \A p \in Paths : m[p] \in {0, map[p]},
           UNCHANGED <<job, failed>>, undefined = {},
           \A w \in Workers : pc'[w] = pc[w] \/ (pc[w] = "sweep" /\ pc'[w] = "idle"),
           DOMAIN pc' = Workers, pc' = [w \in Workers |-> pc'[w]]
    PROVE  FilesInv'
<1>1. map' = m /\ fh' = fh
  BY DEF Drop
<1>2. /\ fd' \in [Handlers -> Fds \cup {0}] /\ files' \in [Fds -> Paths \cup {NoPath}]
      /\ HandlersOK' /\ NoDescriptorLost'
  BY DropInv DEF FilesInv
<1>3. PointersOK'
  <2>1. pc' \in [Workers -> Using \cup {"idle", "lock", "find", "gcLock", "sweep"}]
    BY DEF FilesInv, PointersOK
  <2>2. ASSUME NEW v \in Workers
        PROVE  /\ fh'[v] # 0 <=> pc'[v] \in Using
               /\ pc'[v] \in Using \cup {"find"} => job'[v] \in Names
               /\ pc'[v] = "lock" /\ Defined' => job'[v] \in Names
    BY <1>1 DEF FilesInv, PointersOK, Using, Defined
  <2> QED  BY <1>1, <1>2, <2>1, <2>2 DEF FilesInv, PointersOK
<1>4. ReopensFailed'
  BY DEF FilesInv, PointersOK, ReopensFailed
<1> QED  BY <1>2, <1>3, <1>4 DEF FilesInv

\* Steps that touch no pointer and no descriptor.
LEMMA PointersKept ==
    ASSUME FilesInv, UNCHANGED <<fh, map, fd, files, failed>>, undefined = {},
           pc' \in [Workers -> Using \cup {"idle", "lock", "find", "gcLock", "sweep"}],
           job' \in [Workers -> Names \cup {NoName}],
           \A w \in Workers :
            /\ pc'[w] \in Using <=> pc[w] \in Using
            /\ pc'[w] = "opening" => pc[w] = "opening" \/ job[w].path \in failed
            /\ pc[w] \in Using => job'[w] = job[w]
            /\ pc'[w] = "find" => job'[w] \in Names
            /\ pc'[w] = "lock" /\ Defined' => job'[w] \in Names
    PROVE  FilesInv'
<1>1. PointersOK'
  BY DEF FilesInv, PointersOK
<1>2. ASSUME NEW h \in Handlers, NEW p \in Paths PROVE Serves(h, p)' <=> Serves(h, p)
  BY NoZero DEF FilesInv, PointersOK, Serves
<1>3. HandlersOK'
  BY <1>2 DEF FilesInv, HandlersOK
<1>4. ReopensFailed'
  BY DEF FilesInv, PointersOK, ReopensFailed, Using
<1>5. NoDescriptorLost'
  BY DEF FilesInv, NoDescriptorLost
<1> QED  BY <1>1, <1>3, <1>4, <1>5 DEF FilesInv

\* open(2) gives h a descriptor that nobody has, or none; the others keep
\* theirs and what it has open.
LEMMA OpenFileInv ==
    ASSUME PointersOK, HandlersOK, NEW h \in Handlers, NEW p \in Paths, OpenFile(h, p)
    PROVE  /\ fd' \in [Handlers -> Fds \cup {0}]
           /\ files' \in [Fds -> Paths \cup {NoPath}]
           /\ fd'[h] = 0 \/ files'[fd'[h]] = p
           /\ \A g \in Handlers \ {h} :
                /\ fd'[g] = fd[g]
                /\ fd[g] # 0 => fd'[h] # fd[g] /\ files'[fd[g]] = files[fd[g]]
           /\ \A d \in Fds : files'[d] = files[d] \/ fd'[h] = d
<1>1. CASE fd' = [fd EXCEPT ![h] = 0] /\ UNCHANGED files
  BY <1>1, NoZero DEF PointersOK
<1>2. CASE /\ FreeFds # {}
           /\ fd' = [fd EXCEPT ![h] = Least(FreeFds)]
           /\ files' = [files EXCEPT ![Least(FreeFds)] = p]
  <2> DEFINE d == Least(FreeFds)
  <2>1. d \in Fds /\ files[d] = NoPath /\ fd' = [fd EXCEPT ![h] = d] /\ files' = [files EXCEPT ![d] = p]
    BY <1>2, LeastFree
  <2> HIDE DEF d
  <2>2. ASSUME NEW g \in Handlers \ {h}, fd[g] # 0 PROVE fd[g] \in Fds /\ fd[g] # d
    <3>1. g \in Live(map, fh)
      BY <2>2 DEF HandlersOK
    <3>2. PICK q \in Paths : Serves(g, q)
      BY <3>1, LiveServes
    <3> QED  BY <2>1, <2>2, <3>2, NoZero DEF HandlersOK, PointersOK
  <2> QED  BY <2>1, <2>2 DEF PointersOK
<1> QED  BY <1>1, <1>2 DEF OpenFile

\* A worker that was let through finds the FileHandler of its path ...
LEMMA FindInv ==
    ASSUME FilesInv, NEW w \in Workers, getFileHandler(w), map[job[w].path] # 0
    PROVE  FilesInv'
<1> DEFINE p == job[w].path
<1>1. /\ pc[w] = "find" /\ pc' = [pc EXCEPT ![w] = job[w].call] /\ fh' = [fh EXCEPT ![w] = map[p]]
      /\ UNCHANGED <<job, map, fd, files, failed, undefined>>
  BY DEF getFileHandler, Goto, errorVars
<1>2. /\ job[w] \in Names /\ p \in Paths /\ job[w].call \in {"open", "fstat", "read"}
      /\ map[p] \in Handlers /\ fh[w] = 0 /\ map[p] # 0
  BY <1>1, NameHasPath DEF FilesInv, PointersOK, Using
<1> HIDE DEF p
<1>3. PointersOK'
  <2>1. /\ pc' \in [Workers -> Using \cup {"idle", "lock", "find", "gcLock", "sweep"}]
        /\ fh' \in [Workers -> Handlers \cup {0}]
    BY <1>1, <1>2 DEF FilesInv, PointersOK, Using
  <2>2. ASSUME NEW v \in Workers
        PROVE  /\ fh'[v] # 0 <=> pc'[v] \in Using
               /\ pc'[v] \in Using \cup {"find"} => job'[v] \in Names
               /\ pc'[v] = "lock" /\ Defined' => job'[v] \in Names
    BY <1>1, <1>2 DEF FilesInv, PointersOK, Using, Defined
  <2> QED  BY <1>1, <2>1, <2>2 DEF FilesInv, PointersOK
<1>4. ASSUME NEW h \in Handlers, NEW q \in Paths PROVE Serves(h, q)' <=> Serves(h, q)
  BY <1>1, <1>2, NoZero DEF FilesInv, PointersOK, Serves, p
<1>5. \A h \in Handlers : h \in Live(map', fh') <=> h \in Live(map, fh)
  <2>1. \A h \in Handlers : h \in Live(map', fh') <=> \E q \in Paths : Serves(h, q)'
    BY <1>3, InLive, NoZero, NameHasPath DEF PointersOK, Serves
  <2> QED  BY <1>4, <2>1, LiveServes DEF FilesInv
<1>6. HandlersOK'
  BY <1>1, <1>4, <1>5 DEF FilesInv, HandlersOK
<1>7. ReopensFailed'
  BY <1>1, <1>2 DEF FilesInv, PointersOK, ReopensFailed
<1>8. NoDescriptorLost'
  <2>1. \A h \in Live(map, fh) : h \in Live(map', fh')
    BY <1>5, InLive DEF FilesInv, PointersOK
  <2> QED  BY <1>1, <2>1 DEF FilesInv, NoDescriptorLost
<1> QED  BY <1>3, <1>6, <1>7, <1>8 DEF FilesInv

\* ... or makes one, whose number no FileHandler has that is alive.
LEMMA MakeInv ==
    ASSUME FilesInv, NEW w \in Workers, getFileHandler(w), map[job[w].path] = 0
    PROVE  FilesInv'
<1> DEFINE p == job[w].path
           h == Least(Handlers \ Live(map, fh))
<1>1. /\ pc[w] = "find" /\ pc' = [pc EXCEPT ![w] = job[w].call] /\ fh' = [fh EXCEPT ![w] = h]
      /\ map' = [map EXCEPT ![p] = h] /\ OpenFile(h, p)
      /\ failed' = (IF fd'[h] = 0 THEN failed \cup {p} ELSE failed)
      /\ UNCHANGED <<job, undefined>> /\ Handlers # Live(map, fh) /\ map[p] = 0
  BY DEF getFileHandler, Goto, errorVars
<1>2. /\ job[w] \in Names /\ p \in Paths /\ job[w].call \in {"open", "fstat", "read"} /\ fh[w] = 0
  BY <1>1, NameHasPath DEF FilesInv, PointersOK, Using
<1>3. h \in Handlers /\ h \notin Live(map, fh) /\ h # 0
  <2>1. Handlers \ Live(map, fh) \in SUBSET Nat
    BY DEF Handlers
  <2>2. Handlers \ Live(map, fh) # {}
    <3>1. \A g \in Live(map, fh) : g \in Handlers
      BY InLive DEF FilesInv, PointersOK
    <3>2. Handlers # Live(map, fh)
      BY <1>1
    <3> QED  BY <3>1, <3>2
  <2> QED  BY <2>1, <2>2, LeastIn, NoZero
<1>4. p = job[w].path
  OBVIOUS
<1> HIDE DEF p, h
<1>5. /\ fd' \in [Handlers -> Fds \cup {0}] /\ files' \in [Fds -> Paths \cup {NoPath}]
      /\ fd'[h] = 0 \/ files'[fd'[h]] = p
      /\ \A g \in Handlers \ {h} :
           /\ fd'[g] = fd[g]
           /\ fd[g] # 0 => fd'[h] # fd[g] /\ files'[fd[g]] = files[fd[g]]
      /\ \A d \in Fds : files'[d] = files[d] \/ fd'[h] = d
  BY <1>1, <1>2, <1>3, OpenFileInv DEF FilesInv
<1>6. PointersOK'
  <2>1. /\ pc' \in [Workers -> Using \cup {"idle", "lock", "find", "gcLock", "sweep"}]
        /\ fh' \in [Workers -> Handlers \cup {0}]
        /\ map' \in [Paths -> Handlers \cup {0}]
    BY <1>1, <1>2, <1>3 DEF FilesInv, PointersOK, Using
  <2>2. ASSUME NEW v \in Workers
        PROVE  /\ fh'[v] # 0 <=> pc'[v] \in Using
               /\ pc'[v] \in Using \cup {"find"} => job'[v] \in Names
               /\ pc'[v] = "lock" /\ Defined' => job'[v] \in Names
    BY <1>1, <1>2, <1>3 DEF FilesInv, PointersOK, Using, Defined
  <2> QED  BY <1>1, <1>5, <2>1, <2>2 DEF FilesInv, PointersOK
<1>7. ASSUME NEW g \in Handlers, NEW q \in Paths
      PROVE  Serves(g, q)' <=> IF g = h THEN q = p ELSE Serves(g, q)
  <2>1. ~ Serves(h, q)
    BY <1>3, LiveServes DEF FilesInv
  <2>2. CASE g = h
    BY <1>1, <1>2, <1>3, <1>4, <2>1, <2>2 DEF FilesInv, PointersOK, Serves
  <2>3. CASE g # h
    BY <1>1, <1>2, <2>3, NoZero DEF FilesInv, PointersOK, Serves
  <2> QED  BY <2>2, <2>3
<1>8. \A g \in Handlers : g \in Live(map', fh') <=> g = h \/ g \in Live(map, fh)
  <2>1. \A g \in Handlers : g \in Live(map', fh') <=> \E q \in Paths : Serves(g, q)'
    BY <1>6, InLive, NoZero, NameHasPath DEF PointersOK, Serves
  <2> QED  BY <1>2, <1>7, <2>1, LiveServes DEF FilesInv
<1>9. HandlersOK'
  <2>1. \A g \in Handlers : \A q, r \in Paths : Serves(g, q)' /\ Serves(g, r)' => q = r
    BY <1>7 DEF FilesInv, HandlersOK
  <2>2. \A g \in Handlers : \A q \in Paths : Serves(g, q)' =>
            IF fd'[g] = 0 THEN q \in failed' ELSE files'[fd'[g]] = q
    BY <1>1, <1>5, <1>7 DEF FilesInv, HandlersOK
  <2>3. \A g \in Handlers : g \notin Live(map', fh') => fd'[g] = 0
    BY <1>5, <1>8 DEF FilesInv, HandlersOK
  <2>4. \A f, g \in Handlers : fd'[f] = fd'[g] /\ fd'[f] # 0 => f = g
    BY <1>5 DEF FilesInv, HandlersOK
  <2> QED  BY <2>1, <2>2, <2>3, <2>4 DEF HandlersOK
<1>10. ReopensFailed'
  BY <1>1, <1>2 DEF FilesInv, PointersOK, ReopensFailed
<1>11. NoDescriptorLost'
  <2> SUFFICES ASSUME NEW d \in Fds, files'[d] # NoPath, files'[d] \notin failed'
               PROVE  \E g \in Live(map', fh') : fd'[g] = d
    BY DEF NoDescriptorLost
  <2>1. CASE fd'[h] = d
    BY <1>3, <1>8, <2>1
  <2>2. CASE files'[d] = files[d]
    <3>1. files[d] \notin failed
      BY <1>1, <2>2
    <3>2. PICK g \in Live(map, fh) : fd[g] = d
      BY <2>2, <3>1 DEF FilesInv, NoDescriptorLost
    <3>3. g \in Handlers /\ g # h
      BY <1>3, InLive DEF FilesInv, PointersOK
    <3> QED  BY <1>5, <1>8, <3>2, <3>3
  <2> QED  BY <1>5, <2>1, <2>2
<1> QED  BY <1>6, <1>9, <1>10, <1>11 DEF FilesInv

\* A second open of a file that did not open at first: two of them may race,
\* and the descriptor of the first is lost.
LEMMA OpeningInv ==
    ASSUME FilesInv, NEW w \in Workers, Opening(w)
    PROVE  FilesInv'
<1> DEFINE p == job[w].path
           h == fh[w]
<1>1. /\ pc[w] = "opening" /\ pc' = [pc EXCEPT ![w] = "opened"] /\ OpenFile(h, p)
      /\ UNCHANGED <<fh, map, job, failed, undefined>>
  BY DEF Opening, Goto, errorVars
<1>2. job[w] \in Names /\ p \in Paths /\ h \in Handlers /\ h # 0 /\ p \in failed
  BY <1>1, NameHasPath, NoZero DEF FilesInv, PointersOK, Using, ReopensFailed
<1>3. Serves(h, p)
  BY DEF Serves
<1> HIDE DEF p, h
<1>4. /\ fd' \in [Handlers -> Fds \cup {0}] /\ files' \in [Fds -> Paths \cup {NoPath}]
      /\ fd'[h] = 0 \/ files'[fd'[h]] = p
      /\ \A g \in Handlers \ {h} :
           /\ fd'[g] = fd[g]
           /\ fd[g] # 0 => fd'[h] # fd[g] /\ files'[fd[g]] = files[fd[g]]
      /\ \A d \in Fds : files'[d] = files[d] \/ fd'[h] = d
  BY <1>1, <1>2, OpenFileInv DEF FilesInv
<1>5. PointersOK'
  <2>1. pc' \in [Workers -> Using \cup {"idle", "lock", "find", "gcLock", "sweep"}]
    BY <1>1 DEF FilesInv, PointersOK, Using
  <2>2. ASSUME NEW v \in Workers
        PROVE  /\ fh'[v] # 0 <=> pc'[v] \in Using
               /\ pc'[v] \in Using \cup {"find"} => job'[v] \in Names
               /\ pc'[v] = "lock" /\ Defined' => job'[v] \in Names
    BY <1>1, <1>2 DEF FilesInv, PointersOK, Using, Defined
  <2> QED  BY <1>1, <1>4, <2>1, <2>2 DEF FilesInv, PointersOK
<1>6. ASSUME NEW g \in Handlers, NEW q \in Paths PROVE Serves(g, q)' <=> Serves(g, q)
  BY <1>1 DEF Serves
<1>7. HandlersOK'
  <2>1. \A g \in Handlers : \A q, r \in Paths : Serves(g, q)' /\ Serves(g, r)' => q = r
    BY <1>6 DEF FilesInv, HandlersOK
  <2>2. \A g \in Handlers : \A q \in Paths : Serves(g, q)' =>
            IF fd'[g] = 0 THEN q \in failed' ELSE files'[fd'[g]] = q
    <3>1. \A q \in Paths : Serves(h, q) => q = p
      BY <1>2, <1>3 DEF FilesInv, HandlersOK
    <3> QED  BY <1>1, <1>2, <1>4, <1>6, <3>1 DEF FilesInv, HandlersOK
  <2>3. \A g \in Handlers : g \notin Live(map', fh') => fd'[g] = 0
    <3>1. h \in Live(map, fh)
      BY <1>2, <1>3, LiveServes DEF FilesInv
    <3> QED  BY <1>1, <1>4, <3>1 DEF FilesInv, HandlersOK
  <2>4. \A f, g \in Handlers : fd'[f] = fd'[g] /\ fd'[f] # 0 => f = g
    BY <1>4 DEF FilesInv, HandlersOK
  <2> QED  BY <2>1, <2>2, <2>3, <2>4 DEF HandlersOK
<1>8. ReopensFailed'
  BY <1>1 DEF FilesInv, PointersOK, ReopensFailed
<1>9. NoDescriptorLost'
  <2> SUFFICES ASSUME NEW d \in Fds, files'[d] # NoPath, files'[d] \notin failed
               PROVE  \E g \in Live(map, fh) : fd'[g] = d
    BY <1>1 DEF NoDescriptorLost
  <2>1. CASE fd'[h] = d
    <3>1. h \in Live(map, fh)
      BY <1>2, <1>3, LiveServes DEF FilesInv
    <3> QED  BY <2>1, <3>1
  <2>2. CASE files'[d] = files[d]
    <3>1. PICK g \in Live(map, fh) : fd[g] = d
      BY <2>2 DEF FilesInv, NoDescriptorLost
    <3>2. g \in Handlers /\ fd[g] # 0
      BY <3>1, InLive, NoZero DEF FilesInv, PointersOK
    <3>3. CASE g = h
      <4>1. files[d] = p
        BY <1>2, <1>3, <3>1, <3>2, <3>3 DEF FilesInv, HandlersOK
      <4> QED  BY <1>2, <2>2, <4>1
    <3>4. CASE g # h
      BY <1>4, <3>1, <3>2, <3>4
    <3> QED  BY <3>3, <3>4
  <2> QED  BY <1>4, <2>1, <2>2
<1> QED  BY <1>5, <1>7, <1>8, <1>9 DEF FilesInv

-----------------------------------------------------------------------------
(* The invariant of the Interests, what is posted and what is answered.     *)

Distinct == \A i, j \in 1..Len(name) : i # j => name[i] # name[j]

\* A name that a worker or a posted Data has is that of an Interest.
Known(n) == n = NoName \/ \E i \in 1..Len(name) : name[i] = n

\* Nobody has read Interest i yet.
Unread(i) ==
    /\ \A k \in 1..Len(puts) : puts[k] # name[i]
    /\ \A w \in Workers : job[w] # name[i]

PacketsOK ==
    /\ name \in Seq(Names) /\ tasks \in Seq(Nat) /\ puts \in Seq(Names \cup {NoName})
    /\ job \in [Workers -> Names \cup {NoName}]
    /\ \A k \in 1..Len(tasks) : tasks[k] \in 1..Len(name)
    /\ \A k, l \in 1..Len(tasks) : k # l => tasks[k] # tasks[l]
    /\ \A k \in 1..Len(puts) : Known(puts[k])
    /\ \A w \in Workers : Known(job[w])
    /\ state \in {"main", "connect"} => tasks = <<>>

\* What is still posted has not been read and, while the program runs and no
\* lifetime is over, the face holds it.
UnreadHeld ==
    Distinct => \A k \in 1..Len(tasks) :
        /\ Unread(tasks[k])
        /\ state = "run" /\ ~expired => tasks[k] \in pit

InterestsInv == PacketsOK /\ UnreadHeld /\ InterestStillThere

LEMMA NoNameNew == NoName \notin Names
BY XrdNdnProducerAssumption DEF NoName

\* No Interest is there at the start.
LEMMA InterestsInit == Init => InterestsInv
BY DEF Init, InterestsInv, PacketsOK, UnreadHeld, InterestStillThere, Known

\* Steps that read and answer nothing.
LEMMA PacketsKept ==
    ASSUME InterestsInv, UNCHANGED <<name, tasks, puts, job, pit, expired>>, undefined = {},
           "interest" \notin undefined',
           state' = state \/ state \in {"main", "connect"} \/ state' \in {"clear", "join", "exit"}
    PROVE  InterestsInv'
<1>1. tasks # <<>> => state' = state \/ state' \in {"clear", "join", "exit"}
  BY DEF InterestsInv, PacketsOK
<1>2. PacketsOK'
  BY <1>1 DEF InterestsInv, PacketsOK, Known
<1>3. UnreadHeld'
  <2>1. CASE tasks = <<>>
    BY <2>1 DEF UnreadHeld
  <2>2. CASE tasks # <<>>
    BY <1>1, <2>2 DEF InterestsInv, UnreadHeld, Distinct, Unread
  <2> QED  BY <2>1, <2>2
<1> QED  BY <1>2, <1>3 DEF InterestsInv, InterestStillThere

\* A new Interest has a name of its own, or Distinct does not hold any more.
LEMMA ArriveInv == ASSUME InterestsInv, Defined, NEW n \in Names, Arrive(n) PROVE InterestsInv'
<1> DEFINE c == Len(name) + 1
<1>1. /\ name' = Append(name, n) /\ tasks' = Append(tasks, c) /\ pit' = pit \cup {c}
      /\ state = "run" /\ UNCHANGED <<state, puts, job, undefined, expired>>
      /\ undefined = {}
  <2>1. name' = Append(name, n) /\ Len(name') = c
    BY DEF Arrive, InterestsInv, PacketsOK
  <2> QED  BY <2>1 DEF Arrive, workerVars, errorVars, Defined
<1>2. /\ name \in Seq(Names) /\ tasks \in Seq(Nat) /\ name' \in Seq(Names) /\ tasks' \in Seq(Nat)
      /\ Len(name') = c /\ Len(tasks') = Len(tasks) + 1 /\ c \in Nat /\ Len(tasks) \in Nat
      /\ \A i \in 1..Len(name) : name'[i] = name[i]
      /\ name'[c] = n
      /\ \A k \in 1..Len(tasks) : tasks'[k] = tasks[k]
      /\ tasks'[Len(tasks) + 1] = c
  BY <1>1 DEF InterestsInv, PacketsOK
<1>3. \A i : i \in 1..Len(name') <=> i \in 1..Len(name) \/ i = c
  BY <1>2
<1>4. \A k : k \in 1..Len(tasks') <=> k \in 1..Len(tasks) \/ k = Len(tasks) + 1
  BY <1>2
<1>5. c \notin 1..Len(name) /\ Len(tasks) + 1 \notin 1..Len(tasks)
  BY <1>2
<1> HIDE DEF c
<1>6. \A m : Known(m) => Known(m)'
  BY <1>2, <1>3 DEF Known
<1>7. PacketsOK'
  <2>1. \A k \in 1..Len(tasks') : tasks'[k] \in 1..Len(name')
    BY <1>2, <1>3, <1>4 DEF InterestsInv, PacketsOK
  <2>2. \A k, l \in 1..Len(tasks') : k # l => tasks'[k] # tasks'[l]
    <3>0. /\ \A k \in 1..Len(tasks) : tasks'[k] = tasks[k] /\ tasks[k] \in 1..Len(name)
          /\ \A k, l \in 1..Len(tasks) : k # l => tasks[k] # tasks[l]
      BY <1>2 DEF InterestsInv, PacketsOK
    <3>1. \A k \in 1..Len(tasks) : tasks'[k] # c
      BY <3>0, <1>5
    <3>2. \A k, l \in 1..Len(tasks) : k # l => tasks'[k] # tasks'[l]
      BY <3>0
    <3>3. tasks'[Len(tasks) + 1] = c
      BY <1>2
    <3> QED  BY <1>4, <3>1, <3>2, <3>3
  <2>3. /\ \A k \in 1..Len(puts') : Known(puts[k])'
        /\ \A w \in Workers : Known(job[w])'
    BY <1>1, <1>6 DEF InterestsInv, PacketsOK
  <2> QED  BY <1>1, <1>2, <2>1, <2>2, <2>3 DEF InterestsInv, PacketsOK
<1>8. UnreadHeld'
  <2> SUFFICES ASSUME Distinct', NEW k \in 1..Len(tasks')
               PROVE  /\ Unread(tasks[k])'
                      /\ state = "run" /\ ~expired => tasks'[k] \in pit'
    BY <1>1 DEF UnreadHeld
  <2>1. Distinct
    BY <1>2, <1>3 DEF Distinct
  <2>2. CASE k \in 1..Len(tasks)
    <3>1. tasks'[k] = tasks[k] /\ tasks[k] \in 1..Len(name) /\ name'[tasks[k]] = name[tasks[k]]
      BY <1>2, <2>2 DEF InterestsInv, PacketsOK
    <3> QED  BY <1>1, <2>1, <2>2, <3>1 DEF InterestsInv, UnreadHeld, Unread
  <2>3. CASE k = Len(tasks) + 1
    <3>1. \A m : Known(m) => m # n
      BY <1>2, <1>3, <1>5, NoNameNew DEF Known, Distinct
    <3> QED  BY <1>1, <1>2, <2>3, <3>1 DEF InterestsInv, PacketsOK, Unread
  <2> QED  BY <1>4, <2>2, <2>3
<1>9. InterestStillThere'
  BY <1>1 DEF InterestStillThere
<1> QED  BY <1>7, <1>8, <1>9 DEF InterestsInv

\* The face drops the Interests of the name it answers: none that is unread.
LEMMA PutInv == ASSUME InterestsInv, Defined, Put PROVE InterestsInv'
<1>1. /\ puts # <<>> /\ puts' = Tail(puts) /\ pit' = {i \in pit : name[i] # Head(puts)}
      /\ UNCHANGED <<state, name, tasks, job, expired, undefined>> /\ undefined = {}
  BY DEF Put, workerVars, errorVars, Defined
<1>2. /\ puts \in Seq(Names \cup {NoName}) /\ puts' \in Seq(Names \cup {NoName})
      /\ Head(puts) = puts[1] /\ 1 \in 1..Len(puts)
      /\ \A k \in 1..Len(puts') : k + 1 \in 1..Len(puts) /\ puts'[k] = puts[k + 1]
  BY <1>1 DEF InterestsInv, PacketsOK
<1>3. PacketsOK'
  BY <1>1, <1>2 DEF InterestsInv, PacketsOK, Known
<1>4. UnreadHeld'
  BY <1>1, <1>2 DEF InterestsInv, UnreadHeld, Unread, Distinct
<1> QED  BY <1>1, <1>3, <1>4 DEF InterestsInv, InterestStillThere

\* The face drops an Interest.
LEMMA ExpireInv == ASSUME InterestsInv, Defined, NEW i \in Interests, Expire(i) PROVE InterestsInv'
<1>1. /\ UNCHANGED <<state, name, tasks, puts, job, undefined>> /\ expired' = TRUE /\ undefined = {}
  BY DEF Expire, workerVars, Defined
<1> QED  BY <1>1 DEF InterestsInv, PacketsOK, UnreadHeld, Unread, Distinct, Known, InterestStillThere

\* A worker reads the Interest that was posted first.
LEMMA TakeInv == ASSUME InterestsInv, Defined, NEW w \in Workers, Take(w) PROVE InterestsInv'
<1> DEFINE i == Head(tasks)
<1>1. /\ tasks # <<>> /\ tasks' = Tail(tasks) /\ state \in {"run", "clear"}
      /\ UNCHANGED <<state, name, puts, pit, expired>>
      /\ IF i \in pit THEN job' = [job EXCEPT ![w] = name[i]] /\ UNCHANGED undefined
         ELSE undefined' = {"interest"} /\ UNCHANGED job
      /\ undefined = {}
  BY DEF Take, Free, faceVars, Defined
<1>2. /\ tasks \in Seq(Nat) /\ tasks' \in Seq(Nat) /\ i = tasks[1] /\ 1 \in 1..Len(tasks)
      /\ \A k \in 1..Len(tasks') : /\ k + 1 \in 1..Len(tasks) /\ tasks'[k] = tasks[k + 1]
                                     /\ k + 1 # 1
      /\ \A k, l \in 1..Len(tasks') : k # l => k + 1 # l + 1
  BY <1>1 DEF InterestsInv, PacketsOK
<1>3. i \in 1..Len(name) /\ name[i] \in Names
  BY <1>2 DEF InterestsInv, PacketsOK
<1> HIDE DEF i
<1>4. \A v \in Workers : job'[v] = job[v] \/ job'[v] = name[i]
  BY <1>1 DEF InterestsInv, PacketsOK
<1>5. PacketsOK'
  <2>1. job' \in [Workers -> Names \cup {NoName}]
    BY <1>1, <1>3 DEF InterestsInv, PacketsOK
  <2>2. /\ \A k \in 1..Len(tasks') : tasks'[k] \in 1..Len(name)
        /\ \A k, l \in 1..Len(tasks') : k # l => tasks'[k] # tasks'[l]
    <3>1. /\ \A k \in 1..Len(tasks) : tasks[k] \in 1..Len(name)
          /\ \A k, l \in 1..Len(tasks) : k # l => tasks[k] # tasks[l]
      BY DEF InterestsInv, PacketsOK
    <3> QED  BY <1>2, <3>1
  <2>3. \A v \in Workers : Known(job'[v])
    BY <1>3, <1>4 DEF InterestsInv, PacketsOK, Known
  <2> QED  BY <1>1, <1>2, <2>1, <2>2, <2>3 DEF InterestsInv, PacketsOK, Known
<1>6. UnreadHeld'
  <2> SUFFICES ASSUME Distinct, NEW k \in 1..Len(tasks')
               PROVE  /\ Unread(tasks[k])'
                      /\ state = "run" /\ ~expired => tasks'[k] \in pit
    BY <1>1 DEF UnreadHeld, Distinct
  <2>1. tasks'[k] \in 1..Len(name) /\ tasks'[k] # i
    BY <1>2 DEF InterestsInv, PacketsOK
  <2>2. name[tasks'[k]] # name[i]
    BY <1>3, <2>1 DEF Distinct
  <2>3. Unread(tasks'[k]) /\ (state = "run" /\ ~expired => tasks'[k] \in pit)
    BY <1>2 DEF InterestsInv, UnreadHeld
  <2> QED  BY <1>1, <1>4, <2>2, <2>3 DEF Unread
<1>7. InterestStillThere'
  BY <1>1, <1>2 DEF InterestsInv, UnreadHeld, Distinct, InterestStillThere
<1> QED  BY <1>5, <1>6, <1>7 DEF InterestsInv

\* The name that a worker has read becomes that of a posted Data.
LEMMA DeliverPackets ==
    ASSUME InterestsInv, Defined, NEW w \in Workers, puts' = Append(puts, job[w]),
           job' = [job EXCEPT ![w] = NoName],
           UNCHANGED <<state, name, tasks, pit, expired, undefined>>
    PROVE  InterestsInv'
<1>1. /\ puts \in Seq(Names \cup {NoName}) /\ job[w] \in Names \cup {NoName}
      /\ job' \in [Workers -> Names \cup {NoName}]
      /\ \A v \in Workers : job'[v] = job[v] \/ job'[v] = NoName
  BY DEF InterestsInv, PacketsOK
<1>2. /\ puts' \in Seq(Names \cup {NoName})
      /\ \A k \in 1..Len(puts') : puts'[k] = job[w] \/ (k \in 1..Len(puts) /\ puts'[k] = puts[k])
  BY <1>1
<1>3. PacketsOK'
  <2>1. \A m : Known(m)' <=> Known(m)
    BY DEF Known
  <2>2. /\ \A k \in 1..Len(puts') : Known(puts'[k])
        /\ \A v \in Workers : Known(job'[v])
    <3>1. (\A k \in 1..Len(puts) : Known(puts[k])) /\ \A v \in Workers : Known(job[v])
      BY DEF InterestsInv, PacketsOK
    <3>2. Known(NoName)
      BY DEF Known
    <3> QED  BY <1>1, <1>2, <3>1, <3>2
  <2> QED  BY <1>1, <1>2, <2>1, <2>2 DEF InterestsInv, PacketsOK
<1>4. UnreadHeld'
  <2> SUFFICES ASSUME Distinct, NEW k \in 1..Len(tasks)
               PROVE  /\ Unread(tasks[k])'
                      /\ state = "run" /\ ~expired => tasks[k] \in pit
    BY DEF UnreadHeld, Distinct
  <2>1. Unread(tasks[k]) /\ (state = "run" /\ ~expired => tasks[k] \in pit)
    BY DEF InterestsInv, UnreadHeld
  <2>2. name[tasks[k]] # NoName
    BY NoNameNew DEF InterestsInv, PacketsOK
  <2> QED  BY <1>1, <1>2, <2>1, <2>2 DEF Unread
<1> QED  BY <1>3, <1>4 DEF InterestsInv, InterestStillThere, Defined

-----------------------------------------------------------------------------
(* One lemma per thread.                                                    *)

\* The steps of a worker keep FilesInv.
LEMMA WorkerFiles ==
    ASSUME FilesInv, InterestsInv, Defined, NEW w \in Workers, Worker(w)
    PROVE  FilesInv'
<1> USE DEF Goto, errorVars, handlerVars
<1>1. CASE Take(w)
  <2>1. /\ pc[w] = "idle" /\ pc' = [pc EXCEPT ![w] = "lock"]
        /\ UNCHANGED <<fh, map, fd, files, failed>>
    BY <1>1 DEF Take, Free
  <2>2. \/ job' = [job EXCEPT ![w] = name[Head(tasks)]] /\ name[Head(tasks)] \in Names
        \/ job' = job /\ ~Defined'
    <3>1. tasks # <<>> => name[Head(tasks)] \in Names
      BY DEF InterestsInv, PacketsOK
    <3> QED  BY <1>1, <3>1 DEF Take, Defined
  <2> QED  BY <2>1, <2>2, PointersKept DEF FilesInv, PointersOK, Using, Defined
<1>2. CASE Lock(w)
  BY <1>2, PointersKept DEF Lock, FilesInv, PointersOK, Using, Defined
<1>3. CASE getFileHandler(w)
  BY <1>3, FindInv, MakeInv
<1>4. CASE Open(w)
  <2>1. CASE Deliver(w, Accessed(w))
    BY <1>4, <2>1, DeliverInv DEF Open
  <2>2. CASE fd[fh[w]] = 0 /\ Goto(w, "opening") /\ UNCHANGED <<puts, map, fh, job, fd, files>>
    <3>1. pc[w] = "open" /\ fh[w] \in Handlers /\ job[w].path \in Paths
      BY <1>4, NameHasPath DEF Open, FilesInv, PointersOK, Using
    <3>2. job[w].path \in failed
      BY <2>2, <3>1 DEF FilesInv, HandlersOK, Serves
    <3>3. UNCHANGED <<failed, undefined>>
      BY <1>4 DEF Open
    <3> QED  BY <2>2, <3>1, <3>2, <3>3, PointersKept DEF FilesInv, PointersOK, Using, Defined
  <2> QED  BY <1>4, <2>1, <2>2 DEF Open
<1>5. CASE Opening(w)
  BY <1>5, OpeningInv
<1>6. CASE Opened(w) \/ Fstat(w) \/ Read(w)
  BY <1>6, DeliverInv DEF Opened, Fstat, Read
<1>7. CASE TimerFires(w)
  BY <1>7, PointersKept DEF TimerFires, Free, FilesInv, PointersOK, Using, Defined
<1>8. CASE onGarbageCollector(w)
  <2> DEFINE m == [p \in Paths |-> IF map[p] \in stale THEN 0 ELSE map[p]]
  <2>1. /\ Drop(m, fh, stale) /\ UNCHANGED <<job, failed, undefined>>
        /\ pc[w] = "sweep" /\ pc' = [pc EXCEPT ![w] = "idle"]
    BY <1>8 DEF onGarbageCollector
  <2>2. m \in [Paths -> Handlers \cup {0}] /\ \A p \in Paths : m[p] \in {0, map[p]}
    BY DEF FilesInv, PointersOK
  <2> HIDE DEF m
  <2> QED  BY <2>1, <2>2, SweepInv DEF FilesInv, PointersOK, Defined
<1> QED  BY <1>1, <1>2, <1>3, <1>4, <1>5, <1>6, <1>7, <1>8 DEF Worker

\* The face thread opens and closes nothing.
LEMMA FaceThreadFiles == ASSUME FilesInv, Defined, FaceThread PROVE FilesInv'
<1> USE DEF faceVars, workerVars, errorVars, handlerVars
<1>1. CASE main \/ Construct \/ Put \/ Stop \/ (\E i \in Interests : Expire(i))
            \/ \E n \in Names : Arrive(n)
  BY <1>1, PointersKept
     DEF main, Construct, Put, Stop, Expire, Arrive, FilesInv, PointersOK, Defined
<1>2. CASE Shutdown
  BY <1>2, SweepInv DEF Shutdown, FilesInv, PointersOK, Defined
<1>3. CASE Join
  BY <1>3, SweepInv DEF Join, FilesInv, PointersOK, Defined
<1> QED  BY <1>1, <1>2, <1>3 DEF FaceThread

\* Every step keeps FilesInv.
LEMMA FilesStep == FilesInv /\ InterestsInv /\ [Next]_vars => FilesInv'
<1> SUFFICES ASSUME FilesInv, InterestsInv, [Next]_vars PROVE FilesInv'
  OBVIOUS
<1>1. CASE UNCHANGED vars
  BY <1>1 DEF vars, faceVars, workerVars, handlerVars, errorVars, FilesInv, PointersOK, HandlersOK,
              Serves, ReopensFailed, NoDescriptorLost, Defined
<1>2. CASE Defined /\ \E h \in Handlers : Age(h)
  BY <1>2, PointersKept DEF Age, workerVars, errorVars, FilesInv, PointersOK, Defined
<1> QED  BY <1>1, <1>2, WorkerFiles, FaceThreadFiles DEF Next

\* The steps of a worker keep InterestsInv.
LEMMA WorkerInterests ==
    ASSUME InterestsInv, Defined, NEW w \in Workers, Worker(w)
    PROVE  InterestsInv'
<1> USE DEF faceVars, errorVars
<1>1. CASE Take(w)
  BY <1>1, TakeInv
<1>2. CASE Lock(w) \/ getFileHandler(w) \/ Opening(w) \/ TimerFires(w) \/ onGarbageCollector(w)
  BY <1>2, PacketsKept DEF Lock, getFileHandler, Opening, TimerFires, onGarbageCollector, Defined
<1>3. CASE Open(w)
  <2>1. CASE Deliver(w, Accessed(w))
    BY <1>3, <2>1, DeliverPackets DEF Open, Deliver
  <2>2. CASE UNCHANGED <<puts, map, fh, job, fd, files>>
    BY <1>3, <2>2, PacketsKept DEF Open, Defined
  <2> QED  BY <1>3, <2>1, <2>2 DEF Open
<1>4. CASE Opened(w) \/ Fstat(w) \/ Read(w)
  BY <1>4, DeliverPackets DEF Opened, Fstat, Read, Deliver
<1> QED  BY <1>1, <1>2, <1>3, <1>4 DEF Worker

\* The face thread posts Interests that nobody has read.
LEMMA FaceThreadInterests == ASSUME InterestsInv, Defined, FaceThread PROVE InterestsInv'
<1> USE DEF faceVars, workerVars, errorVars
<1>1. CASE main \/ Construct \/ Stop \/ Join
  BY <1>1, PacketsKept DEF main, Construct, Stop, Join, Defined
<1>2. CASE Shutdown
  <2>1. /\ UNCHANGED <<name, tasks, puts, job, expired>> /\ state' = "clear"
        /\ "interest" \notin undefined'
    BY <1>2 DEF Shutdown
  <2>2. PacketsOK'
    BY <2>1 DEF InterestsInv, PacketsOK, Known
  <2>3. UnreadHeld'
    BY <2>1 DEF InterestsInv, UnreadHeld, Unread, Distinct
  <2> QED  BY <2>1, <2>2, <2>3 DEF InterestsInv, InterestStillThere
<1> QED  BY <1>1, <1>2, PutInv, ExpireInv, ArriveInv DEF FaceThread

\* Every step keeps InterestsInv.
LEMMA InterestsStep == InterestsInv /\ [Next]_vars => InterestsInv'
<1> SUFFICES ASSUME InterestsInv, [Next]_vars PROVE InterestsInv'
  OBVIOUS
<1>1. CASE UNCHANGED vars
  BY <1>1 DEF vars, faceVars, workerVars, errorVars, InterestsInv, PacketsOK, UnreadHeld, Unread,
              Distinct, Known, InterestStillThere
<1>2. CASE Defined /\ \E h \in Handlers : Age(h)
  BY <1>2, PacketsKept DEF Age, faceVars, workerVars, errorVars, Defined
<1> QED  BY <1>1, <1>2, WorkerInterests, FaceThreadInterests DEF Next

-----------------------------------------------------------------------------
\* However many Interests arrive: the function that is posted for one finds it
\* in the face, as long as the program runs, no lifetime is over and no name
\* comes twice (openInterest, fstatInterest, readInterest, onData).
THEOREM ProducerFindsInterest == Spec => []InterestStillThere
<1>1. InterestsInv => InterestStillThere
  BY DEF InterestsInv
<1> QED  BY <1>1, InterestsInit, InterestsStep, PTL DEF Spec

\* For any number of threads, files and descriptors, and however the workers
\* and the garbage collector interleave: the descriptor a worker reads from
\* has the file open that its Interest names (readInterest, ~FileHandler).
THEOREM ProducerReadsNamedFile == Spec => []ReadsNamedFile
BY InterestsInit, InterestsStep, FilesInit, FilesStep, FilesReadsNamed, PTL DEF Spec

\* Every open descriptor belongs to a FileHandler that is alive, except for
\* files that did not open at first (FileHandler::Open).
THEOREM ProducerLosesNoDescriptor == Spec => []NoDescriptorLost
<1>1. FilesInv => NoDescriptorLost
  BY DEF FilesInv
<1> QED  BY <1>1, InterestsInit, InterestsStep, FilesInit, FilesStep, PTL DEF Spec

=============================================================================
