---------------------------- MODULE StoresProofs ----------------------------
(***************************************************************************)
(* What holds of the durable stores for every number of processes, roots    *)
(* and batches.  A behaviour of Stores is about one of its parts, so what   *)
(* is proved of a part's own steps is proved of the stores.                 *)
(***************************************************************************)
EXTENDS Stores, FiniteSetTheorems, SequenceTheorems, WellFoundedInduction, TLAPS

-----------------------------------------------------------------------------
\* The handles (CasIdentity).

RootRecord == [staging : BOOLEAN, objects : BOOLEAN, temporary : BOOLEAN, marker : 0..2, made : BOOLEAN]
HandleRecord == [pc : {"unbound", "dirs", "temporary", "link", "clean", "read", "bound"},
                 root : Identity!Roots \cup {Identity!Absent}, made : BOOLEAN, bound : BOOLEAN]

\* What a handle h, in state k and with u last used, may rely on of the roots rs: past
\* its directories they are there, and once bound the marker is, which nobody takes away.
HandleHolds(h, k, rs, u) ==
    /\ k.pc # "unbound" => k.root \in Identity!Roots
    /\ k.pc \in {"temporary", "link", "clean"} => k.made
    /\ k.pc \in {"temporary", "link", "clean", "read", "bound"} => rs[k.root].staging /\ rs[k.root].objects
    /\ k.pc = "bound" => rs[k.root].marker = 1 /\ Identity!Expected(h, k.root)
    /\ k.bound => k.pc = "bound"
    /\ u # Identity!Absent => k.pc = "bound" /\ u = k.root

IdentityInv ==
    /\ Identity!TypeOK
    /\ \A h \in Handles : HandleHolds(h, handle[h], roots, used[h])

\* What a root has it keeps.
Kept(rs, new) ==
    \A r \in Identity!Roots : /\ rs[r].staging => new[r].staging
                              /\ rs[r].objects => new[r].objects
                              /\ rs[r].marker = 1 => new[r].marker = 1

LEMMA IdentityInit == Identity!Init => IdentityInv
  <1> SUFFICES ASSUME Identity!Init PROVE IdentityInv
    OBVIOUS
  <1>1. Identity!Unbound \in HandleRecord /\ Identity!Empty \in RootRecord
    BY DEF Identity!Unbound, Identity!Empty, HandleRecord, RootRecord
  <1>2. /\ path = Identity!Absent /\ registry = Identity!Absent
        /\ roots = [r \in Identity!Roots |-> Identity!Empty]
        /\ handle = [h \in Handles |-> Identity!Unbound]
        /\ used = [h \in Handles |-> Identity!Absent]
        /\ answer = [h \in Ports |-> "none"] /\ deaths = 0 /\ mounts = 0
    BY DEF Identity!Init
  <1>3. "none" \in Identity!Answers /\ 0 \in 0..MaxDeaths /\ 0 \in 0..MaxMounts
    BY IdentityAssumption DEF Identity!Answers
  <1>4. Identity!TypeOK
    BY <1>1, <1>2, <1>3 DEF Identity!TypeOK, HandleRecord, RootRecord
  <1>5. ASSUME NEW h \in Handles PROVE HandleHolds(h, handle[h], roots, used[h])
    BY <1>2 DEF HandleHolds, Identity!Unbound
  <1> QED
    BY <1>4, <1>5 DEF IdentityInv

\* A step that changes one handle and takes nothing from a root.
LEMMA OneHandle ==
    ASSUME IdentityInv, NEW h \in Handles, NEW k \in HandleRecord, NEW u \in Identity!Roots \cup {Identity!Absent},
           handle' = [handle EXCEPT ![h] = k], used' = [used EXCEPT ![h] = u],
           roots' \in [Identity!Roots -> RootRecord], Kept(roots, roots'),
           HandleHolds(h, k, roots', u),
           path' \in Identity!Roots \cup {Identity!Absent}, registry' \in Identity!Roots \cup {Identity!Absent},
           answer' \in [Ports -> Identity!Answers], deaths' \in 0..MaxDeaths, mounts' \in 0..MaxMounts
    PROVE  IdentityInv'
  <1>1. handle \in [Handles -> HandleRecord] /\ used \in [Handles -> Identity!Roots \cup {Identity!Absent}]
    BY DEF IdentityInv, Identity!TypeOK, HandleRecord
  <1>2. handle' \in [Handles -> HandleRecord] /\ used' \in [Handles -> Identity!Roots \cup {Identity!Absent}]
    BY <1>1
  <1>3. Identity!TypeOK'
    BY <1>2 DEF Identity!TypeOK, HandleRecord, RootRecord
  <1>4. ASSUME NEW g \in Handles PROVE HandleHolds(g, handle'[g], roots', used'[g])
    <2>1. CASE g = h
      BY <1>1, <2>1
    <2>2. CASE g # h
      <3>1. handle'[g] = handle[g] /\ used'[g] = used[g]
        BY <1>1, <2>2
      <3>2. HandleHolds(g, handle[g], roots, used[g])
        BY DEF IdentityInv
      <3>3. HandleHolds(g, handle[g], roots', used[g])
        BY <3>2 DEF HandleHolds, Kept
      <3> QED
        BY <3>1, <3>3
    <2> QED
      BY <2>1, <2>2
  <1> QED
    BY <1>3, <1>4 DEF IdentityInv, HandleHolds, Identity!Expected
\* The types, for the steps below.
LEMMA IdentityTypes ==
    ASSUME IdentityInv
    PROVE  /\ path \in Identity!Roots \cup {Identity!Absent}
           /\ registry \in Identity!Roots \cup {Identity!Absent}
           /\ roots \in [Identity!Roots -> RootRecord]
           /\ handle \in [Handles -> HandleRecord]
           /\ used \in [Handles -> Identity!Roots \cup {Identity!Absent}]
           /\ answer \in [Ports -> Identity!Answers]
           /\ deaths \in 0..MaxDeaths /\ mounts \in 0..MaxMounts
           /\ \A r \in Identity!Roots : r # Identity!Absent
           /\ \A h \in Handles : HandleHolds(h, handle[h], roots, used[h])
  BY IdentityAssumption DEF IdentityInv, Identity!TypeOK, RootRecord, HandleRecord, Identity!Roots, Identity!Absent

\* Of the record of one handle.
LEMMA HandleTypes ==
    ASSUME NEW k \in HandleRecord
    PROVE  /\ k.pc \in {"unbound", "dirs", "temporary", "link", "clean", "read", "bound"}
           /\ k.root \in Identity!Roots \cup {Identity!Absent} /\ k.made \in BOOLEAN /\ k.bound \in BOOLEAN
           /\ Identity!Unbound \in HandleRecord
           /\ Identity!Unbound.pc = "unbound" /\ Identity!Unbound.bound = FALSE
           /\ \A pc \in {"unbound", "dirs", "temporary", "link", "clean", "read", "bound"} :
                 /\ [k EXCEPT !.pc = pc] \in HandleRecord /\ [k EXCEPT !.pc = pc].pc = pc
                 /\ [k EXCEPT !.pc = pc].root = k.root /\ [k EXCEPT !.pc = pc].made = k.made
                 /\ [k EXCEPT !.pc = pc].bound = k.bound
  BY DEF HandleRecord, Identity!Unbound

\* A handle that gave up, or was never used, relies on nothing.
LEMMA NothingIsHeld ==
    ASSUME NEW h \in Handles, NEW rs
    PROVE  HandleHolds(h, Identity!Unbound, rs, Identity!Absent)
  BY DEF HandleHolds, Identity!Unbound

LEMMA KeptUnchanged == ASSUME NEW rs PROVE Kept(rs, rs)
  BY DEF Kept

\* A root that is changed to m.
LEMMA KeptRoot ==
    ASSUME NEW rs \in [Identity!Roots -> RootRecord], NEW r \in Identity!Roots, NEW m \in RootRecord,
           rs[r].staging => m.staging, rs[r].objects => m.objects, rs[r].marker = 1 => m.marker = 1
    PROVE  /\ [rs EXCEPT ![r] = m] \in [Identity!Roots -> RootRecord]
           /\ Kept(rs, [rs EXCEPT ![r] = m])
           /\ [rs EXCEPT ![r] = m][r] = m
  BY DEF Kept

\* The record of a root whose temporary name is gone, with n names of its marker.
LEMMA MarkerLeft ==
    ASSUME NEW x \in RootRecord, NEW n \in 0..2
    PROVE  /\ [x EXCEPT !.temporary = FALSE, !.marker = n] \in RootRecord
           /\ [x EXCEPT !.temporary = FALSE, !.marker = n].staging = x.staging
           /\ [x EXCEPT !.temporary = FALSE, !.marker = n].objects = x.objects
           /\ [x EXCEPT !.temporary = FALSE, !.marker = n].marker = n
  BY DEF RootRecord

LEMMA OpenRootKeeps ==
    ASSUME IdentityInv, NEW h \in Handles, Identity!OpenRoot(h)
    PROVE  IdentityInv'
  <1> USE IdentityTypes
  <1> DEFINE idle == Identity!Unbound
             own(r) == [idle EXCEPT !.pc = "dirs", !.root = r, !.made = TRUE]
             other(r) == [idle EXCEPT !.pc = "dirs", !.root = r]
  <1>1. /\ handle[h].pc = "unbound"
        /\ used' = used /\ registry' = registry /\ answer' = answer /\ deaths' = deaths /\ mounts' = mounts
    BY DEF Identity!OpenRoot, Identity!readPorts
  <1>2. used[h] = Identity!Absent /\ used' = [used EXCEPT ![h] = Identity!Absent]
    BY <1>1 DEF HandleHolds
  <1>3. ASSUME NEW r \in Identity!Roots
        PROVE  /\ own(r) \in HandleRecord /\ other(r) \in HandleRecord
               /\ \A rs : HandleHolds(h, own(r), rs, Identity!Absent) /\ HandleHolds(h, other(r), rs, Identity!Absent)
    BY DEF HandleRecord, HandleHolds, Identity!Unbound
  <1>4. ASSUME path = Identity!Absent, NEW r \in Identity!Roots, path' = r,
               roots' = [roots EXCEPT ![r].made = TRUE], handle' = [handle EXCEPT ![h] = own(r)]
        PROVE  IdentityInv'
    <2> DEFINE m == [roots[r] EXCEPT !.made = TRUE]
    <2>1. m \in RootRecord /\ m.staging = roots[r].staging /\ m.objects = roots[r].objects /\ m.marker = roots[r].marker
      BY DEF RootRecord
    <2>2. roots' = [roots EXCEPT ![r] = m]
      BY <1>4
    <2> HIDE DEF m, own
    <2>3. roots' \in [Identity!Roots -> RootRecord] /\ Kept(roots, roots')
      BY <2>1, <2>2, KeptRoot
    <2> QED
      BY <1>1, <1>2, <1>3, <1>4, <2>3, OneHandle
  <1>5. ASSUME path # Identity!Absent, handle' = [handle EXCEPT ![h] = other(path)],
               path' = path, roots' = roots
        PROVE  IdentityInv'
    <2> HIDE DEF other
    <2>1. path \in Identity!Roots
      BY <1>5
    <2> QED
      BY <1>1, <1>2, <1>3, <1>5, <2>1, OneHandle, KeptUnchanged
  <1>6. \/ /\ path = Identity!Absent
           /\ \E r \in Identity!Roots : /\ path' = r /\ roots' = [roots EXCEPT ![r].made = TRUE]
                                        /\ handle' = [handle EXCEPT ![h] = own(r)]
        \/ path # Identity!Absent /\ handle' = [handle EXCEPT ![h] = other(path)] /\ path' = path /\ roots' = roots
    BY DEF Identity!OpenRoot
  <1> HIDE DEF own, other
  <1> QED
    BY <1>4, <1>5, <1>6
\* The steps of initialize past OpenRoot: the root r gets the record m, the handle goes
\* on to pc.
LEMMA OneRoot ==
    ASSUME IdentityInv, NEW h \in Handles, NEW m \in RootRecord,
           NEW pc \in {"dirs", "temporary", "link", "clean", "read"},
           handle[h].pc \notin {"unbound", "bound"},
           roots[handle[h].root].staging => m.staging, roots[handle[h].root].objects => m.objects,
           roots[handle[h].root].marker = 1 => m.marker = 1,
           m.staging /\ m.objects, pc \in {"temporary", "link", "clean"} => handle[h].made,
           roots' = [roots EXCEPT ![handle[h].root] = m],
           handle' = [handle EXCEPT ![h].pc = pc],
           UNCHANGED <<path, used, registry, answer, deaths, mounts>>
    PROVE  IdentityInv'
  <1> USE IdentityTypes
  <1> DEFINE k == [handle[h] EXCEPT !.pc = pc]
  <1>1. handle[h] \in HandleRecord /\ handle[h].root \in Identity!Roots
    BY DEF HandleHolds
  <1>2. /\ k \in HandleRecord /\ k.pc = pc /\ k.root = handle[h].root /\ k.made = handle[h].made
        /\ k.bound = handle[h].bound
    BY <1>1 DEF HandleRecord
  <1>3. handle' = [handle EXCEPT ![h] = k]
    OBVIOUS
  <1> HIDE DEF k
  <1>4. /\ roots' \in [Identity!Roots -> RootRecord] /\ Kept(roots, roots')
        /\ roots'[handle[h].root] = m
    BY <1>1, KeptRoot
  <1>5. used[h] = Identity!Absent /\ used' = [used EXCEPT ![h] = Identity!Absent]
    BY DEF HandleHolds
  <1>6. ~handle[h].bound
    BY DEF HandleHolds
  <1>7. HandleHolds(h, k, roots', Identity!Absent)
    BY <1>1, <1>2, <1>4, <1>6 DEF HandleHolds
  <1>8. /\ path' \in Identity!Roots \cup {Identity!Absent} /\ registry' \in Identity!Roots \cup {Identity!Absent}
        /\ answer' \in [Ports -> Identity!Answers] /\ deaths' \in 0..MaxDeaths /\ mounts' \in 0..MaxMounts
        /\ Identity!Absent \in Identity!Roots \cup {Identity!Absent}
    OBVIOUS
  <1> QED
    BY ONLY <1>2, <1>3, <1>4, <1>5, <1>7, <1>8, IdentityInv, h \in Handles, OneHandle

LEMMA InitializeKeeps ==
    ASSUME IdentityInv, NEW h \in Handles,
           \/ Identity!OpenDirectories(h) \/ Identity!StageMarker(h) \/ Identity!LinkMarker(h) \/ Identity!CleanMarker(h)
    PROVE  IdentityInv'
  <1> USE IdentityTypes
  <1> DEFINE r == handle[h].root
  <1>1. UNCHANGED <<path, used, registry, answer, deaths, mounts>>
    BY DEF Identity!OpenDirectories, Identity!StageMarker, Identity!LinkMarker, Identity!CleanMarker, Identity!readPorts
  <1>2. handle[h].pc \in {"dirs", "temporary", "link", "clean"}
    BY DEF Identity!OpenDirectories, Identity!StageMarker, Identity!LinkMarker, Identity!CleanMarker
  <1>3. r \in Identity!Roots /\ roots[r] \in RootRecord
    BY <1>2 DEF HandleHolds
  <1>4. HandleHolds(h, handle[h], roots, used[h])
    OBVIOUS
  <1>5. CASE Identity!OpenDirectories(h) /\ handle[h].made /\ roots' = [roots EXCEPT ![r].staging = TRUE, ![r].objects = TRUE]
                                         /\ Identity!To(h, "temporary")
    <2> DEFINE m == [roots[r] EXCEPT !.staging = TRUE, !.objects = TRUE]
    <2>1. m \in RootRecord /\ m.staging /\ m.objects /\ m.marker = roots[r].marker
      BY <1>3 DEF RootRecord
    <2>2. roots' = [roots EXCEPT ![r] = m]
      BY <1>3, <1>5
    <2> HIDE DEF m
    <2> QED
      BY <1>1, <1>2, <1>5, <2>1, <2>2, OneRoot DEF Identity!To
  <1>6. CASE Identity!OpenDirectories(h) /\ Identity!DirectoriesFound(r) /\ Identity!To(h, "read") /\ UNCHANGED roots
    <2>1. roots' = [roots EXCEPT ![r] = roots[r]] /\ roots[r].staging /\ roots[r].objects
      BY <1>3, <1>6 DEF Identity!DirectoriesFound
    <2> QED
      BY <1>1, <1>2, <1>3, <1>6, <2>1, OneRoot DEF Identity!To
  <1>7. CASE Identity!StageMarker(h)
    <2> DEFINE m == [roots[r] EXCEPT !.temporary = TRUE]
    <2>1. handle[h].pc = "temporary" /\ roots[r].staging /\ roots[r].objects /\ handle[h].made
      BY <1>4, <1>7 DEF Identity!StageMarker, HandleHolds
    <2>2. m \in RootRecord /\ m.staging /\ m.objects /\ m.marker = roots[r].marker
      BY <1>3, <2>1 DEF RootRecord
    <2>3. roots' = [roots EXCEPT ![r] = m] /\ handle' = [handle EXCEPT ![h].pc = "link"]
      BY <1>3, <1>7 DEF Identity!StageMarker, Identity!To
    <2> HIDE DEF m
    <2> QED
      BY <1>1, <1>2, <2>1, <2>2, <2>3, OneRoot
  <1>8. CASE Identity!LinkMarker(h)
    <2> DEFINE m == [roots[r] EXCEPT !.marker = 2]
    <2>1. handle[h].pc = "link" /\ roots[r].staging /\ roots[r].objects /\ handle[h].made /\ roots[r].marker = 0
      BY <1>4, <1>8 DEF Identity!LinkMarker, HandleHolds
    <2>2. m \in RootRecord /\ m.staging /\ m.objects
      BY <1>3, <2>1 DEF RootRecord
    <2>3. roots' = [roots EXCEPT ![r] = m] /\ handle' = [handle EXCEPT ![h].pc = "clean"]
      BY <1>3, <1>8 DEF Identity!LinkMarker, Identity!To
    <2> HIDE DEF m
    <2>4. roots[r].marker # 1
      BY <2>1
    <2> QED
      BY <1>1, <1>2, <2>1, <2>2, <2>3, <2>4, OneRoot
  <1>9. CASE Identity!CleanMarker(h)
    <2> DEFINE m == [roots[r] EXCEPT !.temporary = FALSE, !.marker = 1]
    <2>1. handle[h].pc = "clean" /\ roots[r].staging /\ roots[r].objects
      BY <1>4, <1>9 DEF Identity!CleanMarker, HandleHolds
    <2>2. m \in RootRecord /\ m.staging /\ m.objects /\ m.marker = 1
      BY <1>3, <2>1, 1 \in 0..2, MarkerLeft, ZenonT(40)
    <2>3. roots' = [roots EXCEPT ![r] = m] /\ handle' = [handle EXCEPT ![h].pc = "read"]
      BY <1>3, <1>9 DEF Identity!CleanMarker, Identity!To
    <2> HIDE DEF m
    <2> QED
      BY <1>1, <1>2, <2>1, <2>2, <2>3, OneRoot
  <1> QED
    BY <1>5, <1>6, <1>7, <1>8, <1>9 DEF Identity!OpenDirectories

LEMMA EndInitializeKeeps ==
    ASSUME IdentityInv, NEW h \in Handles,
           \/ Identity!Bind(h) \/ Identity!Refuse(h) \/ Identity!Abandon(h) \/ Identity!Operate(h) \/ Identity!Restart(h)
    PROVE  IdentityInv'
  <1> USE IdentityTypes
  <1> DEFINE r == handle[h].root
  <1>1. CASE Identity!Bind(h)
    <2> DEFINE k == [handle[h] EXCEPT !.pc = "bound", !.bound = TRUE]
    <2>1. /\ handle[h].pc = "read" /\ Identity!MarkerHolds(h) /\ handle' = [handle EXCEPT ![h] = k]
          /\ UNCHANGED <<path, roots, used, registry, answer, deaths, mounts>>
      BY <1>1 DEF Identity!Bind, Identity!readPorts
    <2>2. k \in HandleRecord /\ k.pc = "bound" /\ k.root = r
      BY DEF HandleRecord
    <2>3. used[h] = Identity!Absent /\ used' = [used EXCEPT ![h] = Identity!Absent]
      BY <2>1 DEF HandleHolds
    <2>4. r \in Identity!Roots /\ roots[r].staging /\ roots[r].objects /\ roots[r].marker = 1 /\ Identity!Expected(h, r)
      BY <2>1 DEF HandleHolds, Identity!MarkerHolds
    <2> HIDE DEF k
    <2>5. HandleHolds(h, k, roots, Identity!Absent)
      BY <2>2, <2>4 DEF HandleHolds
    <2> QED
      BY <2>1, <2>2, <2>3, <2>5, OneHandle, KeptUnchanged
  <1>2. CASE Identity!Refuse(h)
    <2>1. /\ handle[h].pc # "bound" /\ handle' = [handle EXCEPT ![h] = Identity!Unbound]
          /\ UNCHANGED <<path, roots, used, registry, answer, deaths, mounts>>
      BY <1>2 DEF Identity!Refuse, Identity!readPorts
    <2>2. used[h] = Identity!Absent /\ used' = [used EXCEPT ![h] = Identity!Absent]
      BY <2>1 DEF HandleHolds
    <2> QED
      BY <2>1, <2>2, OneHandle, KeptUnchanged, NothingIsHeld, HandleTypes, ZenonT(40)
  <1>3. CASE Identity!Abandon(h)
    <2>1. /\ handle[h].pc \notin {"unbound", "bound"} /\ handle' = [handle EXCEPT ![h] = Identity!Unbound]
          /\ deaths < MaxDeaths /\ deaths' = deaths + 1
          /\ UNCHANGED <<path, used, registry, answer, mounts>>
      BY <1>3 DEF Identity!Abandon, Identity!readPorts
    <2>2. used[h] = Identity!Absent /\ used' = [used EXCEPT ![h] = Identity!Absent]
      BY <2>1 DEF HandleHolds
    <2>3. r \in Identity!Roots /\ deaths' \in 0..MaxDeaths
      BY <2>1, IdentityAssumption DEF HandleHolds
    <2>4. roots' \in [Identity!Roots -> RootRecord] /\ Kept(roots, roots')
      <3> DEFINE mark == IF roots[r].marker = 2 THEN 1 ELSE roots[r].marker
                 m == [roots[r] EXCEPT !.temporary = FALSE, !.marker = mark]
      <3>1. roots[r] \in RootRecord /\ roots[r].marker \in 0..2
        BY <2>3 DEF RootRecord
      <3>2. mark \in 0..2 /\ (roots[r].marker = 1 => mark = 1)
        BY <3>1
      <3>3. roots' = roots \/ roots' = [roots EXCEPT ![r] = m]
        BY <1>3, <2>3 DEF Identity!Abandon
      <3> HIDE DEF mark
      <3>4. m \in RootRecord /\ m.staging = roots[r].staging /\ m.objects = roots[r].objects /\ m.marker = mark
        BY <3>1, <3>2 DEF RootRecord
      <3> HIDE DEF m
      <3>5. CASE roots' = [roots EXCEPT ![r] = m]
        BY <2>3, <3>2, <3>4, <3>5, KeptRoot
      <3> QED
        BY <3>3, <3>5, KeptUnchanged
    <2> QED
      BY <2>1, <2>2, <2>3, <2>4, OneHandle, NothingIsHeld, HandleTypes
  <1>4. CASE Identity!Operate(h)
    <2>1. /\ handle[h].pc = "bound" /\ path # Identity!Absent /\ path = r
          /\ used' = [used EXCEPT ![h] = path]
          /\ UNCHANGED <<path, roots, handle, registry, answer, deaths, mounts>>
      BY <1>4 DEF Identity!Operate, Identity!StillBound, Identity!readPorts
    <2>2. handle' = [handle EXCEPT ![h] = handle[h]]
      BY <2>1
    <2>3. HandleHolds(h, handle[h], roots, path)
      BY <2>1 DEF HandleHolds
    <2> QED
      BY <2>1, <2>2, <2>3, OneHandle, KeptUnchanged
  <1>5. CASE Identity!Restart(h)
    <2>1. /\ handle' = [handle EXCEPT ![h] = Identity!Unbound] /\ used' = [used EXCEPT ![h] = Identity!Absent]
          /\ answer' = [p \in Ports |-> IF p = h THEN "none" ELSE answer[p]]
          /\ UNCHANGED <<path, roots, registry, deaths, mounts>>
      BY <1>5 DEF Identity!Restart
    <2>2. answer' \in [Ports -> Identity!Answers]
      BY <2>1 DEF Identity!Answers
    <2> QED
      <3>1. HandleHolds(h, Identity!Unbound, roots', Identity!Absent) /\ Kept(roots, roots')
        BY <2>1, NothingIsHeld, KeptUnchanged
      <3>2. Identity!Unbound \in HandleRecord
        BY DEF Identity!Unbound, HandleRecord
      <3> QED
        BY <2>1, <2>2, <3>1, <3>2, OneHandle
  <1> QED
    BY <1>1, <1>2, <1>3, <1>4, <1>5
\* What leaves the handles and the roots alone.
LEMMA HandlesAlone ==
    ASSUME IdentityInv, UNCHANGED <<handle, roots, used>>,
           path' \in Identity!Roots \cup {Identity!Absent}, registry' \in Identity!Roots \cup {Identity!Absent},
           answer' \in [Ports -> Identity!Answers], deaths' \in 0..MaxDeaths, mounts' \in 0..MaxMounts
    PROVE  IdentityInv'
  <1>1. Identity!TypeOK'
    BY DEF IdentityInv, Identity!TypeOK
  <1> QED
    BY <1>1 DEF IdentityInv, HandleHolds, Identity!Expected

LEMMA PortsKeep ==
    ASSUME IdentityInv,
           \/ \E h \in Handles : Identity!BindRegistry(h)
           \/ \E h \in Ports : Identity!StartProbe(h) \/ Identity!EndProbe(h) \/ Identity!ReadManifest(h)
           \/ \E r \in Identity!Roots \cup {Identity!Absent} : Identity!Remount(r)
           \/ Identity!Rest
    PROVE  IdentityInv'
  <1> USE IdentityTypes
  <1>1. ASSUME NEW h \in Handles, Identity!BindRegistry(h) PROVE IdentityInv'
    <2>1. registry' = handle[h].root /\ handle[h].pc = "bound" /\ UNCHANGED <<path, roots, handle, used, answer, deaths, mounts>>
      BY <1>1 DEF Identity!BindRegistry
    <2>2. registry' \in Identity!Roots
      BY <2>1 DEF HandleHolds
    <2> QED
      BY <2>1, <2>2, HandlesAlone
  <1>2. ASSUME NEW h \in Ports, NEW a, Identity!Answer(h, a), a \in Identity!Answers
        PROVE  answer' \in [Ports -> Identity!Answers]
    BY <1>2 DEF Identity!Answer
  <1>3. ASSUME NEW h \in Ports, Identity!StartProbe(h) \/ Identity!EndProbe(h) PROVE IdentityInv'
    <2>1. UNCHANGED <<path, roots, handle, used, registry, deaths, mounts>>
      BY <1>3 DEF Identity!StartProbe, Identity!EndProbe
    <2>2. \E a \in Identity!Answers : Identity!Answer(h, a)
      BY <1>3 DEF Identity!StartProbe, Identity!EndProbe, Identity!Verdict, Identity!Answers
    <2> QED
      BY <1>2, <2>1, <2>2, HandlesAlone
  <1>4. ASSUME NEW h \in Ports, Identity!ReadManifest(h) PROVE IdentityInv'
    <2>1. /\ handle[h].pc = "bound" /\ path # Identity!Absent /\ path = handle[h].root
          /\ used' = [used EXCEPT ![h] = path] /\ Identity!Answer(h, "manifest")
          /\ UNCHANGED <<path, roots, handle, registry, deaths, mounts>>
      BY <1>4 DEF Identity!ReadManifest, Identity!StillBound
    <2>2. h \in Handles /\ "manifest" \in Identity!Answers
      BY IdentityAssumption DEF Identity!Answers
    <2>3. answer' \in [Ports -> Identity!Answers]
      BY <1>2, <2>1, <2>2
    <2>4. handle' = [handle EXCEPT ![h] = handle[h]] /\ handle[h] \in HandleRecord
      BY <2>1, <2>2
    <2>5. HandleHolds(h, handle[h], roots, path)
      BY <2>1, <2>2 DEF HandleHolds
    <2> QED
      BY <2>1, <2>2, <2>3, <2>4, <2>5, OneHandle, KeptUnchanged
  <1>5. ASSUME NEW r \in Identity!Roots \cup {Identity!Absent}, Identity!Remount(r) PROVE IdentityInv'
    <2>1. /\ mounts < MaxMounts /\ mounts' = mounts + 1 /\ path' = r
          /\ UNCHANGED <<roots, handle, used, registry, answer, deaths>>
      BY <1>5 DEF Identity!Remount, Identity!readPorts
    <2>2. mounts' \in 0..MaxMounts
      BY <2>1, IdentityAssumption
    <2> QED
      BY <2>1, <2>2, HandlesAlone
  <1>6. ASSUME Identity!Rest PROVE IdentityInv'
    BY <1>6, HandlesAlone DEF Identity!Rest, Identity!vars, Identity!readPorts
  <1> QED
    BY <1>1, <1>3, <1>4, <1>5, <1>6

LEMMA IdentityNext == IdentityInv /\ Identity!Next => IdentityInv'
  BY OpenRootKeeps, InitializeKeeps, EndInitializeKeeps, PortsKeep DEF Identity!Next

\* What the invariant is for.
LEMMA IdentityPromise ==
    IdentityInv => Identity!BoundRootsAreComplete /\ Identity!OperationsStayInTheirStore
  <1> SUFFICES ASSUME IdentityInv PROVE Identity!BoundRootsAreComplete /\ Identity!OperationsStayInTheirStore
    OBVIOUS
  <1>1. Identity!BoundRootsAreComplete
    BY DEF Identity!BoundRootsAreComplete, IdentityInv, HandleHolds, Identity!Complete
  <1>2. Identity!OperationsStayInTheirStore
    BY SMTT(30) DEF Identity!OperationsStayInTheirStore, IdentityInv, HandleHolds, Identity!Expected
  <1> QED
    BY <1>1, <1>2

\* An answer is true of the store and the registry as they are when it is given.
LEMMA AnswersCurrent ==
    ASSUME IdentityInv, Identity!Next \/ UNCHANGED identityVars, NEW h \in Ports, answer'[h] # answer[h]
    PROVE  /\ answer'[h] \in {"ready", "manifest"} =>
                 registry # Identity!Absent /\ path = registry /\ Identity!Complete(path)
           /\ answer'[h] = "CAS_IDENTITY_MISMATCH" => path # registry
           /\ answer'[h] = "CAS_MISSING" => path = Identity!Absent
  <1>1. answer \in [Ports -> Identity!Answers]
    BY IdentityTypes
  <1>2. CASE \E p \in Handles : Identity!Restart(p)
    BY <1>1, <1>2 DEF Identity!Restart
  <1>3. CASE \E p \in Ports : Identity!StartProbe(p) \/ Identity!EndProbe(p) \/ Identity!ReadManifest(p)
    <2>1. PICK p \in Ports : Identity!StartProbe(p) \/ Identity!EndProbe(p) \/ Identity!ReadManifest(p)
      BY <1>3
    <2>2. \E a : Identity!Answer(p, a)
      BY <2>1 DEF Identity!StartProbe, Identity!EndProbe, Identity!ReadManifest
    <2>3. p = h
      BY <1>1, <2>2 DEF Identity!Answer
    <2>4. CASE Identity!StartProbe(h)
      BY <1>1, <2>4 DEF Identity!StartProbe, Identity!Answer
    <2>5. CASE Identity!EndProbe(h)
      BY <1>1, <2>5 DEF Identity!EndProbe, Identity!Answer, Identity!Verdict, Identity!StillBound
    <2>6. CASE Identity!ReadManifest(h)
      BY <1>1, <2>6 DEF Identity!ReadManifest, Identity!Answer, Identity!StillBound
    <2> QED
      BY <2>1, <2>3, <2>4, <2>5, <2>6
  <1> QED
    BY <1>2, <1>3 DEF Identity!Next, identityVars, Identity!readPorts, Identity!OpenRoot, Identity!OpenDirectories,
       Identity!StageMarker, Identity!LinkMarker, Identity!CleanMarker, Identity!Bind, Identity!Refuse, Identity!Abandon,
       Identity!Operate, Identity!BindRegistry, Identity!Remount, Identity!Rest, Identity!vars

\* A step of a part is a step of that part's module; any other step is not about it.
LEMMA IdentitySteps ==
    ASSUME [StoresNext]_storesVars
    PROVE  /\ part' = part
           /\ part = "identity" => Identity!Next \/ UNCHANGED identityVars
  BY DEF StoresNext, storesVars

\* A root whose creation died half way is never bound, and no operation of a handle
\* leaves the store it was bound to, whatever is mounted at the path in the meantime.
THEOREM HandlesStay == StoresSpec => []OperationsStayInTheirStore
  <1> DEFINE Inv == part = "identity" => IdentityInv
  <1>1. StoresInit => Inv
    BY IdentityInit DEF StoresInit, StoresStart
  <1>2. Inv /\ [StoresNext]_storesVars => Inv'
    <2> SUFFICES ASSUME Inv, [StoresNext]_storesVars, part' = "identity" PROVE IdentityInv'
      OBVIOUS
    <2>1. part = "identity" /\ IdentityInv
      BY IdentitySteps
    <2>2. CASE Identity!Next
      BY <2>1, <2>2, IdentityNext
    <2>3. CASE UNCHANGED identityVars
      BY <2>1, <2>3, IdentityTypes, HandlesAlone DEF identityVars
    <2> QED
      BY <2>1, <2>2, <2>3, IdentitySteps
  <1>3. Inv => OperationsStayInTheirStore
    BY IdentityPromise DEF OperationsStayInTheirStore
  <1> QED
    BY <1>1, <1>2, <1>3, PTL DEF StoresSpec

-----------------------------------------------------------------------------
\* The shadow campaigns (ShadowCampaign).

\* UNIQUE(forecast_id, revision) over the stored outcomes.
OneRevision(os) == \A o, p \in os : o.batch = p.batch /\ o.revision = p.revision => o = p
OneOpinion(bs) == \A b1, b2 \in bs : b1.asof = b2.asof => b1 = b2

\* The forecast a caller looked up is still there when it appends: nothing is deleted.
Anchored(k, bs) == k.pc = "append" => k.outcome.batch \in bs

ShadowInv ==
    /\ Shadow!TypeOK
    /\ OneOpinion(batches) /\ OneRevision(outcomes)
    /\ told \subseteq batches \cup outcomes
    /\ Shadow!LogEndsInState
    /\ \A c \in Callers : Anchored(call[c], batches)

LEMMA ShadowInit == Shadow!Init => ShadowInv
  <1> SUFFICES ASSUME Shadow!Init PROVE ShadowInv
    OBVIOUS
  <1>1. /\ state = "none" /\ log = <<>> /\ batches = {} /\ outcomes = {} /\ told = {}
        /\ call = [c \in Callers |-> Shadow!Idle]
    BY DEF Shadow!Init
  <1>2. Len(log) <= MaxLog /\ log \in Seq([from : Shadow!CampaignStates, to : Shadow!CampaignStates])
    BY <1>1, CampaignAssumption
  <1>3. Shadow!Idle \in Shadow!Calls /\ Shadow!Idle.pc = "idle"
    BY DEF Shadow!Calls, Shadow!Idle
  <1> QED
    BY <1>1, <1>2, <1>3 DEF ShadowInv, Shadow!TypeOK, OneOpinion, OneRevision, Shadow!LogEndsInState, Anchored

\* What a call holds.
LEMMA CallTypes ==
    ASSUME NEW k \in Shadow!Calls
    PROVE  /\ k.pc = "move" => k.from \in Shadow!CampaignStates /\ k.to \in Shadow!CampaignStates
           /\ k.pc \in {"check", "seal"} => k.batch \in Shadow!Batch
           /\ k.pc = "check" => [k EXCEPT !.pc = "seal"] \in Shadow!Calls /\ [k EXCEPT !.pc = "seal"].pc = "seal"
           /\ k.pc = "append" => k.outcome \in Shadow!Outcome
           /\ Shadow!Idle \in Shadow!Calls /\ Shadow!Idle.pc = "idle"
  BY DEF Shadow!Calls, Shadow!Idle

\* A step of one caller, which adds batches or outcomes and takes none away.
LEMMA OneCaller ==
    ASSUME ShadowInv, NEW c \in Callers, NEW k \in Shadow!Calls, call' = [call EXCEPT ![c] = k],
           batches \subseteq batches', batches' \subseteq Shadow!Batch,
           outcomes \subseteq outcomes', outcomes' \subseteq Shadow!Outcome,
           \A o \in outcomes' : o.batch \in batches',
           OneOpinion(batches'), OneRevision(outcomes'), Anchored(k, batches'),
           told' \subseteq batches' \cup outcomes',
           state' \in Shadow!CampaignStates \cup {"none"},
           log' \in Seq([from : Shadow!CampaignStates, to : Shadow!CampaignStates]), Len(log') <= MaxLog,
           Shadow!LogEndsInState'
    PROVE  ShadowInv'
  <1>1. call \in [Callers -> Shadow!Calls]
    BY DEF ShadowInv, Shadow!TypeOK
  <1>2. call' \in [Callers -> Shadow!Calls] /\ told' \subseteq Shadow!Batch \cup Shadow!Outcome
    BY <1>1
  <1>3. ASSUME NEW d \in Callers PROVE Anchored(call'[d], batches')
    <2>1. CASE d = c
      BY <1>1, <2>1
    <2>2. CASE d # c
      BY <1>1, <2>2 DEF ShadowInv, Anchored
    <2> QED
      BY <2>1, <2>2
  <1>4. Shadow!TypeOK'
    BY <1>2 DEF Shadow!TypeOK
  <1> QED
    BY <1>3, <1>4 DEF ShadowInv, OneOpinion, OneRevision, Anchored

\* A caller that only reads, is answered or dies.
LEMMA ReadingCaller ==
    ASSUME ShadowInv, NEW c \in Callers, NEW k \in Shadow!Calls, call' = [call EXCEPT ![c] = k],
           UNCHANGED <<state, log, batches, outcomes>>,
           Anchored(k, batches), told' \subseteq batches \cup outcomes
    PROVE  ShadowInv'
  <1>1. Shadow!LogEndsInState'
    BY DEF ShadowInv, Shadow!LogEndsInState
  <1> QED
    BY <1>1, OneCaller DEF ShadowInv, Shadow!TypeOK

LEMMA ShadowTypes ==
    ASSUME ShadowInv
    PROVE  /\ state \in Shadow!CampaignStates \cup {"none"}
           /\ log \in Seq([from : Shadow!CampaignStates, to : Shadow!CampaignStates]) /\ Len(log) <= MaxLog
           /\ batches \subseteq Shadow!Batch /\ outcomes \subseteq Shadow!Outcome
           /\ (\A o \in outcomes : o.batch \in batches)
           /\ call \in [Callers -> Shadow!Calls]
           /\ OneOpinion(batches) /\ OneRevision(outcomes) /\ told \subseteq batches \cup outcomes
           /\ Shadow!LogEndsInState
           /\ \A c \in Callers : Anchored(call[c], batches)
  BY DEF ShadowInv, Shadow!TypeOK

LEMMA CreateKeeps ==
    ASSUME ShadowInv, Shadow!Create
    PROVE  ShadowInv'
  <1>1. /\ state = "none" /\ state' = "draft"
        /\ UNCHANGED <<log, batches, outcomes, call, told>>
    BY DEF Shadow!Create
  <1>2. log = <<>>
    <2> SUFFICES ASSUME log # <<>> PROVE FALSE
      OBVIOUS
    <2>1. Len(log) \in 1..Len(log)
      BY ShadowTypes, EmptySeq
    <2>2. log[Len(log)] \in [from : Shadow!CampaignStates, to : Shadow!CampaignStates]
      BY <2>1, ShadowTypes, ElementOfSeq
    <2>3. state \in Shadow!CampaignStates
      BY <2>2, ShadowTypes DEF Shadow!LogEndsInState
    <2> QED
      BY <1>1, <2>3 DEF Shadow!CampaignStates, Shadow!Terminal
  <1>3. Shadow!TypeOK'
    BY <1>1 DEF ShadowInv, Shadow!TypeOK, Shadow!CampaignStates
  <1> QED
    BY <1>1, <1>2, <1>3 DEF ShadowInv, OneOpinion, OneRevision, Anchored, Shadow!LogEndsInState

LEMMA ReadStateKeeps ==
    ASSUME ShadowInv, NEW c \in Callers, NEW target \in Shadow!CampaignStates, Shadow!ReadState(c, target)
    PROVE  ShadowInv'
  <1> DEFINE k == [pc |-> "move", from |-> state, to |-> target]
  <1>1. /\ state # "none" /\ call' = [call EXCEPT ![c] = k]
        /\ UNCHANGED <<state, log, batches, outcomes, told>>
    BY DEF Shadow!ReadState
  <1>2. k \in Shadow!Calls /\ k.pc = "move"
    BY <1>1, ShadowTypes DEF Shadow!Calls
  <1> HIDE DEF k
  <1> QED
    BY <1>1, <1>2, ShadowTypes, ReadingCaller DEF Anchored

LEMMA WriteStateKeeps ==
    ASSUME ShadowInv, NEW c \in Callers, Shadow!WriteState(c)
    PROVE  ShadowInv'
  <1> DEFINE row == [from |-> call[c].from, to |-> call[c].to]
  <1>1. /\ call[c].pc = "move" /\ Len(log) < MaxLog
        /\ call' = [call EXCEPT ![c] = Shadow!Idle] /\ UNCHANGED <<batches, outcomes, told>>
        /\ \/ state' = call[c].to /\ log' = Append(log, row)
           \/ UNCHANGED <<state, log>>
    BY DEF Shadow!WriteState, Shadow!Refuse, Shadow!Return
  <1>2. call[c] \in Shadow!Calls
    BY ShadowTypes
  <1>3. Shadow!Idle \in Shadow!Calls /\ Shadow!Idle.pc = "idle"
    BY <1>2, CallTypes
  <1>4. CASE state' = call[c].to /\ log' = Append(log, row)
    <2>1. call[c].to \in Shadow!CampaignStates /\ row \in [from : Shadow!CampaignStates, to : Shadow!CampaignStates]
          /\ row.to = call[c].to
      BY <1>1, <1>2, CallTypes
    <2> HIDE DEF row
    <2>2. /\ log' \in Seq([from : Shadow!CampaignStates, to : Shadow!CampaignStates])
          /\ Len(log') = Len(log) + 1 /\ log'[Len(log')] = row
      BY <1>4, <2>1, ShadowTypes, AppendProperties
    <2>3. Len(log') <= MaxLog
      BY <1>1, <2>2, ShadowTypes, CampaignAssumption
    <2>4. Shadow!LogEndsInState'
      BY <1>4, <2>1, <2>2 DEF Shadow!LogEndsInState
    <2> QED
      BY <1>1, <1>3, <1>4, <2>1, <2>2, <2>3, <2>4, ShadowTypes, OneCaller DEF Anchored
  <1>5. CASE UNCHANGED <<state, log>>
    BY <1>1, <1>3, <1>5, ShadowTypes, ReadingCaller DEF Anchored
  <1> QED
    BY <1>1, <1>4, <1>5

LEMMA SealKeeps ==
    ASSUME ShadowInv, NEW c \in Callers,
           \/ \E b \in Shadow!Batch : Shadow!BeginSeal(c, b)
           \/ Shadow!CheckSeal(c) \/ Shadow!WriteSeal(c)
    PROVE  ShadowInv'
  <1> DEFINE b == call[c].batch
  <1>1. ASSUME NEW a \in Shadow!Batch, Shadow!BeginSeal(c, a) PROVE ShadowInv'
    <2> DEFINE k == [pc |-> "check", batch |-> a]
    <2>1. call' = [call EXCEPT ![c] = k] /\ UNCHANGED <<state, log, batches, outcomes, told>>
      BY <1>1 DEF Shadow!BeginSeal
    <2>2. k \in Shadow!Calls /\ k.pc = "check"
      BY DEF Shadow!Calls
    <2> HIDE DEF k
    <2> QED
      BY <2>1, <2>2, ShadowTypes, ReadingCaller DEF Anchored
  <1>2. call[c] \in Shadow!Calls
    BY ShadowTypes
  <1>3. Shadow!Idle \in Shadow!Calls /\ Shadow!Idle.pc = "idle"
    BY <1>2, CallTypes
  <1>4. CASE Shadow!CheckSeal(c)
    <2>1. call[c].pc = "check" /\ UNCHANGED <<state, log, batches, outcomes>>
      BY <1>4 DEF Shadow!CheckSeal
    <2>2. \/ call' = [call EXCEPT ![c] = Shadow!Idle]
          \/ call' = [call EXCEPT ![c] = [call[c] EXCEPT !.pc = "seal"]]
      BY <1>4 DEF Shadow!CheckSeal, Shadow!Acknowledge, Shadow!Refuse, Shadow!Return
    <2>3. told' \subseteq batches \cup outcomes
      BY <1>4, ShadowTypes DEF Shadow!CheckSeal, Shadow!Acknowledge, Shadow!Refuse
    <2>4. [call[c] EXCEPT !.pc = "seal"] \in Shadow!Calls /\ [call[c] EXCEPT !.pc = "seal"].pc = "seal"
      BY <1>2, <2>1, CallTypes
    <2>5. \E k \in Shadow!Calls : call' = [call EXCEPT ![c] = k] /\ k.pc # "append"
      BY <1>3, <2>2, <2>4
    <2> QED
      BY <2>1, <2>3, <2>5, ReadingCaller DEF Anchored
  <1>5. CASE Shadow!WriteSeal(c)
    <2>1. /\ call[c].pc = "seal" /\ UNCHANGED <<state, log, outcomes>>
          /\ call' = [call EXCEPT ![c] = Shadow!Idle]
      BY <1>5 DEF Shadow!WriteSeal, Shadow!Acknowledge, Shadow!Refuse, Shadow!Return
    <2>2. b \in Shadow!Batch
      BY <1>2, <2>1, CallTypes
    <2> HIDE DEF b
    <2>3. CASE Shadow!Sealable(b) /\ batches' = batches \cup {b} /\ told' \in {told, told \cup {b}}
      <3>1. OneOpinion(batches')
        BY <2>3, ShadowTypes DEF OneOpinion, Shadow!Sealable
      <3>2. batches' \subseteq Shadow!Batch /\ batches \subseteq batches' /\ told' \subseteq batches' \cup outcomes'
        BY <2>1, <2>2, <2>3, ShadowTypes
      <3>3. Shadow!LogEndsInState'
        BY <2>1, ShadowTypes DEF Shadow!LogEndsInState
      <3>4. (\A o \in outcomes' : o.batch \in batches') /\ OneRevision(outcomes') /\ outcomes' \subseteq Shadow!Outcome
        BY <2>1, <3>2, ShadowTypes
      <3> QED
        BY <1>3, <2>1, <3>1, <3>2, <3>3, <3>4, ShadowTypes, OneCaller DEF Anchored
    <2>4. CASE UNCHANGED <<batches, told>>
      BY <1>3, <2>1, <2>4, ShadowTypes, ReadingCaller DEF Anchored
    <2> QED
      BY <1>5, <2>3, <2>4 DEF Shadow!WriteSeal, Shadow!Acknowledge, Shadow!Refuse, b
  <1> QED
    BY <1>1, <1>4, <1>5

LEMMA OutcomeKeeps ==
    ASSUME ShadowInv, NEW c \in Callers,
           \/ \E o \in Shadow!Outcome : Shadow!CheckOutcome(c, o)
           \/ Shadow!WriteOutcome(c) \/ Shadow!Die(c)
    PROVE  ShadowInv'
  <1>1. call[c] \in Shadow!Calls
    BY ShadowTypes
  <1>2. Shadow!Idle \in Shadow!Calls /\ Shadow!Idle.pc = "idle"
    BY <1>1, CallTypes
  <1>3. ASSUME NEW o \in Shadow!Outcome, Shadow!CheckOutcome(c, o) PROVE ShadowInv'
    <2> DEFINE k == [pc |-> "append", outcome |-> o]
    <2>1. o.batch \in batches /\ UNCHANGED <<state, log, batches, outcomes>>
      BY <1>3 DEF Shadow!CheckOutcome
    <2>2. k \in Shadow!Calls /\ k.outcome = o
      BY DEF Shadow!Calls
    <2>3. call' = [call EXCEPT ![c] = Shadow!Idle] \/ call' = [call EXCEPT ![c] = k]
      BY <1>3 DEF Shadow!CheckOutcome, Shadow!Acknowledge, Shadow!Refuse, Shadow!Return
    <2>4. told' \subseteq batches \cup outcomes
      BY <1>3, ShadowTypes DEF Shadow!CheckOutcome, Shadow!Acknowledge, Shadow!Refuse
    <2> HIDE DEF k
    <2>5. \E x \in Shadow!Calls : call' = [call EXCEPT ![c] = x] /\ Anchored(x, batches)
      BY <1>2, <2>1, <2>2, <2>3 DEF Anchored
    <2> QED
      BY <2>1, <2>4, <2>5, ReadingCaller
  <1>4. CASE Shadow!WriteOutcome(c)
    <2> DEFINE o == call[c].outcome
    <2>1. /\ call[c].pc = "append" /\ UNCHANGED <<state, log, batches>>
          /\ call' = [call EXCEPT ![c] = Shadow!Idle]
      BY <1>4 DEF Shadow!WriteOutcome, Shadow!Acknowledge, Shadow!Refuse, Shadow!Return
    <2>2. o \in Shadow!Outcome /\ o.batch \in batches
      BY <1>1, <2>1, CallTypes, ShadowTypes DEF Anchored
    <2> HIDE DEF o
    <2>3. CASE Shadow!SameRevision(o) = {} /\ outcomes' = outcomes \cup {o} /\ told' \in {told, told \cup {o}}
      <3>1. \A p \in outcomes : ~(p.batch = o.batch /\ p.revision = o.revision)
        BY <2>3 DEF Shadow!SameRevision, Shadow!History
      <3>2. OneRevision(outcomes')
        BY <2>3, <3>1, ShadowTypes DEF OneRevision
      <3>3. /\ outcomes' \subseteq Shadow!Outcome /\ outcomes \subseteq outcomes' /\ told' \subseteq batches' \cup outcomes'
            /\ \A p \in outcomes' : p.batch \in batches'
        BY <2>1, <2>2, <2>3, ShadowTypes
      <3>4. Shadow!LogEndsInState'
        BY <2>1, ShadowTypes DEF Shadow!LogEndsInState
      <3>5. batches \subseteq batches' /\ batches' \subseteq Shadow!Batch /\ OneOpinion(batches')
        BY <2>1, ShadowTypes
      <3> QED
        BY <1>2, <2>1, <3>2, <3>3, <3>4, <3>5, ShadowTypes, OneCaller DEF Anchored
    <2>4. CASE UNCHANGED <<outcomes, told>>
      BY <1>2, <2>1, <2>4, ShadowTypes, ReadingCaller DEF Anchored
    <2> QED
      BY <1>4, <2>3, <2>4 DEF Shadow!WriteOutcome, Shadow!Acknowledge, Shadow!Refuse, o
  <1>5. CASE Shadow!Die(c)
    <2>1. call' = [call EXCEPT ![c] = Shadow!Idle] /\ UNCHANGED <<state, log, batches, outcomes, told>>
      BY <1>5 DEF Shadow!Die, Shadow!Refuse, Shadow!Return
    <2> QED
      BY <1>2, <2>1, ShadowTypes, ReadingCaller DEF Anchored
  <1> QED
    BY <1>3, <1>4, <1>5

LEMMA ShadowNext == ShadowInv /\ [Shadow!Next]_shadowVars => ShadowInv'
  <1>1. ASSUME ShadowInv, UNCHANGED shadowVars PROVE ShadowInv'
    BY <1>1 DEF ShadowInv, shadowVars, Shadow!TypeOK, OneOpinion, OneRevision, Anchored, Shadow!LogEndsInState
  <1> QED
    BY <1>1, CreateKeeps, ReadStateKeeps, WriteStateKeeps, SealKeeps, OutcomeKeeps DEF Shadow!Next

\* The two ends of a set of naturals.
LEMMA Least ==
    ASSUME NEW T \in SUBSET Nat, T # {}
    PROVE  \E x \in T : \A y \in T : x <= y
  <1> DEFINE R == OpToRel(<, Nat)
  <1>1. \E x \in T : \A y \in T : ~(<<y, x>> \in R)
    <2>1. IsWellFoundedOn(R, Nat)
      BY NatLessThanWellFounded
    <2> HIDE DEF R
    <2> QED
      BY <2>1, WFMin
  <1>2. \A x, y \in Nat : y < x => <<y, x>> \in R
    BY DEF OpToRel
  <1> HIDE DEF R
  <1>3. PICK x \in T : \A y \in T : ~(<<y, x>> \in R)
    BY <1>1
  <1>4. ASSUME NEW y \in T PROVE x <= y
    <2>1. x \in Nat /\ y \in Nat /\ ~(y < x)
      BY <1>2, <1>3
    <2> QED
      BY <2>1
  <1> QED
    BY <1>3, <1>4

LEMMA Greatest ==
    ASSUME NEW n \in Nat, NEW T \in SUBSET (0..n), T # {}
    PROVE  \E x \in T : \A y \in T : x >= y
  <1> DEFINE U == {n - x : x \in T}
  <1>1. U \in SUBSET Nat /\ U # {}
    <2>1. \A x \in T : n - x \in Nat
      OBVIOUS
    <2>2. U \subseteq Nat
      BY <2>1
    <2>3. PICK y \in T : TRUE
      OBVIOUS
    <2>4. n - y \in U
      BY <2>3
    <2> QED
      BY <2>2, <2>4
  <1>2. PICK u \in U : \A v \in U : u <= v
    BY <1>1, Least
  <1>3. PICK x \in T : u = n - x
    OBVIOUS
  <1>4. ASSUME NEW y \in T PROVE x >= y
    <2>1. u <= n - y
      BY <1>2
    <2> QED
      BY <1>3, <2>1
  <1> QED
    BY <1>4

\* A set of which any two members are the same has at most one.
LEMMA AtMostOne ==
    ASSUME NEW S, \A x, y \in S : x = y
    PROVE  /\ Shadow!Cardinality(S) = IF S = {} THEN 0 ELSE 1
  <1>1. Cardinality(S) = Shadow!Cardinality(S)
    BY DEF Shadow!Cardinality, Cardinality, Shadow!IsFiniteSet, IsFiniteSet
  <1>2. CASE S = {}
    BY <1>1, <1>2, FS_EmptySet
  <1>3. CASE S # {}
    <2>1. PICK x : S = {x}
      BY <1>3
    <2> QED
      BY <1>1, <1>3, <2>1, FS_Singleton
  <1> QED
    BY <1>2, <1>3

LEMMA ShadowPromise ==
    ASSUME ShadowInv
    PROVE  /\ Shadow!OneOpinionPerInstant /\ Shadow!AcknowledgedIsStored
           /\ Shadow!LogEndsInState /\ Shadow!BasesAreDetermined
  <1>1. ASSUME NEW b \in batches
        PROVE  /\ Shadow!Cardinality(Shadow!FirstEligible(b)) = Shadow!Cardinality(Shadow!LatestKnown(b))
               /\ Shadow!Cardinality(Shadow!FirstEligible(b)) <= 1
    <2> DEFINE O == Shadow!Observed(b)
               T == {o.revision : o \in O}
    <2>1. ASSUME NEW o \in O PROVE o \in outcomes /\ o.batch = b /\ o.revision \in 0..MaxRevision
      BY ShadowTypes DEF Shadow!Observed, Shadow!History, Shadow!Outcome
    <2>2. \A o, p \in O : o.revision = p.revision => o = p
      BY <2>1, ShadowTypes DEF OneRevision
    <2>3. T \in SUBSET (0..MaxRevision) /\ T \in SUBSET Nat
      BY <2>1
    <2>4. /\ Shadow!FirstEligible(b) = {o \in O : \A p \in O : o.revision <= p.revision}
          /\ Shadow!LatestKnown(b) = {o \in O : \A p \in O : o.revision >= p.revision}
      BY DEF Shadow!FirstEligible, Shadow!LatestKnown
    <2> HIDE DEF O
    <2>5. \A x, y \in Shadow!FirstEligible(b) : x = y
      <3> TAKE x, y \in Shadow!FirstEligible(b)
      <3>1. x \in O /\ y \in O /\ x.revision <= y.revision /\ y.revision <= x.revision
        BY <2>4
      <3>2. x.revision = y.revision
        BY <2>1, <3>1
      <3> QED
        BY <2>2, <3>1, <3>2
    <2>6. \A x, y \in Shadow!LatestKnown(b) : x = y
      <3> TAKE x, y \in Shadow!LatestKnown(b)
      <3>1. x \in O /\ y \in O /\ x.revision <= y.revision /\ y.revision <= x.revision
        BY <2>1, <2>4
      <3>2. x.revision = y.revision
        BY <2>1, <3>1
      <3> QED
        BY <2>2, <3>1, <3>2
    <2>7. ASSUME O # {} PROVE Shadow!FirstEligible(b) # {} /\ Shadow!LatestKnown(b) # {}
      <3>1. T # {}
        BY <2>7
      <3>2. (\E x \in T : \A y \in T : x <= y) /\ (\E x \in T : \A y \in T : x >= y)
        BY <2>3, <3>1, Least, Greatest, CampaignAssumption
      <3> QED
        BY <2>4, <3>2
    <2>8. Shadow!FirstEligible(b) = {} <=> Shadow!LatestKnown(b) = {}
      BY <2>4, <2>7
    <2> QED
      BY <2>5, <2>6, <2>8, AtMostOne
  <1> QED
    BY <1>1, ShadowTypes DEF Shadow!BasesAreDetermined, Shadow!OneOpinionPerInstant, OneOpinion, Shadow!AcknowledgedIsStored

\* One sealed opinion per decision instant and one outcome per revision, whatever callers
\* race for: what was acknowledged is stored, the log ends in the state, and both of a
\* report's bases name one revision, or neither does.
THEOREM ShadowEvidence == StoresSpec => []ShadowEvidenceHolds
  <1> DEFINE Inv == part = "shadow" => ShadowInv
  <1>1. StoresInit => Inv
    BY ShadowInit DEF StoresInit, StoresStart
  <1>2. Inv /\ [StoresNext]_storesVars => Inv'
    <2>1. [StoresNext]_storesVars => part' = part /\ (part = "shadow" => [Shadow!Next]_shadowVars)
      BY DEF StoresNext, storesVars
    <2> QED
      BY <2>1, ShadowNext
  <1>3. Inv => ShadowEvidenceHolds
    BY ShadowPromise DEF ShadowEvidenceHolds
  <1> QED
    BY <1>1, <1>2, <1>3, PTL DEF StoresSpec

-----------------------------------------------------------------------------
\* The experiment records (ExperimentRecords).

\* One run in phase p with status s: e is its pending exception, x what its caller got,
\* f its file, in and lg whether it has a row and a log.
RunHolds(b, p, s, e, x, f, in, lg) ==
    /\ p \in {"idle", "body"} => x = "running"
    /\ p \in {"ended", "writing", "closing"} => e = IF s = "failed" THEN "body" ELSE "none"
    /\ p \in {"ended", "writing", "closing", "exit", "dead"} => x = "running"
    /\ p = "writing" => b \in {"json", "mlflow"}
    /\ p = "closing" => b = "sqlite" /\ in
    /\ p = "exit" => /\ b = "mlflow" /\ e \in {"none", "body", "persistence"}
                     /\ s = "failed" => e = "body"
                     /\ e = "none" => lg
    /\ p = "over" /\ s = "failed" => x = "body"
    /\ x = "none" /\ ~(Suppresses /\ e = "persistence") =>
          CASE b = "json" -> f = "whole" [] b = "sqlite" -> in [] b = "mlflow" -> lg

RecordsTyped ==
    /\ backend \in {"json", "sqlite", "mlflow"}
    /\ phase \in [Runs -> {"idle", "body", "ended", "writing", "closing", "exit", "over", "dead"}]
    /\ status \in [Runs -> {"running", "completed", "failed"}]
    /\ pending \in [Runs -> Records!Failures] /\ raised \in [Runs -> Records!Failures \cup {"running"}]
    /\ notes \in [Runs -> SUBSET {"persistence", "session"}]
    /\ file \in [Runs -> {"absent", "empty", "torn", "whole"}]

RecordsInv ==
    /\ RecordsTyped
    /\ \A r \in Runs : RunHolds(backend, phase[r], status[r], pending[r], raised[r], file[r], r \in rows, r \in logged)

LEMMA RecordsInit == Records!Init => RecordsInv
  BY DEF Records!Init, RecordsInv, RecordsTyped, RunHolds, Records!Failures

\* A step of run r leaves the others alone.
LEMMA OneRun ==
    ASSUME RecordsInv, NEW r \in Runs, RecordsTyped', backend' = backend,
           \A q \in Runs \ {r} : /\ phase'[q] = phase[q] /\ status'[q] = status[q] /\ pending'[q] = pending[q]
                                 /\ raised'[q] = raised[q] /\ file'[q] = file[q]
                                 /\ (q \in rows') = (q \in rows) /\ (q \in logged') = (q \in logged),
           RunHolds(backend, phase'[r], status'[r], pending'[r], raised'[r], file'[r], r \in rows', r \in logged')
    PROVE  RecordsInv'
  <1>1. ASSUME NEW q \in Runs
        PROVE  RunHolds(backend, phase'[q], status'[q], pending'[q], raised'[q], file'[q], q \in rows', q \in logged')
    <2>1. CASE q = r
      BY <2>1
    <2>2. CASE q # r
      BY <2>2, ZenonT(40) DEF RecordsInv, RunHolds
    <2> QED
      BY <2>1, <2>2
  <1> QED
    BY <1>1, ZenonT(40) DEF RecordsInv, RunHolds

LEMMA BodyKeeps ==
    ASSUME RecordsInv, NEW r \in Runs,
           \/ Records!Start(r) \/ Records!EndBody(r, "completed") \/ Records!EndBody(r, "failed") \/ Records!Kill(r)
    PROVE  RecordsInv'
  <1>1. RecordsTyped'
    BY DEF RecordsInv, RecordsTyped, Records!Start, Records!EndBody, Records!Kill, Records!Go, Records!At, Records!Failures
  <1>2. RunHolds(backend, phase'[r], status'[r], pending'[r], raised'[r], file'[r], r \in rows', r \in logged')
    BY ZenonT(40) DEF RecordsInv, RecordsTyped, RunHolds, Records!Start, Records!EndBody, Records!Kill, Records!Go, Records!At
  <1> QED
    BY <1>1, <1>2, OneRun DEF RecordsInv, RecordsTyped, Records!Start, Records!EndBody, Records!Kill, Records!Go, Records!At

LEMMA PersistingKeeps ==
    ASSUME RecordsInv, NEW r \in Runs,
           \/ Records!CreateFile(r) \/ Records!WriteSome(r) \/ Records!WriteRest(r)
           \/ Records!Insert(r) \/ Records!CloseConnection(r) \/ Records!LogSome(r) \/ Records!LogRest(r)
    PROVE  RecordsInv'
  <1> USE DEF Records!AfterPersisting, Records!Surface, Records!Persisted, Records!Go, Records!At
  <1>1. RecordsTyped'
    BY DEF RecordsInv, RecordsTyped, Records!CreateFile, Records!WriteSome, Records!WriteRest, Records!Insert,
           Records!CloseConnection, Records!LogSome, Records!LogRest
  <1>2. RunHolds(backend, phase'[r], status'[r], pending'[r], raised'[r], file'[r], r \in rows', r \in logged')
    <2>1. CASE Records!CreateFile(r) \/ Records!WriteSome(r) \/ Records!Insert(r) \/ Records!LogSome(r)
      BY <2>1 DEF RecordsInv, RecordsTyped, RunHolds, Records!CreateFile, Records!WriteSome, Records!Insert, Records!LogSome
    <2>2. CASE Records!WriteRest(r)
      BY <2>2 DEF RecordsInv, RecordsTyped, RunHolds, Records!WriteRest
    <2>3. CASE Records!CloseConnection(r)
      BY <2>3 DEF RecordsInv, RecordsTyped, RunHolds, Records!CloseConnection
    <2>4. CASE Records!LogRest(r)
      BY <2>4 DEF RecordsInv, RecordsTyped, RunHolds, Records!LogRest
    <2> QED
      BY <2>1, <2>2, <2>3, <2>4
  <1> QED
    BY <1>1, <1>2, OneRun
       DEF RecordsInv, RecordsTyped, Records!CreateFile, Records!WriteSome, Records!WriteRest, Records!Insert,
           Records!CloseConnection, Records!LogSome, Records!LogRest

LEMMA FailingKeeps ==
    ASSUME RecordsInv, NEW r \in Runs,
           \/ Records!FailPersisting(r) \/ Records!FailToClose(r)
           \/ \E how \in {"ends", "fails", "swallows"} : Records!ExitSession(r, how)
    PROVE  RecordsInv'
  <1> USE DEF Records!AfterPersisting, Records!Surface, Records!Fail, Records!Go, Records!At
  <1>1. CASE Records!FailPersisting(r) \/ Records!FailToClose(r)
    <2>1. RecordsTyped'
      BY <1>1 DEF RecordsInv, RecordsTyped, Records!Failures, Records!FailPersisting, Records!FailToClose
    <2>2. RunHolds(backend, phase'[r], status'[r], pending'[r], raised'[r], file'[r], r \in rows', r \in logged')
      <3>1. CASE Records!FailPersisting(r) /\ backend = "mlflow"
        BY <3>1 DEF RecordsInv, RecordsTyped, RunHolds, Records!FailPersisting
      <3>2. CASE Records!FailPersisting(r) /\ backend # "mlflow"
        BY <3>2 DEF RecordsInv, RecordsTyped, RunHolds, Records!FailPersisting
      <3>3. CASE Records!FailToClose(r)
        BY <3>3 DEF RecordsInv, RecordsTyped, RunHolds, Records!FailToClose
      <3> QED
        BY <1>1, <3>1, <3>2, <3>3
    <2> QED
      BY <1>1, <2>1, <2>2, OneRun DEF RecordsInv, RecordsTyped, Records!FailPersisting, Records!FailToClose
  <1>2. ASSUME NEW how \in {"ends", "fails", "swallows"}, Records!ExitSession(r, how) PROVE RecordsInv'
    <2>1. RecordsTyped'
      BY <1>2 DEF RecordsInv, RecordsTyped, Records!Failures, Records!ExitSession, Records!Restored
    <2>2. RunHolds(backend, phase'[r], status'[r], pending'[r], raised'[r], file'[r], r \in rows', r \in logged')
      BY <1>2 DEF RecordsInv, RecordsTyped, RunHolds, Records!ExitSession, Records!Restored
    <2> QED
      BY <1>2, <2>1, <2>2, OneRun DEF RecordsInv, RecordsTyped, Records!ExitSession
  <1> QED
    BY <1>1, <1>2

\* A listing changes nothing of a run.
LEMMA RecordsNext == RecordsInv /\ [Records!Next]_recordsVars => RecordsInv'
  <1>1. ASSUME RecordsInv, UNCHANGED <<backend, phase, status, pending, notes, raised, file, rows, logged>>
        PROVE  RecordsInv'
    BY <1>1 DEF RecordsInv, RecordsTyped, RunHolds
  <1>2. ASSUME \/ \E r \in Runs : Records!OpenRecord(r)
               \/ Records!Scan \/ Records!ReadRecord \/ Records!ReturnRuns \/ Records!EndListing
               \/ UNCHANGED recordsVars
        PROVE  UNCHANGED <<backend, phase, status, pending, notes, raised, file, rows, logged>>
    BY <1>2 DEF Records!OpenRecord, Records!Scan, Records!ReadRecord, Records!ReturnRuns, Records!EndListing, recordsVars
  <1> QED
    BY <1>1, <1>2, BodyKeeps, PersistingKeeps, FailingKeeps DEF Records!Next

LEMMA RecordsPromise == RecordsInv => Records!PrimaryIsRaised /\ Records!SuccessIsRecorded
  BY DEF RecordsInv, RecordsTyped, RunHolds, Records!PrimaryIsRaised, Records!SuccessIsRecorded, Records!At, Records!Stored

\* The listing of the JSON files.
ListingRecord == [at : {"away", "scanned", "reading", "read", "returned", "refused"}, unchanged : BOOLEAN,
                  todo : SUBSET Runs, open : Runs \cup {"none"}, still : BOOLEAN, got : SUBSET Runs]

\* A listing l over the files fs: what it opens and has yet to open is there, what it got is
\* whole, and while the directory is the same all of it is one of these.
ListingHolds(l, fs) ==
    /\ l \in ListingRecord
    /\ \A r \in l.todo : fs[r] # "absent"
    /\ \A r \in l.got : fs[r] = "whole"
    /\ l.at = "reading" => l.open \in Runs /\ fs[l.open] \in {"torn", "whole"}
    /\ l.unchanged /\ l.at \in {"scanned", "reading"} =>
          \A r \in Runs : fs[r] # "absent" => r \in l.todo \cup l.got \/ (l.at = "reading" /\ r = l.open)

ListingInv ==
    /\ RecordsInv /\ ListingHolds(listing, file)
    /\ backend = "json" => \A r \in Runs : phase[r] = "writing" => file[r] # "absent"

LEMMA ListingInit == Records!Init => ListingInv
  <1> SUFFICES ASSUME Records!Init PROVE ListingInv
    OBVIOUS
  <1>1. /\ RecordsInv /\ phase = [r \in Runs |-> "idle"] /\ file = [r \in Runs |-> "absent"]
        /\ listing = Records!NoListing
    BY RecordsInit DEF Records!Init
  <1> QED
    BY <1>1 DEF ListingInv, ListingHolds, ListingRecord, Records!NoListing

\* A file of r that was written a little further, or created, and what the listing notices.
LEMMA FileKeeps ==
    ASSUME ListingInv, NEW r \in Runs, NEW f \in {"empty", "torn", "whole"},
           file' = [file EXCEPT ![r] = f], file[r] # "whole" \/ f = "whole",
           file[r] = "torn" => f # "empty",
           \/ file[r] # "absent" /\ Records!FileTouched(r)
           \/ Records!DirectoryTouched
    PROVE  ListingHolds(listing', file')
  <1>1. /\ listing \in ListingRecord /\ file \in [Runs -> {"absent", "empty", "torn", "whole"}]
        /\ ListingHolds(listing, file)
    BY DEF ListingInv, ListingHolds, RecordsInv, RecordsTyped
  <1>2. file'[r] = f /\ \A q \in Runs : q # r => file'[q] = file[q]
    BY <1>1
  <1>3. /\ listing' \in ListingRecord /\ listing'.at = listing.at /\ listing'.todo = listing.todo
        /\ listing'.open = listing.open /\ listing'.got = listing.got
        /\ listing'.unchanged => listing.unchanged /\ file[r] # "absent"
    BY <1>1, ZenonT(40) DEF ListingRecord, Records!FileTouched, Records!DirectoryTouched
  <1>4. listing.todo \subseteq Runs /\ listing.got \subseteq Runs
    BY <1>1 DEF ListingRecord
  <1> QED
    BY <1>1, <1>2, <1>3, <1>4 DEF ListingHolds

LEMMA ListingNext == ListingInv /\ [Records!Next]_recordsVars => ListingInv'
  <1> SUFFICES ASSUME ListingInv, [Records!Next]_recordsVars PROVE ListingInv'
    OBVIOUS
  <1>1. RecordsInv' /\ RecordsInv /\ ListingHolds(listing, file) /\ listing \in ListingRecord
    BY RecordsNext DEF ListingInv, ListingHolds
  <1>2. /\ phase \in [Runs -> {"idle", "body", "ended", "writing", "closing", "exit", "over", "dead"}]
        /\ file \in [Runs -> {"absent", "empty", "torn", "whole"}]
    BY <1>1 DEF RecordsInv, RecordsTyped
  <1>3. ASSUME NEW r \in Runs, Records!CreateFile(r) \/ Records!WriteSome(r) \/ Records!WriteRest(r)
        PROVE  ListingInv'
    <2>1. PICK f \in {"empty", "torn", "whole"} :
             /\ file' = [file EXCEPT ![r] = f] /\ (file[r] # "whole" \/ f = "whole") /\ (file[r] = "torn" => f # "empty")
             /\ (file[r] # "absent" /\ Records!FileTouched(r)) \/ Records!DirectoryTouched
             /\ backend' = backend /\ backend = "json"
             /\ \A q \in Runs : q # r => phase'[q] = phase[q]
      <3>1. CASE Records!CreateFile(r)
        BY <1>2, <3>1 DEF Records!CreateFile, Records!Go
      <3>2. CASE Records!WriteSome(r)
        BY <1>2, <3>2 DEF Records!WriteSome
      <3>3. CASE Records!WriteRest(r)
        BY <1>2, <3>3 DEF Records!WriteRest, Records!Go, Records!At, ListingInv
      <3> QED
        BY <1>3, <3>1, <3>2, <3>3
    <2>2. ListingHolds(listing', file')
      BY <2>1, FileKeeps
    <2>3. \A q \in Runs : phase'[q] = "writing" => file'[q] # "absent"
      BY <1>2, <2>1 DEF ListingInv
    <2> QED
      BY <1>1, <2>2, <2>3 DEF ListingInv
  <1>4. ASSUME file' = file, backend' = backend, listing' = listing,
               \A q \in Runs : phase'[q] = "writing" => phase[q] = "writing" \/ backend # "json"
        PROVE  ListingInv'
    BY <1>1, <1>4 DEF ListingInv, ListingHolds
  <1>5. ASSUME NEW r \in Runs,
               \/ Records!Start(r) \/ Records!EndBody(r, "completed") \/ Records!EndBody(r, "failed")
               \/ Records!Insert(r) \/ Records!CloseConnection(r) \/ Records!FailToClose(r)
               \/ Records!LogSome(r) \/ Records!LogRest(r) \/ Records!FailPersisting(r)
               \/ \E how \in {"ends", "fails", "swallows"} : Records!ExitSession(r, how)
               \/ Records!Kill(r)
        PROVE  ListingInv'
    <2>1. /\ file' = file /\ backend' = backend /\ listing' = listing
          /\ \E pc : Records!Go(r, pc) /\ (pc = "writing" => backend # "json")
      BY <1>5 DEF Records!Start, Records!EndBody, Records!Insert, Records!CloseConnection, Records!FailToClose,
         Records!LogSome, Records!LogRest, Records!FailPersisting, Records!ExitSession, Records!Kill,
         Records!Persisted, Records!AfterPersisting
    <2> QED
      BY <1>2, <1>4, <2>1 DEF Records!Go
  <1>6. CASE UNCHANGED recordsVars
    BY <1>4, <1>6 DEF recordsVars
  <1>7. ASSUME UNCHANGED <<backend, phase, file>>, ListingHolds(listing', file) PROVE ListingInv'
    BY <1>1, <1>7 DEF ListingInv, ListingHolds
  <1>8. ASSUME NEW r \in Runs, Records!OpenRecord(r) PROVE ListingInv'
    <2> DEFINE at == IF file[r] = "empty" THEN "refused" ELSE "reading"
    <2>1. /\ listing.at = "scanned" /\ r \in listing.todo /\ UNCHANGED <<backend, phase, file>>
          /\ listing' = [listing EXCEPT !.at = at, !.todo = @ \ {r}, !.open = r, !.still = TRUE]
      BY <1>8 DEF Records!OpenRecord
    <2>2. at \in {"refused", "reading"} /\ (at = "reading" => file[r] \in {"torn", "whole"})
      BY <1>1, <1>2, <2>1 DEF ListingHolds
    <2> HIDE DEF at
    <2>3. /\ listing' \in ListingRecord /\ listing'.at = at /\ listing'.todo = listing.todo \ {r} /\ listing'.open = r
          /\ listing'.got = listing.got /\ listing'.unchanged = listing.unchanged
      BY ONLY <1>1, <2>1, <2>2, r \in Runs DEF ListingRecord
    <2> QED
      BY <1>1, <1>7, <2>1, <2>2, <2>3 DEF ListingHolds
  <1>9. CASE Records!ReadRecord
    <2> DEFINE r == listing.open
               refused == ~listing.still \/ file[r] = "torn"
    <2>1. /\ listing.at = "reading" /\ UNCHANGED <<backend, phase, file>>
          /\ listing' = [listing EXCEPT !.at = IF refused THEN "refused" ELSE "scanned", !.open = "none",
                                        !.got = IF refused THEN @ ELSE @ \cup {r}]
      BY <1>9 DEF Records!ReadRecord
    <2>2. r \in Runs /\ (~refused => file[r] = "whole")
      BY <1>1, <2>1 DEF ListingHolds
    <2>3. refused \in BOOLEAN
      OBVIOUS
    <2> HIDE DEF refused
    <2>4. /\ listing' \in ListingRecord /\ listing'.at = (IF refused THEN "refused" ELSE "scanned")
          /\ listing'.todo = listing.todo /\ listing'.unchanged = listing.unchanged
          /\ listing'.got = IF refused THEN listing.got ELSE listing.got \cup {r}
      BY ONLY <1>1, <2>1, <2>2, <2>3 DEF ListingRecord
    <2> QED
      BY <1>1, <1>7, <2>1, <2>2, <2>4 DEF ListingHolds
  <1>10. CASE Records!Scan
    <2>1. /\ UNCHANGED <<backend, phase, file>>
          /\ listing' = [Records!NoListing EXCEPT !.at = "scanned", !.todo = Records!Files]
      BY <1>10 DEF Records!Scan
    <2>2. Records!Files \subseteq Runs /\ \A r \in Runs : r \in Records!Files <=> file[r] # "absent"
      BY DEF Records!Files
    <2>3. /\ listing' \in ListingRecord /\ listing'.at = "scanned" /\ listing'.todo = Records!Files /\ listing'.got = {}
      BY <2>1, <2>2 DEF ListingRecord, Records!NoListing
    <2> QED
      BY <1>7, <2>1, <2>2, <2>3 DEF ListingHolds
  <1>11. CASE Records!ReturnRuns
    <2>1. UNCHANGED <<backend, phase, file>> /\ \E at \in {"returned", "refused"} : listing' = [listing EXCEPT !.at = at]
      BY <1>11 DEF Records!ReturnRuns
    <2>2. /\ listing' \in ListingRecord /\ listing'.at \in {"returned", "refused"}
          /\ listing'.todo = listing.todo /\ listing'.got = listing.got
      BY <1>1, <2>1 DEF ListingRecord
    <2> QED
      BY <1>1, <1>7, <2>1, <2>2 DEF ListingHolds
  <1>12. CASE Records!EndListing
    <2>1. UNCHANGED <<backend, phase, file>> /\ listing' = Records!NoListing
      BY <1>12 DEF Records!EndListing
    <2>2. ListingHolds(listing', file)
      BY <2>1 DEF ListingHolds, ListingRecord, Records!NoListing
    <2> QED
      BY <1>7, <2>1, <2>2
  <1> QED
    BY <1>3, <1>5, <1>6, <1>8, <1>9, <1>10, <1>11, <1>12 DEF Records!Next

LEMMA ListingReturns ==
    ASSUME ListingInv, Records!ReturnRuns, listing'.at = "returned"
    PROVE  listing.got = {r \in Runs : file[r] = "whole"} /\ listing.got = Records!Files
  <1>1. listing \in ListingRecord /\ ListingHolds(listing, file)
    BY DEF ListingInv, ListingHolds
  <1>2. listing.at = "scanned" /\ listing.todo = {} /\ listing.unchanged
    <2>1. listing.at = "scanned" /\ listing.todo = {}
          /\ listing' = [listing EXCEPT !.at = IF Records!DirectoryIsTheSame(listing) THEN "returned" ELSE "refused"]
      BY DEF Records!ReturnRuns
    <2>2. listing'.at = IF Records!DirectoryIsTheSame(listing) THEN "returned" ELSE "refused"
      BY <1>1, <2>1 DEF ListingRecord
    <2> QED
      BY <2>1, <2>2 DEF Records!DirectoryIsTheSame
  <1>3. listing.got \subseteq Runs
    BY <1>1 DEF ListingRecord
  <1>4. \A r \in Runs : /\ file[r] # "absent" => r \in listing.got
                        /\ r \in listing.got => file[r] = "whole"
    BY <1>1, <1>2 DEF ListingHolds
  <1> QED
    BY <1>3, <1>4 DEF Records!Files

-----------------------------------------------------------------------------
\* The registry's schema (RegistryMigration).

ProcRecord == [pc : {"away", "idle", "stat", "open", "fstat", "connect", "begin", "migrate",
                     "bind", "verify", "commit", "probe", "refused", "close"},
               seen : Migration!Sidecars \cup {Migration!None}, since : 0..MaxSidecars, again : BOOLEAN,
               work : Migration!Database, accepted : BOOLEAN, id : Migration!Processes \cup {Unkeyed}]

\* A database e into which d has grown.
Grown(d, e) ==
    /\ d.ledger \subseteq e.ledger
    /\ d.ledger # {} => e.authority = d.authority /\ e.id = d.id

\* No ledger records what is not there, and there is no id without a table.
Sound(d) ==
    /\ d.ledger # {} => d.objects = d.ledger
    /\ d.ledger \cup d.objects = {} => d.id = Unkeyed

\* What the writer has in its transaction.
WorkHolds(p, k, d) ==
    /\ k.work.objects = k.work.ledger /\ Grown(d, k.work) /\ Migration!NotPartial(d)
    /\ k.pc = "migrate" => \E n \in 0..Compiled[p] : k.work.ledger = 1..n
    /\ k.pc # "migrate" => k.work.ledger = 1..Compiled[p]
    /\ k.pc \in {"verify", "commit"} => k.work.authority = KeyOf[p]

\* A process p in state k over the database d, with writer w and m sidecars made so far.
ProcHolds(p, k, d, w, m) ==
    /\ k.pc \in {"migrate", "bind", "verify", "commit"} => w = p /\ WorkHolds(p, k, d)
    /\ k.pc = "probe" => Grown(k.work, d)
    /\ k.accepted => 1..Compiled[p] \subseteq d.ledger /\ d.authority = KeyOf[p] /\ d.id = k.id
    /\ k.since <= m
    /\ k.pc = "open" => k.seen = k.since
    /\ k.pc = "refused" => m > k.since

MigrationInv ==
    /\ Migration!TypeOK
    /\ Sound(db) /\ wal \in {Migration!None, made}
    /\ \A p \in Migration!Processes : ProcHolds(p, proc[p], db, writer, made)

LEMMA MigrationTypes ==
    ASSUME MigrationInv
    PROVE  /\ db \in Migration!Database /\ Sound(db)
           /\ writer \in Initializers \cup {Unkeyed} /\ open \subseteq Migration!Processes
           /\ wal \in Migration!Sidecars \cup {Migration!None} /\ made \in 0..MaxSidecars /\ wal \in {Migration!None, made}
           /\ proc \in [Migration!Processes -> ProcRecord] /\ kills \in 0..MaxKills
           /\ \A p \in Migration!Processes : ProcHolds(p, proc[p], db, writer, made)
           /\ Initializers \subseteq Migration!Processes /\ Probers \subseteq Migration!Processes
           /\ Unkeyed \notin Migration!Processes
  BY FoundAssumption DEF MigrationInv, Migration!TypeOK, ProcRecord, Migration!Processes

\* A process that was killed, or has not begun.
LEMMA AtRestHolds ==
    /\ Migration!Missing \in Migration!Database
    /\ Migration!AtRest \in ProcRecord /\ Migration!Away \in ProcRecord
    /\ \A p, d, w : \A m \in Nat : ProcHolds(p, Migration!AtRest, d, w, m) /\ ProcHolds(p, Migration!Away, d, w, m)
  <1>1. Migration!Missing \in Migration!Database
    BY DEF Migration!Missing, Migration!Database
  <1>2. 0 \in 0..MaxSidecars
    BY MigrationAssumption
  <1>3. Migration!AtRest \in ProcRecord
    BY <1>1, <1>2 DEF Migration!AtRest, ProcRecord
  <1>4. Migration!Away \in ProcRecord
    BY <1>3 DEF Migration!Away, ProcRecord
  <1>5. /\ Migration!AtRest.pc = "idle" /\ Migration!AtRest.accepted = FALSE /\ Migration!AtRest.since = 0
        /\ Migration!Away.pc = "away" /\ Migration!Away.accepted = FALSE /\ Migration!Away.since = 0
    BY DEF Migration!AtRest, Migration!Away
  <1> QED
    BY <1>1, <1>3, <1>4, <1>5 DEF ProcHolds

LEMMA MigrationInit == Migration!Init => MigrationInv
  <1> SUFFICES ASSUME Migration!Init PROVE MigrationInv
    OBVIOUS
  <1>1. /\ db \in Found /\ writer = Unkeyed /\ open = {} /\ wal = Migration!None /\ made = 0 /\ kills = 0
        /\ \E cast \in MigrationCasts :
              proc = [p \in Migration!Processes |-> IF p \in cast THEN Migration!AtRest ELSE Migration!Away]
    BY DEF Migration!Init
  <1>2. db \in Migration!Database /\ Sound(db)
    <2>1. ASSUME NEW d \in Found PROVE d \in Migration!Database /\ Sound(d)
      BY FoundAssumption DEF Sound
    <2> QED
      BY <1>1, <2>1
  <1>3. proc \in [Migration!Processes -> {Migration!AtRest, Migration!Away}]
    BY <1>1
  <1>4. proc \in [Migration!Processes -> ProcRecord]
    BY <1>3, AtRestHolds
  <1>5. made \in 0..MaxSidecars /\ kills \in 0..MaxKills /\ made \in Nat
    BY <1>1, MigrationAssumption
  <1>6. Migration!TypeOK
    BY <1>1, <1>2, <1>4, <1>5 DEF Migration!TypeOK, ProcRecord
  <1>7. ASSUME NEW p \in Migration!Processes PROVE ProcHolds(p, proc[p], db, writer, made)
    BY <1>3, <1>5, AtRestHolds
  <1> QED
    BY <1>1, <1>2, <1>6, <1>7 DEF MigrationInv

\* A step of p: the others keep what they rely on as the database and the sidecars grow,
\* and as long as the writer is not replaced.
LEMMA OneProc ==
    ASSUME MigrationInv, NEW p \in Migration!Processes, NEW k \in ProcRecord, proc' = [proc EXCEPT ![p] = k],
           db' \in Migration!Database, Sound(db'), db' # db => Grown(db, db'),
           writer' = writer \/ writer \in {p, Unkeyed}, writer' \in Initializers \cup {Unkeyed},
           \/ db'.ledger = db.ledger /\ db'.objects = db.objects /\ db'.authority = db.authority /\ db'.id = db.id
           \/ writer = p,
           open' \subseteq Migration!Processes, wal' \in Migration!Sidecars \cup {Migration!None},
           made' \in 0..MaxSidecars, made <= made', wal' \in {Migration!None, made'}, kills' \in 0..MaxKills,
           ProcHolds(p, k, db', writer', made')
    PROVE  MigrationInv'
  <1> USE MigrationTypes
  <1>1. proc' \in [Migration!Processes -> ProcRecord]
    OBVIOUS
  <1>2. Migration!TypeOK'
    BY <1>1 DEF Migration!TypeOK, ProcRecord
  <1>3. ASSUME NEW q \in Migration!Processes PROVE ProcHolds(q, proc'[q], db', writer', made')
    <2>1. CASE q = p
      BY <2>1
    <2>2. CASE q # p
      <3> DEFINE x == proc[q]
      <3>1. proc'[q] = x /\ x \in ProcRecord /\ ProcHolds(q, x, db, writer, made)
        BY <2>2
      <3> HIDE DEF x
      <3>2. Grown(db, db')
        BY DEF Grown
      <3>3. x.accepted => 1..Compiled[q] \subseteq db'.ledger /\ db'.authority = KeyOf[q] /\ db'.id = x.id
        <4> SUFFICES ASSUME x.accepted PROVE 1..Compiled[q] \subseteq db'.ledger /\ db'.authority = KeyOf[q] /\ db'.id = x.id
          OBVIOUS
        <4>1. 1..Compiled[q] \subseteq db.ledger /\ db.authority = KeyOf[q] /\ db.id = x.id
          BY <3>1 DEF ProcHolds
        <4>2. 1 \in 1..Compiled[q]
          BY MigrationAssumption DEF Migration!Processes
        <4> QED
          BY <3>2, <4>1, <4>2 DEF Grown
      <3>4. x.pc = "probe" => Grown(x.work, db')
        BY <3>1, <3>2 DEF ProcHolds, Grown
      <3>5. x.pc \in {"migrate", "bind", "verify", "commit"} => writer' = q /\ WorkHolds(q, x, db')
        <4> SUFFICES ASSUME x.pc \in {"migrate", "bind", "verify", "commit"} PROVE writer' = q /\ WorkHolds(q, x, db')
          OBVIOUS
        <4>1. writer = q /\ WorkHolds(q, x, db)
          BY <3>1 DEF ProcHolds
        <4>2. writer' = q
          BY <2>2, <4>1
        <4>3. db'.ledger = db.ledger /\ db'.objects = db.objects /\ db'.authority = db.authority /\ db'.id = db.id
          BY <2>2, <4>1
        <4> QED
          BY <4>1, <4>2, <4>3 DEF WorkHolds, Grown, Migration!NotPartial
      <3>6. x.since <= made' /\ (x.pc = "refused" => made' > x.since) /\ (x.pc = "open" => x.seen = x.since)
        <4>1. x.since \in Nat /\ made \in Nat /\ made' \in Nat
          BY <3>1, MigrationAssumption DEF ProcRecord
        <4> QED
          BY <3>1, <4>1 DEF ProcHolds
      <3> QED
        BY <3>1, <3>3, <3>4, <3>5, <3>6 DEF ProcHolds
    <2> QED
      BY <2>1, <2>2
  <1> QED
    BY <1>2, <1>3 DEF MigrationInv, ProcHolds, WorkHolds, Grown, Sound, Migration!NotPartial

Transaction == {"migrate", "bind", "verify", "commit"}

\* A step of p that is outside of a transaction and a snapshot afterwards, and changes
\* nothing of the database.
LEMMA OutsideProc ==
    ASSUME MigrationInv, NEW p \in Migration!Processes, NEW k \in ProcRecord, proc' = [proc EXCEPT ![p] = k],
           db' = db, writer' = IF writer = p /\ writer' # writer THEN Unkeyed ELSE writer,
           k.pc \notin Transaction \cup {"probe"},
           k.accepted => proc[p].accepted /\ k.id = proc[p].id,
           k.since <= made', k.pc = "open" => k.seen = k.since, k.pc = "refused" => made' > k.since,
           open' \subseteq Migration!Processes, wal' \in Migration!Sidecars \cup {Migration!None},
           made' \in 0..MaxSidecars, made <= made', wal' \in {Migration!None, made'}, kills' \in 0..MaxKills
    PROVE  MigrationInv'
  <1> USE MigrationTypes
  <1>1. ProcHolds(p, proc[p], db, writer, made)
    OBVIOUS
  <1>2. ProcHolds(p, k, db', writer', made')
    BY <1>1 DEF ProcHolds, Transaction
  <1>3. writer' = writer \/ writer \in {p, Unkeyed}
    OBVIOUS
  <1>4. writer' \in Initializers \cup {Unkeyed} /\ db' \in Migration!Database /\ Sound(db')
    OBVIOUS
  <1> QED
    BY <1>2, <1>3, <1>4, OneProc

\* The record of a process whose place, and what it saw, are changed.
LEMMA ProcFields ==
    ASSUME NEW k \in ProcRecord,
           NEW pc \in {"away", "idle", "stat", "open", "fstat", "connect", "begin", "migrate",
                       "bind", "verify", "commit", "probe", "refused", "close"}
    PROVE  /\ [k EXCEPT !.pc = pc] \in ProcRecord
           /\ [k EXCEPT !.pc = pc].pc = pc /\ [k EXCEPT !.pc = pc].since = k.since /\ [k EXCEPT !.pc = pc].seen = k.seen
           /\ [k EXCEPT !.pc = pc].accepted = k.accepted /\ [k EXCEPT !.pc = pc].id = k.id
           /\ [k EXCEPT !.pc = pc].work = k.work
           /\ k.since \in 0..MaxSidecars /\ k.seen \in Migration!Sidecars \cup {Migration!None}
           /\ k.work \in Migration!Database /\ k.accepted \in BOOLEAN /\ k.id \in Migration!Processes \cup {Unkeyed}
  BY DEF ProcRecord

LEMMA SidecarKeeps ==
    ASSUME MigrationInv, NEW p \in Migration!Processes,
           Migration!StatSidecar(p) \/ Migration!OpenSidecar(p) \/ Migration!FstatSidecar(p)
    PROVE  MigrationInv'
  <1> USE MigrationTypes
  <1>1. UNCHANGED <<db, writer, open, wal, made, kills>>
    BY DEF Migration!StatSidecar, Migration!OpenSidecar, Migration!FstatSidecar
  <1>2. proc[p] \in ProcRecord /\ ProcHolds(p, proc[p], db, writer, made) /\ made \in Nat /\ made <= made
    BY MigrationAssumption
  <1>3. Migration!Inspected(p) \in {"begin", "connect"}
    BY DEF Migration!Inspected
  <1>4. CASE Migration!StatSidecar(p)
    <2> DEFINE pc == IF wal = Migration!None THEN Migration!Inspected(p) ELSE "open"
               k == [proc[p] EXCEPT !.seen = wal, !.since = made, !.pc = pc]
    <2>1. proc' = [proc EXCEPT ![p] = k]
      BY <1>4 DEF Migration!StatSidecar
    <2>2. pc \in {"begin", "connect", "open"} /\ (pc = "open" => wal = made)
      BY <1>3
    <2> HIDE DEF pc
    <2>3. k \in ProcRecord
      BY <1>2, <2>2 DEF ProcRecord
    <2>4. k.pc = pc /\ k.seen = wal /\ k.since = made /\ k.accepted = proc[p].accepted /\ k.id = proc[p].id
      BY <1>2 DEF ProcRecord
    <2> HIDE DEF k
    <2> QED
      BY <1>1, <1>2, <2>1, <2>2, <2>3, <2>4, OutsideProc DEF Transaction
  <1>5. ASSUME NEW pc \in {"begin", "connect", "fstat", "refused"}, Migration!To(p, pc),
               pc = "refused" => made > proc[p].since
        PROVE  MigrationInv'
    <2> DEFINE k == [proc[p] EXCEPT !.pc = pc]
    <2>1. proc' = [proc EXCEPT ![p] = k]
      BY <1>5 DEF Migration!To
    <2>2. /\ k \in ProcRecord /\ k.pc = pc /\ k.since = proc[p].since
          /\ k.accepted = proc[p].accepted /\ k.id = proc[p].id
      BY <1>2 DEF ProcRecord
    <2> HIDE DEF k
    <2>3. k.since <= made
      BY <1>2, <2>2 DEF ProcHolds
    <2> QED
      BY <1>1, <1>2, <1>5, <2>1, <2>2, <2>3, OutsideProc DEF Transaction
  <1>6. CASE Migration!OpenSidecar(p)
    <2>1. proc[p].pc = "open" /\ proc[p].seen = proc[p].since /\ proc[p].since <= made /\ proc[p].since \in Nat
      BY <1>2, <1>6, MigrationAssumption DEF Migration!OpenSidecar, ProcHolds, ProcRecord
    <2>2. wal # Migration!None /\ wal # proc[p].seen => made > proc[p].since
      BY <1>2, <2>1
    <2> QED
      BY <1>3, <1>5, <1>6, <2>2 DEF Migration!OpenSidecar
  <1>7. CASE Migration!FstatSidecar(p)
    BY <1>3, <1>5, <1>7 DEF Migration!FstatSidecar
  <1> QED
    BY <1>4, <1>6, <1>7

\* The first use of a connection, as the lemmas above need it.
LEMMA UsedSidecar ==
    ASSUME MigrationInv, NEW p \in Migration!Processes, Migration!UseSidecar(p)
    PROVE  /\ open' \subseteq Migration!Processes /\ wal' \in Migration!Sidecars \cup {Migration!None}
           /\ made' \in 0..MaxSidecars /\ made <= made' /\ wal' \in {Migration!None, made'}
  <1> USE MigrationTypes
  <1>1. open' \subseteq Migration!Processes
    BY DEF Migration!UseSidecar
  <1>2. made \in Nat
    BY MigrationAssumption
  <1>3. CASE UNCHANGED <<wal, made>>
    BY <1>1, <1>2, <1>3
  <1>4. CASE made < MaxSidecars /\ wal' = made + 1 /\ made' = made + 1
    <2>1. made + 1 \in 1..MaxSidecars /\ made + 1 \in 0..MaxSidecars
      BY <1>2, <1>4, MigrationAssumption
    <2> QED
      BY <1>1, <1>2, <1>4, <2>1 DEF Migration!Sidecars
  <1> QED
    BY <1>3, <1>4 DEF Migration!UseSidecar

LEMMA ConnectionKeeps ==
    ASSUME MigrationInv, NEW p \in Migration!Processes,
           Migration!StartProbe(p) \/ Migration!Connect(p) \/ Migration!Close(p) \/ Migration!Fail(p) \/ Migration!Kill(p)
    PROVE  MigrationInv'
  <1> USE MigrationTypes
  <1>1. proc[p] \in ProcRecord /\ ProcHolds(p, proc[p], db, writer, made) /\ made \in Nat /\ made <= made
    BY MigrationAssumption
  <1>2. CASE Migration!StartProbe(p)
    <2> DEFINE k == [Migration!AtRest EXCEPT !.pc = "stat"]
    <2>1. proc' = [proc EXCEPT ![p] = k] /\ UNCHANGED <<db, writer, open, wal, made, kills>>
      BY <1>2 DEF Migration!StartProbe
    <2>2. k \in ProcRecord /\ k.pc = "stat"
      BY AtRestHolds DEF ProcRecord
    <2>3. k.since = 0 /\ ~k.accepted
      BY AtRestHolds DEF Migration!AtRest
    <2> HIDE DEF k
    <2>4. k.since <= made'
      BY <1>1, <2>1, <2>3
    <2>5. writer' = IF writer = p /\ writer' # writer THEN Unkeyed ELSE writer
      BY <2>1
    <2> QED
      BY <1>1, <2>1, <2>2, <2>3, <2>4, <2>5, OutsideProc DEF Transaction
  <1>3. CASE Migration!Connect(p)
    <2> DEFINE k == [proc[p] EXCEPT !.pc = "stat", !.again = TRUE]
    <2>1. proc' = [proc EXCEPT ![p] = k] /\ UNCHANGED <<db, writer, kills>>
      BY <1>3 DEF Migration!Connect
    <2>2. /\ k \in ProcRecord /\ k.pc = "stat" /\ k.since = proc[p].since
          /\ k.accepted = proc[p].accepted /\ k.id = proc[p].id
      BY <1>1 DEF ProcRecord
    <2> HIDE DEF k
    <2>3. /\ open' \subseteq Migration!Processes /\ wal' \in Migration!Sidecars \cup {Migration!None}
          /\ made' \in 0..MaxSidecars /\ made <= made' /\ wal' \in {Migration!None, made'}
      <3>1. CASE Migration!UseSidecar(p)
        BY <3>1, UsedSidecar
      <3>2. CASE UNCHANGED <<open, wal, made>>
        BY <1>1, <3>2
      <3> QED
        BY <1>3, <3>1, <3>2 DEF Migration!Connect
    <2>4. k.since <= made'
      <3>1. proc[p].since \in Nat /\ made' \in Nat
        BY <1>1, <2>3, MigrationAssumption DEF ProcRecord
      <3> QED
        BY <1>1, <2>2, <2>3, <3>1 DEF ProcHolds
    <2> QED
      BY <2>1, <2>2, <2>3, <2>4, OutsideProc DEF Transaction
  <1>4. ASSUME NEW pc \in {"idle", "close"}, Migration!To(p, pc), UNCHANGED <<db, made, kills>>,
               writer' = IF writer = p /\ writer' # writer THEN Unkeyed ELSE writer,
               open' \subseteq open, wal' \in {wal, Migration!None}
        PROVE  MigrationInv'
    <2> DEFINE k == [proc[p] EXCEPT !.pc = pc]
    <2>1. proc' = [proc EXCEPT ![p] = k]
      BY <1>4 DEF Migration!To
    <2>2. /\ k \in ProcRecord /\ k.pc = pc /\ k.since = proc[p].since
          /\ k.accepted = proc[p].accepted /\ k.id = proc[p].id
      BY <1>1 DEF ProcRecord
    <2> HIDE DEF k
    <2>3. k.since <= made'
      BY <1>1, <1>4, <2>2 DEF ProcHolds
    <2>4. wal' \in Migration!Sidecars \cup {Migration!None} /\ wal' \in {Migration!None, made'}
          /\ open' \subseteq Migration!Processes
      BY <1>4
    <2> QED
      BY <1>1, <1>4, <2>1, <2>2, <2>3, <2>4, OutsideProc DEF Transaction
  <1>5. CASE Migration!Close(p)
    BY <1>4, <1>5 DEF Migration!Close
  <1>6. CASE Migration!Fail(p)
    BY <1>4, <1>6 DEF Migration!Fail
  <1>7. CASE Migration!Kill(p)
    <2>1. /\ proc' = [proc EXCEPT ![p] = Migration!AtRest] /\ kills < MaxKills /\ kills' = kills + 1
          /\ writer' = (IF writer = p THEN Unkeyed ELSE writer)
          /\ open' = open \ {p} /\ UNCHANGED <<db, wal, made>>
      BY <1>7 DEF Migration!Kill
    <2>2. kills' \in 0..MaxKills
      BY <2>1, MigrationAssumption
    <2>3. /\ Migration!AtRest.pc = "idle" /\ Migration!AtRest.since = 0 /\ ~Migration!AtRest.accepted
          /\ Migration!AtRest \in ProcRecord
      BY AtRestHolds DEF Migration!AtRest
    <2>4. open' \subseteq Migration!Processes
      BY <2>1
    <2>5. Migration!AtRest.since <= made'
      BY <1>1, <2>1, <2>3
    <2>6. writer' = IF writer = p /\ writer' # writer THEN Unkeyed ELSE writer
      BY <2>1
    <2>7. wal' \in Migration!Sidecars \cup {Migration!None} /\ wal' \in {Migration!None, made'}
          /\ made' \in 0..MaxSidecars /\ made <= made'
      BY <1>1, <2>1
    <2> QED
      BY <2>1, <2>2, <2>3, <2>4, <2>5, <2>6, <2>7, OutsideProc DEF Transaction
  <1> QED
    BY <1>2, <1>3, <1>5, <1>6, <1>7

LEMMA LedgerCount == \A n \in Nat : Migration!Cardinality(1..n) = n
  <1> TAKE n \in Nat
  <1>1. Migration!Cardinality(1..n) = Cardinality(1..n)
    BY DEF Migration!Cardinality, Cardinality, Migration!IsFiniteSet, IsFiniteSet
  <1> QED
    BY <1>1, FS_Interval

\* A step inside of p's transaction, its first one included.
LEMMA InsideProc ==
    ASSUME MigrationInv, NEW p \in Migration!Processes, NEW k \in ProcRecord, proc' = [proc EXCEPT ![p] = k],
           UNCHANGED <<db, open, wal, made, kills>>, writer \in {p, Unkeyed}, writer' = p, p \in Initializers,
           k.pc \in Transaction, WorkHolds(p, k, db),
           k.accepted = proc[p].accepted, k.id = proc[p].id, k.since = proc[p].since
    PROVE  MigrationInv'
  <1> USE MigrationTypes
  <1>1. ProcHolds(p, proc[p], db, writer, made)
    OBVIOUS
  <1>2. ProcHolds(p, k, db', writer', made')
    BY <1>1 DEF ProcHolds, Transaction
  <1>3. made' \in 0..MaxSidecars /\ made <= made' /\ wal' \in {Migration!None, made'} /\ kills' \in 0..MaxKills
    BY MigrationAssumption
  <1> QED
    BY <1>2, <1>3, OneProc

LEMMA PrepareKeeps ==
    ASSUME MigrationInv, NEW p \in Migration!Processes, Migration!PrepareFile(p)
    PROVE  MigrationInv'
  <1> USE MigrationTypes
  <1> DEFINE k == [Migration!AtRest EXCEPT !.pc = "stat"]
             d == [db EXCEPT !.exists = TRUE]
  <1>1. proc' = [proc EXCEPT ![p] = k] /\ db' = d /\ UNCHANGED <<writer, open, wal, made, kills>>
    BY DEF Migration!PrepareFile
  <1>2. k \in ProcRecord /\ k.pc = "stat"
    BY AtRestHolds DEF ProcRecord
  <1>3. k.since = 0 /\ ~k.accepted
    BY AtRestHolds DEF Migration!AtRest
  <1>4. /\ d \in Migration!Database /\ d.ledger = db.ledger /\ d.objects = db.objects
        /\ d.authority = db.authority /\ d.id = db.id
    BY DEF Migration!Database
  <1> HIDE DEF k, d
  <1>5. Sound(db') /\ Grown(db, db')
    BY <1>1, <1>4 DEF Sound, Grown
  <1>6. made \in Nat /\ made <= made
    BY MigrationAssumption
  <1>7. ProcHolds(p, k, db', writer', made')
    BY <1>1, <1>2, <1>3, <1>6 DEF ProcHolds
  <1> QED
    BY <1>1, <1>2, <1>4, <1>5, <1>6, <1>7, OneProc

LEMMA BeginKeeps ==
    ASSUME MigrationInv, NEW p \in Migration!Processes, Migration!Begin(p)
    PROVE  MigrationInv'
  <1> USE MigrationTypes
  <1> DEFINE k == [proc[p] EXCEPT !.pc = "migrate", !.work = db]
  <1>1. /\ p \in Initializers /\ writer = Unkeyed /\ writer' = p
        /\ Migration!LedgerHolds(p, db) /\ Migration!NotPartial(db)
        /\ proc' = [proc EXCEPT ![p] = k] /\ UNCHANGED <<db, open, wal, made, kills>>
    BY DEF Migration!Begin
  <1>2. /\ k \in ProcRecord /\ k.pc = "migrate" /\ k.work = db /\ k.since = proc[p].since
        /\ k.accepted = proc[p].accepted /\ k.id = proc[p].id
    <2>1. proc[p] \in ProcRecord /\ db \in Migration!Database
      OBVIOUS
    <2> QED
      BY ONLY <2>1 DEF ProcRecord
  <1> HIDE DEF k
  <1>3. \E n \in 0..Compiled[p] : db.ledger = 1..n
    <2> DEFINE n == Migration!Cardinality(db.ledger)
    <2>1. n \in Nat
      <3>1. n = Cardinality(db.ledger)
        BY DEF Migration!Cardinality, Cardinality, Migration!IsFiniteSet, IsFiniteSet
      <3>2. db.ledger \subseteq 1..3
        BY DEF Migration!Database
      <3>3. IsFiniteSet(db.ledger)
        <4>1. IsFiniteSet(1..3)
          BY FS_Interval, 1 \in Int, 3 \in Int
        <4> QED
          BY <3>2, <4>1, FS_Subset
      <3> QED
        BY <3>1, <3>3, FS_CardinalityType
    <2>2. db.ledger = 1..n /\ db.ledger \subseteq 1..Compiled[p]
      BY <1>1 DEF Migration!LedgerHolds
    <2>3. Compiled[p] \in 1..3
      BY MigrationAssumption DEF Migration!Processes
    <2> HIDE DEF n
    <2>4. n <= Compiled[p]
      BY <2>1, <2>2, <2>3
    <2> QED
      BY <2>1, <2>2, <2>3, <2>4
  <1>4. k.work.objects = k.work.ledger /\ Grown(db, k.work)
    BY <1>1, <1>2 DEF Sound, Migration!NotPartial, Grown
  <1>5. WorkHolds(p, k, db)
    BY <1>1, <1>2, <1>3, <1>4 DEF WorkHolds
  <1> QED
    BY <1>1, <1>2, <1>5, InsideProc DEF Transaction

\* What the writer's transaction holds, for the steps in it.
LEMMA TransactionTypes ==
    ASSUME MigrationInv, NEW p \in Migration!Processes, proc[p].pc \in Transaction
    PROVE  /\ proc[p] \in ProcRecord /\ proc[p].work \in Migration!Database
           /\ writer = p /\ p \in Initializers /\ WorkHolds(p, proc[p], db)
           /\ Compiled[p] \in 1..3
  <1> USE MigrationTypes
  <1>1. writer = p /\ WorkHolds(p, proc[p], db)
    BY DEF ProcHolds, Transaction
  <1>2. p \in Initializers
    BY <1>1
  <1>3. proc[p] \in ProcRecord /\ proc[p].work \in Migration!Database
    BY DEF ProcRecord
  <1> QED
    BY <1>1, <1>2, <1>3, MigrationAssumption DEF Migration!Processes

LEMMA ApplyKeeps ==
    ASSUME MigrationInv, NEW p \in Migration!Processes, Migration!Apply(p)
    PROVE  MigrationInv'
  <1> USE MigrationTypes
  <1> DEFINE v == Migration!NextMigration(p)
             w == [proc[p].work EXCEPT !.ledger = @ \cup {v}, !.objects = @ \cup {v}]
             k == [proc[p] EXCEPT !.work = w]
  <1>1. /\ proc[p].pc = "migrate" /\ Migration!Pending(p) # {}
        /\ UNCHANGED <<db, writer, open, wal, made, kills>>
    BY DEF Migration!Apply
  <1>2. /\ proc[p] \in ProcRecord /\ proc[p].work \in Migration!Database
        /\ writer = p /\ p \in Initializers /\ WorkHolds(p, proc[p], db) /\ Compiled[p] \in 1..3
    BY <1>1, TransactionTypes DEF Transaction
  <1>3. PICK n \in 0..Compiled[p] : proc[p].work.ledger = 1..n
    BY <1>1, <1>2 DEF WorkHolds
  <1>4. v = n + 1 /\ n < Compiled[p] /\ n \in Nat
    <2>1. n \in Nat /\ v = n + 1
      BY <1>2, <1>3, LedgerCount DEF Migration!NextMigration, Migration!Work
    <2>2. n # Compiled[p]
      BY <1>1, <1>3 DEF Migration!Pending, Migration!Work
    <2> QED
      BY <1>2, <2>1, <2>2
  <1>5. v \in 1..3 /\ n + 1 \in 0..Compiled[p] /\ (1..n) \cup {v} = 1..(n + 1)
    BY <1>2, <1>4
  <1>6. proc' = [proc EXCEPT ![p] = k]
    BY <1>2 DEF Migration!Apply, ProcRecord, Migration!Database
  <1> HIDE DEF v
  <1>7. /\ w \in Migration!Database /\ w.ledger = proc[p].work.ledger \cup {v} /\ w.objects = proc[p].work.objects \cup {v}
        /\ w.authority = proc[p].work.authority /\ w.id = proc[p].work.id
    BY <1>2, <1>5 DEF Migration!Database
  <1> HIDE DEF w
  <1>8. /\ k \in ProcRecord /\ k.pc = "migrate" /\ k.work = w /\ k.since = proc[p].since
        /\ k.accepted = proc[p].accepted /\ k.id = proc[p].id
    BY <1>1, <1>2, <1>7 DEF ProcRecord
  <1> HIDE DEF k
  <1>9. Grown(db, w) /\ w.objects = w.ledger /\ Migration!NotPartial(db)
    BY <1>2, <1>7 DEF WorkHolds, Grown
  <1>10. WorkHolds(p, k, db)
    BY <1>3, <1>5, <1>7, <1>8, <1>9 DEF WorkHolds
  <1> QED
    BY <1>1, <1>2, <1>6, <1>8, <1>10, InsideProc DEF Transaction

LEMMA FinishKeeps ==
    ASSUME MigrationInv, NEW p \in Migration!Processes,
           Migration!Applied(p) \/ Migration!BindAuthority(p) \/ Migration!VerifySchema(p)
    PROVE  MigrationInv'
  <1> USE MigrationTypes
  <1>1. /\ proc[p].pc \in {"migrate", "bind", "verify"}
        /\ UNCHANGED <<db, writer, open, wal, made, kills>>
    BY DEF Migration!Applied, Migration!BindAuthority, Migration!VerifySchema
  <1>2. /\ proc[p] \in ProcRecord /\ proc[p].work \in Migration!Database
        /\ writer = p /\ p \in Initializers /\ WorkHolds(p, proc[p], db) /\ Compiled[p] \in 1..3
    BY <1>1, TransactionTypes DEF Transaction
  <1>3. ASSUME NEW pc \in {"bind", "verify", "commit"}, Migration!To(p, pc),
               proc[p].work.ledger = 1..Compiled[p],
               pc # "bind" => proc[p].work.authority = KeyOf[p]
        PROVE  MigrationInv'
    <2> DEFINE k == [proc[p] EXCEPT !.pc = pc]
    <2>1. proc' = [proc EXCEPT ![p] = k]
      BY <1>3 DEF Migration!To
    <2>2. /\ k \in ProcRecord /\ k.pc = pc /\ k.work = proc[p].work /\ k.since = proc[p].since
          /\ k.accepted = proc[p].accepted /\ k.id = proc[p].id
      BY ONLY <1>2, <1>3 DEF ProcRecord
    <2> HIDE DEF k
    <2>3. WorkHolds(p, k, db)
      BY <1>2, <1>3, <2>2 DEF WorkHolds
    <2> QED
      BY <1>1, <1>2, <2>1, <2>2, <2>3, InsideProc DEF Transaction
  <1>4. CASE Migration!Applied(p)
    <2>1. proc[p].pc = "migrate" /\ 1..Compiled[p] \subseteq proc[p].work.ledger /\ Migration!To(p, "bind")
      BY <1>4 DEF Migration!Applied, Migration!Pending, Migration!Work
    <2>2. PICK n \in 0..Compiled[p] : proc[p].work.ledger = 1..n
      BY <1>2, <2>1 DEF WorkHolds
    <2>3. 1..n \subseteq 1..Compiled[p]
      BY <1>2, <2>2
    <2> QED
      BY <1>3, <2>1, <2>2, <2>3
  <1>5. CASE Migration!VerifySchema(p)
    <2>1. Migration!To(p, "commit") /\ proc[p].pc = "verify"
      BY <1>5 DEF Migration!VerifySchema
    <2> QED
      BY <1>2, <1>3, <2>1 DEF WorkHolds
  <1>6. CASE Migration!BindAuthority(p) /\ ~Migration!FirstBootstrap(p)
    <2>1. Migration!To(p, "verify") /\ proc[p].pc = "bind" /\ proc[p].work.authority = KeyOf[p]
      BY <1>6 DEF Migration!BindAuthority, Migration!Work
    <2> QED
      BY <1>2, <1>3, <2>1 DEF WorkHolds
  <1>7. CASE Migration!BindAuthority(p) /\ Migration!FirstBootstrap(p)
    <2> DEFINE w == [proc[p].work EXCEPT !.authority = KeyOf[p], !.id = p]
               k == [proc[p] EXCEPT !.pc = "verify", !.work = w]
    <2>1. proc[p].pc = "bind" /\ proc' = [proc EXCEPT ![p] = k]
      <3>1. proc' = [proc EXCEPT ![p].pc = "verify", ![p].work.authority = KeyOf[p], ![p].work.id = p]
        BY <1>7 DEF Migration!BindAuthority
      <3>2. proc[p].pc = "bind"
        BY <1>7 DEF Migration!BindAuthority
      <3>3. proc \in [Migration!Processes -> ProcRecord]
        OBVIOUS
      <3>4. proc' = [proc EXCEPT ![p] = k]
        BY ONLY <3>1, <3>3, <1>2, p \in Migration!Processes DEF ProcRecord, Migration!Database
      <3> QED
        BY <3>2, <3>4
    <2>2. /\ w \in Migration!Database /\ w.ledger = proc[p].work.ledger /\ w.objects = proc[p].work.objects
          /\ w.authority = KeyOf[p]
      BY <1>2 DEF Migration!Database
    <2> HIDE DEF w
    <2>3. /\ k \in ProcRecord /\ k.pc = "verify" /\ k.work = w /\ k.since = proc[p].since
          /\ k.accepted = proc[p].accepted /\ k.id = proc[p].id
      BY ONLY <1>2, <2>2 DEF ProcRecord
    <2> HIDE DEF k
    <2>4. Grown(db, w)
      BY <1>7, <2>2 DEF Grown, Migration!FirstBootstrap
    <2>5. WorkHolds(p, k, db)
      BY <1>2, <2>1, <2>2, <2>3, <2>4 DEF WorkHolds
    <2> QED
      BY <1>1, <1>2, <2>1, <2>3, <2>5, InsideProc DEF Transaction
  <1> QED
    BY <1>4, <1>5, <1>6, <1>7

LEMMA CommitKeeps ==
    ASSUME MigrationInv, NEW p \in Migration!Processes, Migration!Commit(p)
    PROVE  MigrationInv'
  <1> USE MigrationTypes
  <1> DEFINE w == proc[p].work
             k == [proc[p] EXCEPT !.pc = "close", !.accepted = TRUE, !.id = w.id]
  <1>1. /\ proc[p].pc = "commit" /\ db' = w /\ writer' = Unkeyed
        /\ proc' = [proc EXCEPT ![p] = k] /\ UNCHANGED <<open, wal, made, kills>>
    BY DEF Migration!Commit, Migration!Work
  <1>2. /\ proc[p] \in ProcRecord /\ w \in Migration!Database
        /\ writer = p /\ WorkHolds(p, proc[p], db)
    BY <1>1, TransactionTypes DEF Transaction
  <1>3. /\ k \in ProcRecord /\ k.pc = "close" /\ k.since = proc[p].since /\ k.id = w.id
    <2>1. w.id \in Migration!Processes \cup {Unkeyed}
      BY <1>2 DEF Migration!Database
    <2> QED
      BY ONLY <1>2, <2>1 DEF ProcRecord
  <1> HIDE DEF k
  <1>4. Sound(w) /\ Grown(db, w) /\ 1..Compiled[p] \subseteq w.ledger /\ w.authority = KeyOf[p]
    <2>1. 1 \in 1..Compiled[p]
      BY <1>1, TransactionTypes DEF Transaction
    <2> QED
      BY <1>1, <1>2, <2>1 DEF WorkHolds, Sound
  <1>5. ProcHolds(p, proc[p], db, writer, made)
    OBVIOUS
  <1>6. ProcHolds(p, k, db', writer', made')
    BY <1>1, <1>3, <1>4, <1>5 DEF ProcHolds
  <1>7. made \in Nat /\ made <= made /\ made' \in 0..MaxSidecars /\ kills' \in 0..MaxKills
    BY <1>1, MigrationAssumption
  <1> HIDE DEF w
  <1> QED
    BY <1>1, <1>2, <1>3, <1>4, <1>6, <1>7, OneProc

LEMMA ProbeKeeps ==
    ASSUME MigrationInv, NEW p \in Migration!Processes, Migration!Snapshot(p) \/ Migration!Answer(p)
    PROVE  MigrationInv'
  <1> USE MigrationTypes
  <1>1. proc[p] \in ProcRecord /\ ProcHolds(p, proc[p], db, writer, made) /\ made \in Nat /\ made <= made
    BY MigrationAssumption
  <1>2. CASE Migration!Snapshot(p)
    <2> DEFINE k == [proc[p] EXCEPT !.pc = "probe", !.work = db]
    <2>1. proc' = [proc EXCEPT ![p] = k] /\ Migration!UseSidecar(p) /\ UNCHANGED <<db, writer, kills>>
      BY <1>2 DEF Migration!Snapshot
    <2>2. db \in Migration!Database
      OBVIOUS
    <2>3. /\ k \in ProcRecord /\ k.pc = "probe" /\ k.work = db /\ k.since = proc[p].since
          /\ k.accepted = proc[p].accepted /\ k.id = proc[p].id
      BY ONLY <1>1, <2>2 DEF ProcRecord
    <2> HIDE DEF k
    <2>4. /\ open' \subseteq Migration!Processes /\ wal' \in Migration!Sidecars \cup {Migration!None}
          /\ made' \in 0..MaxSidecars /\ made <= made' /\ wal' \in {Migration!None, made'}
      BY <2>1, UsedSidecar
    <2>5. k.since <= made'
      <3>1. proc[p].since \in Nat /\ made' \in Nat
        BY <1>1, <2>4, MigrationAssumption DEF ProcRecord
      <3> QED
        BY <1>1, <2>3, <2>4, <3>1 DEF ProcHolds
    <2>6. ProcHolds(p, k, db', writer', made')
      BY <1>1, <2>1, <2>3, <2>5 DEF ProcHolds, Grown
    <2> QED
      BY <2>1, <2>3, <2>4, <2>6, OneProc
  <1>3. CASE Migration!Answer(p)
    <2> DEFINE ready == Migration!Ready(p)
               id == IF ready THEN proc[p].work.id ELSE Unkeyed
               k == [proc[p] EXCEPT !.pc = "close", !.accepted = ready, !.id = id]
    <2>1. /\ proc[p].pc = "probe" /\ proc' = [proc EXCEPT ![p] = k]
          /\ UNCHANGED <<db, writer, open, wal, made, kills>>
      BY <1>3 DEF Migration!Answer, Migration!Work
    <2>2. Grown(proc[p].work, db)
      BY <1>1, <2>1 DEF ProcHolds
    <2>3. ready => 1..Compiled[p] \subseteq db.ledger /\ db.authority = KeyOf[p] /\ db.id = id
      <3>1. ready => proc[p].work.ledger = 1..Compiled[p] /\ proc[p].work.authority = KeyOf[p]
        BY DEF Migration!Ready, Migration!Work
      <3>2. 1 \in 1..Compiled[p]
        BY MigrationAssumption DEF Migration!Processes
      <3> QED
        BY <2>2, <3>1, <3>2 DEF Grown
    <2>4. ready \in BOOLEAN /\ id \in Migration!Processes \cup {Unkeyed}
      BY <1>1 DEF Migration!Ready, ProcRecord, Migration!Database
    <2> HIDE DEF ready, id
    <2>5. k \in ProcRecord /\ k.pc = "close" /\ k.since = proc[p].since /\ k.id = id /\ k.accepted = ready
      BY ONLY <1>1, <2>4 DEF ProcRecord
    <2> HIDE DEF k
    <2>6. ProcHolds(p, k, db', writer', made')
      BY <1>1, <2>1, <2>3, <2>5 DEF ProcHolds
    <2>7. made' \in 0..MaxSidecars /\ made <= made' /\ kills' \in 0..MaxKills /\ db' \in Migration!Database /\ Sound(db')
      BY <1>1, <2>1
    <2> QED
      BY <2>1, <2>5, <2>6, <2>7, OneProc
  <1> QED
    BY <1>2, <1>3

LEMMA MigrationNext == MigrationInv /\ [Migration!Next]_migrationVars => MigrationInv'
  <1>1. ASSUME MigrationInv, UNCHANGED migrationVars PROVE MigrationInv'
    BY <1>1 DEF MigrationInv, migrationVars, Migration!TypeOK, ProcHolds, WorkHolds, Grown, Sound, Migration!NotPartial
  <1> QED
    BY <1>1, SidecarKeeps, ConnectionKeeps, PrepareKeeps, BeginKeeps, ApplyKeeps, FinishKeeps, CommitKeeps, ProbeKeeps
       DEF Migration!Next

LEMMA MigrationPromise ==
    MigrationInv => Migration!AcceptedIsWhole /\ Migration!OnlyAReplacementRefuses
  <1> SUFFICES ASSUME MigrationInv PROVE Migration!AcceptedIsWhole /\ Migration!OnlyAReplacementRefuses
    OBVIOUS
  <1>1. ASSUME NEW p \in Migration!Processes, proc[p].accepted
        PROVE  /\ db.ledger = db.objects /\ 1..Compiled[p] \subseteq db.ledger
               /\ db.authority = KeyOf[p] /\ db.id = proc[p].id
    <2>1. 1..Compiled[p] \subseteq db.ledger /\ db.authority = KeyOf[p] /\ db.id = proc[p].id
      BY <1>1 DEF MigrationInv, ProcHolds
    <2>2. 1 \in 1..Compiled[p]
      BY MigrationAssumption DEF Migration!Processes
    <2> QED
      BY <2>1, <2>2, MigrationTypes DEF Sound
  <1> QED
    BY <1>1 DEF Migration!AcceptedIsWhole, Migration!OnlyAReplacementRefuses, MigrationInv, ProcHolds

\* What a committed database turns into.
LEMMA MigrationSteps ==
    MigrationInv /\ [Migration!Next]_migrationVars =>
        (db' # db /\ db.exists =>
            /\ \E p \in Initializers : db'.ledger = 1..Compiled[p]
            /\ db'.objects = db'.ledger /\ db.ledger \subseteq db'.ledger
            /\ db.id # Unkeyed => db'.id = db.id /\ db'.authority = db.authority)
  <1> SUFFICES ASSUME MigrationInv, [Migration!Next]_migrationVars, db' # db, db.exists
               PROVE  /\ \E p \in Initializers : db'.ledger = 1..Compiled[p]
                      /\ db'.objects = db'.ledger /\ db.ledger \subseteq db'.ledger
                      /\ db.id # Unkeyed => db'.id = db.id /\ db'.authority = db.authority
    OBVIOUS
  <1>1. ASSUME NEW p \in Migration!Processes, Migration!PrepareFile(p) PROVE db' = db
    <2>1. db \in Migration!Database /\ db' = [db EXCEPT !.exists = TRUE]
      BY <1>1, MigrationTypes, SMTT(30) DEF Migration!PrepareFile
    <2> QED
      BY <2>1 DEF Migration!Database
  <1>2. PICK p \in Migration!Processes : Migration!Commit(p)
    BY <1>1, ZenonT(40) DEF Migration!Next, migrationVars, Migration!StartProbe, Migration!StatSidecar, Migration!OpenSidecar,
       Migration!FstatSidecar, Migration!Connect, Migration!Close, Migration!Begin, Migration!Apply, Migration!Applied,
       Migration!BindAuthority, Migration!VerifySchema, Migration!Fail, Migration!Snapshot, Migration!Answer, Migration!Kill
  <1>3. /\ p \in Initializers /\ proc[p].pc = "commit" /\ WorkHolds(p, proc[p], db)
        /\ db' = proc[p].work
    BY <1>2, TransactionTypes DEF Migration!Commit, Migration!Work, Transaction
  <1>4. db'.ledger = 1..Compiled[p] /\ db'.objects = db'.ledger /\ Grown(db, db') /\ Migration!NotPartial(db)
    BY <1>3 DEF WorkHolds
  <1>5. db.id # Unkeyed => db.ledger # {}
    BY <1>4, MigrationTypes DEF Sound, Migration!NotPartial
  <1> QED
    BY <1>3, <1>4, <1>5 DEF Grown

\* What callers are told is true: a process told the registry is ready has all of its
\* migrations, its key and its id, for ever, and is refused only for a sidecar made anew;
\* a failed body's exception reaches its caller, and a success was stored.
THEOREM AnswersHold == StoresSpec => []AnswersAreTrue
  <1> DEFINE Inv == (part = "migration" => MigrationInv) /\ (part = "records" => RecordsInv)
  <1>1. StoresInit => Inv
    BY MigrationInit, RecordsInit DEF StoresInit, StoresStart
  <1>2. Inv /\ [StoresNext]_storesVars => Inv'
    <2>1. [StoresNext]_storesVars => /\ part' = part
                                     /\ part = "migration" => [Migration!Next]_migrationVars
                                     /\ part = "records" => [Records!Next]_recordsVars
      BY DEF StoresNext, storesVars
    <2> QED
      BY <2>1, MigrationNext, RecordsNext
  <1>3. Inv => AnswersAreTrue
    BY MigrationPromise, RecordsPromise DEF AnswersAreTrue
  <1> QED
    BY <1>1, <1>2, <1>3, PTL DEF StoresSpec

-----------------------------------------------------------------------------
\* Ranks in a finite set of numbers, which a page is cut by: each of 1..Cardinality(S)
\* is the rank of one element, and greater elements have greater ranks.

UpTo(S, id) == {other \in S : other <= id}

LEMMA RankGrows ==
    ASSUME NEW S \in SUBSET Nat, IsFiniteSet(S), NEW a \in S, NEW b \in S, a < b
    PROVE  Cardinality(UpTo(S, a)) < Cardinality(UpTo(S, b))
  <1>1. UpTo(S, b) \in SUBSET S /\ UpTo(S, a) \in SUBSET UpTo(S, b)
    <2>1. ASSUME NEW x \in UpTo(S, a) PROVE x \in UpTo(S, b)
      <3>1. x \in S /\ x <= a /\ x \in Nat /\ a \in Nat /\ b \in Nat
        BY DEF UpTo
      <3> QED
        BY <3>1 DEF UpTo
    <2> QED
      BY <2>1 DEF UpTo
  <1>2. b \in UpTo(S, b) /\ b \notin UpTo(S, a)
    BY DEF UpTo
  <1>3. IsFiniteSet(UpTo(S, b))
    BY <1>1, FS_Subset
  <1>4. /\ IsFiniteSet(UpTo(S, a)) /\ Cardinality(UpTo(S, a)) <= Cardinality(UpTo(S, b))
        /\ Cardinality(UpTo(S, b)) = Cardinality(UpTo(S, a)) => UpTo(S, b) = UpTo(S, a)
    BY <1>1, <1>3, FS_Subset
  <1>5. Cardinality(UpTo(S, a)) \in Nat /\ Cardinality(UpTo(S, b)) \in Nat
    BY <1>3, <1>4, FS_CardinalityType
  <1>6. Cardinality(UpTo(S, b)) # Cardinality(UpTo(S, a))
    BY <1>2, <1>4
  <1> QED
    BY <1>4, <1>5, <1>6

LEMMA RankInBounds ==
    ASSUME NEW S \in SUBSET Nat, IsFiniteSet(S), NEW a \in S
    PROVE  Cardinality(UpTo(S, a)) \in 1..Cardinality(S)
  <1>1. UpTo(S, a) \in SUBSET S /\ a \in UpTo(S, a)
    BY DEF UpTo
  <1>2. IsFiniteSet(UpTo(S, a)) /\ Cardinality(UpTo(S, a)) <= Cardinality(S)
    BY <1>1, FS_Subset
  <1>3. Cardinality(UpTo(S, a)) \in Nat /\ Cardinality(S) \in Nat
    BY <1>2, FS_CardinalityType
  <1>4. Cardinality(UpTo(S, a)) # 0
    BY <1>1, <1>2, FS_EmptySet
  <1> QED
    BY <1>2, <1>3, <1>4

LEMMA RankIsTaken ==
    ASSUME NEW S \in SUBSET Nat, IsFiniteSet(S), NEW n \in 1..Cardinality(S)
    PROVE  \E id \in S : Cardinality(UpTo(S, id)) = n
  <1> DEFINE N == Cardinality(S)
             f == [id \in S |-> Cardinality(UpTo(S, id))]
  <1>1. N \in Nat
    BY FS_CardinalityType
  <1>2. IsFiniteSet(1..N) /\ Cardinality(1..N) = N
    BY <1>1, FS_Interval
  <1>3. f \in [S -> 1..N]
    BY RankInBounds
  <1>4. \A a, b \in S : f[a] = f[b] => a = b
    <2> SUFFICES ASSUME NEW a \in S, NEW b \in S, a # b PROVE f[a] # f[b]
      OBVIOUS
    <2>1. CASE a < b
      <3>1. Cardinality(UpTo(S, a)) < Cardinality(UpTo(S, b))
        BY <2>1, RankGrows
      <3>2. f[a] \in Nat /\ f[b] \in Nat /\ f[a] < f[b]
        BY <1>1, <1>3, <3>1
      <3> QED
        BY <3>2
    <2>2. CASE b < a
      <3>1. Cardinality(UpTo(S, b)) < Cardinality(UpTo(S, a))
        BY <2>2, RankGrows
      <3>2. f[a] \in Nat /\ f[b] \in Nat /\ f[b] < f[a]
        BY <1>1, <1>3, <3>1
      <3> QED
        BY <3>2
    <2>3. a \in Nat /\ b \in Nat
      OBVIOUS
    <2> QED
      BY <2>1, <2>2, <2>3
  <1>5. \A m \in 1..N : \E id \in S : f[id] = m
    <2> HIDE DEF f, N
    <2>1. f \in Injection(S, 1..N)
      BY <1>3, <1>4 DEF Injection, IsInjective
    <2>2. f \in Surjection(S, 1..N)
      BY <1>2, <2>1, FS_Injection DEF N
    <2> QED
      BY <2>2 DEF Surjection
  <1> QED
    BY <1>5

\* The n-th of a set.
Nth(S, n) == CHOOSE id \in S : Cardinality(UpTo(S, id)) = n

LEMMA NthHasItsRank ==
    ASSUME NEW S \in SUBSET Nat, IsFiniteSet(S), NEW n \in 1..Cardinality(S)
    PROVE  Nth(S, n) \in S /\ Cardinality(UpTo(S, Nth(S, n))) = n
  BY RankIsTaken DEF Nth

LEMMA NthGrows ==
    ASSUME NEW S \in SUBSET Nat, IsFiniteSet(S), NEW m \in 1..Cardinality(S), NEW n \in 1..Cardinality(S), m < n
    PROVE  Nth(S, m) < Nth(S, n)
  <1>1. /\ Nth(S, m) \in S /\ Cardinality(UpTo(S, Nth(S, m))) = m
        /\ Nth(S, n) \in S /\ Cardinality(UpTo(S, Nth(S, n))) = n
    BY NthHasItsRank
  <1>2. Nth(S, m) # Nth(S, n)
    BY <1>1
  <1>3. ~(Nth(S, n) < Nth(S, m))
    <2>1. ASSUME Nth(S, n) < Nth(S, m) PROVE n < m
      BY <1>1, <2>1, RankGrows
    <2> QED
      BY <2>1, FS_CardinalityType
  <1>4. Nth(S, m) \in Nat /\ Nth(S, n) \in Nat
    BY <1>1
  <1> QED
    BY <1>2, <1>3, <1>4

LEMMA RankTells ==
    ASSUME NEW S \in SUBSET Nat, IsFiniteSet(S), NEW id \in S
    PROVE  /\ Cardinality(UpTo(S, id)) \in 1..Cardinality(S)
           /\ Nth(S, Cardinality(UpTo(S, id))) = id
  <1> DEFINE n == Cardinality(UpTo(S, id))
             other == Nth(S, n)
  <1>1. n \in 1..Cardinality(S)
    BY RankInBounds
  <1>2. other \in S /\ Cardinality(UpTo(S, other)) = n
    BY <1>1, NthHasItsRank
  <1>3. n \in Nat /\ other \in Nat /\ id \in Nat
    <2>1. IsFiniteSet(UpTo(S, id))
      BY FS_Subset DEF UpTo
    <2> QED
      BY <1>2, <2>1, FS_CardinalityType
  <1>4. ~(other < id)
    <2>1. ASSUME other < id PROVE Cardinality(UpTo(S, other)) < n
      BY <1>2, <2>1, RankGrows
    <2> QED
      BY <1>2, <1>3, <2>1
  <1>5. ~(id < other)
    <2>1. ASSUME id < other PROVE n < Cardinality(UpTo(S, other))
      BY <1>2, <2>1, RankGrows
    <2> QED
      BY <1>2, <1>3, <2>1
  <1> QED
    BY <1>1, <1>3, <1>4, <1>5

-----------------------------------------------------------------------------
\* What is decided stays (DecisionsAreFinal): the outcomes' revisions.

\* A step leaves the outcomes, or adds one whose revision its batch does not have yet.
LEMMA OutcomesOf ==
    ASSUME ShadowInv, [Shadow!Next]_shadowVars
    PROVE  \/ outcomes' = outcomes
           \/ \E o \in Shadow!Outcome : Shadow!SameRevision(o) = {} /\ outcomes' = outcomes \cup {o}
  <1>1. CASE UNCHANGED shadowVars \/ Shadow!Create
    BY <1>1 DEF shadowVars, Shadow!Create
  <1>2. ASSUME NEW c \in Callers,
               \/ \E target \in Shadow!CampaignStates : Shadow!ReadState(c, target)
               \/ Shadow!WriteState(c) \/ Shadow!WriteSeal(c) \/ Shadow!Die(c) \/ Shadow!CheckSeal(c)
               \/ \E b \in Shadow!Batch : Shadow!BeginSeal(c, b)
               \/ \E o \in Shadow!Outcome : Shadow!CheckOutcome(c, o)
        PROVE  outcomes' = outcomes
    BY <1>2 DEF Shadow!ReadState, Shadow!WriteState, Shadow!WriteSeal, Shadow!Die, Shadow!CheckSeal,
                Shadow!BeginSeal, Shadow!CheckOutcome
  <1>3. ASSUME NEW c \in Callers, Shadow!WriteOutcome(c)
        PROVE  \/ outcomes' = outcomes
               \/ \E o \in Shadow!Outcome : Shadow!SameRevision(o) = {} /\ outcomes' = outcomes \cup {o}
    <2>1. call[c].pc = "append" /\ call[c].outcome \in Shadow!Outcome
      <3>1. call[c].pc = "append" /\ call[c] \in Shadow!Calls
        BY <1>3, ShadowTypes DEF Shadow!WriteOutcome
      <3> QED
        BY <3>1, CallTypes
    <2>2. \/ Shadow!SameRevision(call[c].outcome) = {} /\ outcomes' = outcomes \cup {call[c].outcome}
          \/ outcomes' = outcomes
      BY <1>3 DEF Shadow!WriteOutcome
    <2> QED
      BY <2>1, <2>2
  <1> QED
    BY <1>1, <1>2, <1>3 DEF Shadow!Next

\* The new outcome is observed under a lower revision than the first eligible one, and is
\* the first eligible one now, or that one stays.
LEMMA FirstStays ==
    ASSUME ShadowInv, [Shadow!Next]_shadowVars, NEW b \in batches, Shadow!FirstEligible(b) # {}
    PROVE  \/ Shadow!FirstEligible(b)' = Shadow!FirstEligible(b)
           \/ \E o \in outcomes' \ outcomes :
                 /\ Shadow!FirstEligible(b)' = {o}
                 /\ \A p \in Shadow!FirstEligible(b) : o.revision < p.revision
  <1>1. CASE outcomes' = outcomes
    BY <1>1 DEF Shadow!FirstEligible, Shadow!Observed, Shadow!History
  <1>2. ASSUME NEW o \in Shadow!Outcome, Shadow!SameRevision(o) = {}, outcomes' = outcomes \cup {o}
        PROVE  \/ Shadow!FirstEligible(b)' = Shadow!FirstEligible(b)
               \/ /\ o \notin outcomes /\ Shadow!FirstEligible(b)' = {o}
                  /\ \A p \in Shadow!FirstEligible(b) : o.revision < p.revision
    <2> DEFINE obs == Shadow!Observed(b)
               new == {p \in outcomes' : p.batch = b /\ p.seen \in Labels}
    <2>1. /\ o.revision \in Nat /\ \A p \in outcomes : p.revision \in Nat
      <3>1. ASSUME NEW q \in Shadow!Outcome PROVE q.revision \in Nat
        <4>1. q.revision \in 0..MaxRevision
          BY <3>1 DEF Shadow!Outcome
        <4> QED
          BY <4>1, CampaignAssumption
      <3>2. outcomes \subseteq Shadow!Outcome
        BY ShadowTypes
      <3> QED
        BY <3>1, <3>2
    <2>2. o \notin outcomes
      BY <1>2 DEF Shadow!SameRevision, Shadow!History
    <2>3. /\ Shadow!FirstEligible(b) = {p \in obs : \A q \in obs : p.revision <= q.revision}
          /\ Shadow!FirstEligible(b)' = {p \in new : \A q \in new : p.revision <= q.revision}
      BY DEF Shadow!FirstEligible, Shadow!Observed, Shadow!History
    <2>4. new = obs \/ (o.batch = b /\ new = obs \cup {o})
      BY <1>2 DEF Shadow!Observed, Shadow!History
    <2>5. \A p \in obs : p.revision \in Nat /\ (o.batch = b => p.revision # o.revision)
      BY <1>2, <2>1 DEF Shadow!Observed, Shadow!History, Shadow!SameRevision
    <2> HIDE DEF obs, new
    <2>6. PICK first \in obs : \A q \in obs : first.revision <= q.revision
      BY <2>3
    <2>7. CASE new = obs
      BY <2>3, <2>7
    <2>8. CASE o.batch = b /\ new = obs \cup {o} /\ o.revision < first.revision
      <3>1. \A p \in obs : o.revision < p.revision /\ ~(p.revision <= o.revision)
        BY <2>1, <2>5, <2>6, <2>8
      <3>2. Shadow!FirstEligible(b)' = {o}
        <4>1. o \in new /\ \A q \in new : o.revision <= q.revision
          BY <2>1, <2>5, <2>8, <3>1
        <4>2. ASSUME NEW p \in new, \A q \in new : p.revision <= q.revision PROVE p = o
          BY <2>8, <3>1, <4>2
        <4> QED
          BY <2>3, <4>1, <4>2
      <3> QED
        BY <2>2, <2>3, <3>1, <3>2
    <2>9. CASE o.batch = b /\ new = obs \cup {o} /\ ~(o.revision < first.revision)
      <3>1. first.revision < o.revision
        BY <2>1, <2>5, <2>6, <2>9
      <3>2. \A p \in obs : (\A q \in obs : p.revision <= q.revision) => p.revision <= o.revision
        BY <2>1, <2>5, <2>6, <3>1
      <3>3. ~(o.revision <= first.revision) /\ first \in new
        BY <2>1, <2>5, <2>6, <2>9, <3>1
      <3> QED
        BY <2>3, <2>9, <3>2, <3>3
    <2> QED
      BY <2>4, <2>7, <2>8, <2>9
  <1> QED
    BY <1>1, <1>2, OutcomesOf

LEMMA TerminalStays == [Shadow!Next]_shadowVars => (state \in Shadow!Terminal => state' = state)
  <1> SUFFICES ASSUME [Shadow!Next]_shadowVars, state \in Shadow!Terminal PROVE state' = state
    OBVIOUS
  <1>1. state # "none" /\ ~Shadow!MayLeave
    BY DEF Shadow!Terminal, Shadow!MayLeave
  <1> QED
    BY <1>1 DEF Shadow!Next, shadowVars, Shadow!Create, Shadow!ReadState, Shadow!WriteState, Shadow!BeginSeal,
                Shadow!CheckSeal, Shadow!WriteSeal, Shadow!CheckOutcome, Shadow!WriteOutcome, Shadow!Die

-----------------------------------------------------------------------------
\* What is decided stays (DecisionsAreFinal): a root's creator.

Creator(r) == \E h \in Handles : \E k \in {handle[h], handle'[h]} : k.root = r /\ k.made

RootAlone(r) == /\ roots[r].marker = 1 => roots'[r].marker = 1
                /\ roots'[r] # roots[r] => Creator(r)

LEMMA OnlyOneRoot ==
    ASSUME IdentityInv, NEW q \in Identity!Roots, NEW m, roots' = [roots EXCEPT ![q] = m],
           roots[q].marker = 1 => m.marker = 1, Creator(q), NEW r \in Identity!Roots
    PROVE  RootAlone(r)
  <1>1. roots \in [Identity!Roots -> RootRecord]
    BY IdentityTypes
  <1>2. CASE r = q
    BY <1>1, <1>2 DEF RootAlone
  <1>3. CASE r # q
    BY <1>1, <1>3 DEF RootAlone
  <1> QED
    BY <1>2, <1>3

\* A creation under way: what it writes next keeps a marker, and it writes its own root.
Creating(h, m) ==
    /\ handle[h].pc \in {"dirs", "temporary", "link", "clean"}
    /\ handle[h].made
    /\ roots[handle[h].root].marker = 1 => m.marker = 1
    /\ roots' = [roots EXCEPT ![handle[h].root] = m]

LEMMA CreatorMoves ==
    ASSUME IdentityInv, NEW h \in Handles, NEW m, Creating(h, m), NEW r \in Identity!Roots
    PROVE  RootAlone(r)
  <1>1. handle[h].root \in Identity!Roots
    BY DEF Creating, IdentityInv, HandleHolds
  <1>2. Creator(handle[h].root)
    BY DEF Creating, Creator
  <1> QED
    BY <1>1, <1>2, OnlyOneRoot DEF Creating

LEMMA CreatorAlone ==
    ASSUME IdentityInv, Identity!Next \/ UNCHANGED identityVars, NEW r \in Identity!Roots
    PROVE  RootAlone(r)
  <1>3. ASSUME NEW h \in Handles, handle[h].pc \in {"dirs", "temporary", "link", "clean"}
        PROVE  /\ handle[h].root \in Identity!Roots
               /\ roots[handle[h].root] \in RootRecord
               /\ handle[h].pc \in {"temporary", "link", "clean"} => handle[h].made
    BY <1>3, IdentityTypes DEF IdentityInv, HandleHolds
  <1>4. ASSUME NEW h \in Handles, Identity!OpenDirectories(h), roots' # roots PROVE RootAlone(r)
    <2> DEFINE m == [roots[handle[h].root] EXCEPT !.staging = TRUE, !.objects = TRUE]
    <2>1. handle[h].pc = "dirs" /\ handle[h].made
          /\ roots' = [roots EXCEPT ![handle[h].root].staging = TRUE, ![handle[h].root].objects = TRUE]
      BY <1>4 DEF Identity!OpenDirectories
    <2>2. handle[h].root \in Identity!Roots /\ roots[handle[h].root] \in RootRecord
      BY <1>3, <2>1
    <2>3. roots' = [roots EXCEPT ![handle[h].root] = m]
      BY <2>1, <2>2, IdentityTypes
    <2>4. m.marker = roots[handle[h].root].marker
      BY <2>2 DEF RootRecord
    <2> HIDE DEF m
    <2>5. Creating(h, m)
      BY <2>1, <2>3, <2>4 DEF Creating
    <2> QED
      BY <2>5, CreatorMoves
  <1>5. ASSUME NEW h \in Handles, Identity!StageMarker(h) PROVE RootAlone(r)
    <2> DEFINE m == [roots[handle[h].root] EXCEPT !.temporary = TRUE]
    <2>1. handle[h].pc = "temporary" /\ roots' = [roots EXCEPT ![handle[h].root] = m]
      BY <1>5, <1>3 DEF Identity!StageMarker
    <2>2. handle[h].made /\ m.marker = roots[handle[h].root].marker
      BY <1>3, <2>1 DEF RootRecord
    <2> HIDE DEF m
    <2>3. Creating(h, m)
      BY <2>1, <2>2 DEF Creating
    <2> QED
      BY <2>3, CreatorMoves
  <1>6. ASSUME NEW h \in Handles, Identity!LinkMarker(h) PROVE RootAlone(r)
    <2> DEFINE m == [roots[handle[h].root] EXCEPT !.marker = 2]
    <2>1. handle[h].pc = "link" /\ roots[handle[h].root].marker = 0 /\ roots' = [roots EXCEPT ![handle[h].root] = m]
      BY <1>6 DEF Identity!LinkMarker
    <2>2. handle[h].made /\ roots[handle[h].root].marker # 1
      BY <1>3, <2>1
    <2> HIDE DEF m
    <2>3. Creating(h, m)
      BY <2>1, <2>2 DEF Creating
    <2> QED
      BY <2>3, CreatorMoves
  <1>7. ASSUME NEW h \in Handles, Identity!CleanMarker(h) PROVE RootAlone(r)
    <2> DEFINE m == [roots[handle[h].root] EXCEPT !.temporary = FALSE, !.marker = 1]
    <2>1. handle[h].pc = "clean" /\ roots' = [roots EXCEPT ![handle[h].root] = m]
      BY <1>7 DEF Identity!CleanMarker
    <2>2. handle[h].made /\ roots[handle[h].root] \in RootRecord
      BY <1>3, <2>1
    <2>3. m.marker = 1
      BY <2>2 DEF RootRecord
    <2> HIDE DEF m
    <2>4. Creating(h, m)
      BY <2>1, <2>2, <2>3 DEF Creating
    <2> QED
      BY <2>4, CreatorMoves
  <1>8. ASSUME NEW h \in Handles, Identity!Abandon(h), roots' # roots PROVE RootAlone(r)
    <2> DEFINE x == roots[handle[h].root]
               n == IF x.marker = 2 THEN 1 ELSE x.marker
               m == [x EXCEPT !.temporary = FALSE, !.marker = n]
    <2>1. handle[h].pc \in {"link", "clean"} /\ roots' = [roots EXCEPT ![handle[h].root].temporary = FALSE,
                ![handle[h].root].marker = IF @ = 2 THEN 1 ELSE @]
      BY <1>8 DEF Identity!Abandon
    <2>2. x \in RootRecord /\ handle[h].made /\ handle[h].root \in Identity!Roots
      BY <1>3, <2>1
    <2>3. roots' = [roots EXCEPT ![handle[h].root] = m]
      BY <2>1, <2>2, IdentityTypes DEF RootRecord
    <2>4. x.marker = 1 => n = 1
      OBVIOUS
    <2> HIDE DEF n
    <2>5. m.marker = n
      BY <2>2 DEF RootRecord
    <2> HIDE DEF m
    <2>6. Creating(h, m)
      BY <2>1, <2>2, <2>3, <2>4, <2>5 DEF Creating
    <2> QED
      BY <2>6, CreatorMoves
  <1>9. CASE roots' = roots
    BY <1>9 DEF RootAlone
  <1>10. ASSUME NEW h \in Handles, Identity!OpenRoot(h), roots' # roots PROVE RootAlone(r)
    <2>1. PICK q \in Identity!Roots :
                /\ roots' = [roots EXCEPT ![q].made = TRUE]
                /\ handle' = [handle EXCEPT ![h] = [Identity!Unbound EXCEPT !.pc = "dirs", !.root = q, !.made = TRUE]]
      BY <1>10 DEF Identity!OpenRoot
    <2> DEFINE m == [roots[q] EXCEPT !.made = TRUE]
    <2>2. m.marker = roots[q].marker /\ roots' = [roots EXCEPT ![q] = m]
      BY <2>1, IdentityTypes DEF RootRecord
    <2>3. handle'[h].root = q /\ handle'[h].made
      BY <2>1, IdentityTypes DEF Identity!Unbound
    <2>4. Creator(q)
      BY <2>3 DEF Creator
    <2> HIDE DEF m
    <2> QED
      BY <2>2, <2>4, OnlyOneRoot
  <1>11. \/ roots' = roots
         \/ \E h \in Handles : \/ Identity!OpenRoot(h) \/ Identity!OpenDirectories(h) \/ Identity!StageMarker(h)
                               \/ Identity!LinkMarker(h) \/ Identity!CleanMarker(h) \/ Identity!Abandon(h)
    BY DEF Identity!Next, identityVars, Identity!Bind, Identity!Refuse, Identity!Operate, Identity!Restart,
           Identity!BindRegistry, Identity!StartProbe, Identity!EndProbe, Identity!ReadManifest, Identity!Remount,
           Identity!Rest, Identity!vars
  <1>12. CASE roots' # roots
    <2>1. PICK h \in Handles : \/ Identity!OpenRoot(h) \/ Identity!OpenDirectories(h) \/ Identity!StageMarker(h)
                               \/ Identity!LinkMarker(h) \/ Identity!CleanMarker(h) \/ Identity!Abandon(h)
      BY <1>11, <1>12
    <2> QED
      BY <1>4, <1>5, <1>6, <1>7, <1>8, <1>10, <1>12, <2>1
  <1> QED
    BY <1>9, <1>12

-----------------------------------------------------------------------------
\* Pages of the registry (EvidenceReads): a page goes on where the one before it ended.

\* A set before another: the ranks of the second go on where those of the first end.
LEMMA RanksGoOn ==
    ASSUME NEW A \in SUBSET Nat, IsFiniteSet(A), NEW B \in SUBSET Nat, IsFiniteSet(B),
           \A a \in A, b \in B : a < b
    PROVE  /\ IsFiniteSet(A \cup B) /\ A \cup B \in SUBSET Nat
           /\ Cardinality(A) \in Nat /\ Cardinality(B) \in Nat
           /\ Cardinality(A \cup B) = Cardinality(A) + Cardinality(B)
           /\ \A i \in 1..Cardinality(A) : Nth(A \cup B, i) = Nth(A, i)
           /\ \A i \in 1..Cardinality(B) : Nth(A \cup B, Cardinality(A) + i) = Nth(B, i)
  <1> DEFINE U == A \cup B
  <1>1. Cardinality(A) \in Nat /\ Cardinality(B) \in Nat
    BY FS_CardinalityType
  <1>2. IsFiniteSet(U) /\ U \in SUBSET Nat
    BY FS_Union
  <1>3. Cardinality(U) = Cardinality(A) + Cardinality(B)
    <2>1. A \cap B = {}
      BY SMT
    <2>2. Cardinality(A \cap B) = 0
      BY <2>1, FS_EmptySet
    <2>3. Cardinality(A \cup B) = Cardinality(A) + Cardinality(B) - Cardinality(A \cap B)
      BY FS_Union
    <2> QED
      BY <1>1, <2>2, <2>3
  <1>4. ASSUME NEW a \in A PROVE UpTo(U, a) = UpTo(A, a)
    <2>1. \A b \in B : ~(b <= a)
      OBVIOUS
    <2> QED
      BY <2>1 DEF UpTo
  <1>5. ASSUME NEW b \in B
        PROVE  Cardinality(UpTo(U, b)) = Cardinality(A) + Cardinality(UpTo(B, b))
    <2> DEFINE V == UpTo(B, b)
    <2>1. V \in SUBSET B /\ IsFiniteSet(V)
      BY FS_Subset DEF UpTo
    <2>2. UpTo(U, b) = A \cup V
      <3>1. \A a \in A : a <= b
        OBVIOUS
      <3> QED
        BY <3>1 DEF UpTo
    <2>3. A \cap V = {}
      <3>1. \A a \in A : a \notin B
        <4>1. \A a \in A, c \in B : a < c /\ a \in Nat /\ c \in Nat
          OBVIOUS
        <4> QED
          BY <4>1
      <3> QED
        BY <2>1, <3>1
    <2>4. Cardinality(A \cap V) = 0 /\ Cardinality(V) \in Nat
      BY <2>1, <2>3, FS_EmptySet, FS_CardinalityType
    <2> HIDE DEF V
    <2>5. Cardinality(A \cup V) = Cardinality(A) + Cardinality(V) - Cardinality(A \cap V)
      BY <2>1, FS_Union
    <2>6. Cardinality(A \cup V) = Cardinality(A) + Cardinality(V)
      BY <1>1, <2>4, <2>5
    <2> QED
      BY <2>2, <2>6 DEF V
  <1>6. ASSUME NEW i \in 1..Cardinality(A) PROVE Nth(U, i) = Nth(A, i)
    <2>1. Nth(A, i) \in A /\ Cardinality(UpTo(A, Nth(A, i))) = i
      BY NthHasItsRank
    <2>2. Nth(A, i) \in U /\ Cardinality(UpTo(U, Nth(A, i))) = i
      BY <1>4, <2>1
    <2> HIDE DEF U
    <2> QED
      BY <1>2, <2>2, RankTells
  <1>7. ASSUME NEW i \in 1..Cardinality(B) PROVE Nth(U, Cardinality(A) + i) = Nth(B, i)
    <2>1. Nth(B, i) \in B /\ Cardinality(UpTo(B, Nth(B, i))) = i
      BY NthHasItsRank
    <2>2. Nth(B, i) \in U /\ Cardinality(UpTo(U, Nth(B, i))) = Cardinality(A) + i
      BY <1>5, <2>1
    <2> HIDE DEF U
    <2> QED
      BY <1>2, <2>2, RankTells
  <1> HIDE DEF U
  <1>8. U = A \cup B
    BY DEF U
  <1> QED
    BY <1>1, <1>2, <1>3, <1>6, <1>7, <1>8

\* What is behind the k-th of a set.
Behind(S, k) == IF k = 0 THEN S ELSE {n \in S : n > Nth(S, k)}

LEMMA BehindGoesOn ==
    ASSUME NEW S \in SUBSET Nat, IsFiniteSet(S), NEW k \in 0..Cardinality(S)
    PROVE  /\ Cardinality(S) \in Nat
           /\ Behind(S, k) \in SUBSET Nat /\ IsFiniteSet(Behind(S, k))
           /\ Cardinality(Behind(S, k)) = Cardinality(S) - k
           /\ \A i \in 1..(Cardinality(S) - k) : Nth(Behind(S, k), i) = Nth(S, k + i)
  <1>1. Cardinality(S) \in Nat /\ k \in Nat
    BY FS_CardinalityType
  <1>2. CASE k = 0
    BY <1>1, <1>2 DEF Behind
  <1>3. CASE k # 0
    <2> DEFINE n == Nth(S, k)
               A == UpTo(S, n)
               B == Behind(S, k)
    <2>1. n \in S /\ n \in Nat /\ Cardinality(A) = k
      <3>1. k \in 1..Cardinality(S)
        BY <1>1, <1>3
      <3> QED
        BY <3>1, NthHasItsRank
    <2>2. A \in SUBSET S /\ B \in SUBSET S /\ \A a \in A : a <= n
      BY <1>3 DEF Behind, UpTo
    <2>3. \A b \in B : b > n
      BY <1>3 DEF Behind
    <2>4. A \cup B = S
      <3>1. ASSUME NEW x \in S PROVE x <= n \/ x > n
        BY <2>1
      <3> QED
        BY <1>3, <3>1 DEF Behind, UpTo
    <2>5. IsFiniteSet(A) /\ IsFiniteSet(B)
      BY <2>2, FS_Subset
    <2> HIDE DEF n, A, B
    <2>6. \A a \in A, b \in B : a < b
      BY <2>1, <2>2, <2>3
    <2>7. A \in SUBSET Nat /\ B \in SUBSET Nat
      BY <2>2
    <2>8. /\ Cardinality(A) \in Nat /\ Cardinality(B) \in Nat
          /\ Cardinality(A \cup B) = Cardinality(A) + Cardinality(B)
          /\ \A i \in 1..Cardinality(B) : Nth(A \cup B, Cardinality(A) + i) = Nth(B, i)
      BY <2>5, <2>6, <2>7, RanksGoOn
    <2>9. Cardinality(B) = Cardinality(S) - k
      BY <1>1, <2>1, <2>4, <2>8
    <2> QED
      BY <1>1, <2>1, <2>4, <2>5, <2>7, <2>8, <2>9 DEF B
  <1> QED
    BY <1>2, <1>3

LEMMA InOrderIs ==
    ASSUME NEW S \in SUBSET Nat, IsFiniteSet(S)
    PROVE  /\ Cardinality(S) \in Nat
           /\ Reads!InOrder(S) \in Seq(Nat) /\ Len(Reads!InOrder(S)) = Cardinality(S)
           /\ \A i \in 1..Cardinality(S) : Reads!InOrder(S)[i] = Nth(S, i)
  <1>1. Cardinality(S) \in Nat
    BY FS_CardinalityType
  <1>2. \A T : Reads!Cardinality(T) = Cardinality(T)
    BY DEF Reads!Cardinality, Cardinality, Reads!IsFiniteSet, IsFiniteSet
  <1> DEFINE N == Cardinality(S)
             At(i) == CHOOSE n \in S : Cardinality({m \in S : m <= n}) = i
  <1>3. Reads!InOrder(S) = [i \in 1..N |-> At(i)]
    <2>1. Reads!InOrder(S) = [i \in 1..Reads!Cardinality(S) |->
                               CHOOSE n \in S : Reads!Cardinality({m \in S : m <= n}) = i]
      BY Zenon DEF Reads!InOrder
    <2>2. \A n : Reads!Cardinality({m \in S : m <= n}) = Cardinality({m \in S : m <= n})
      BY <1>2
    <2>3. \A i : (CHOOSE n \in S : Reads!Cardinality({m \in S : m <= n}) = i) = At(i)
      BY <2>2, SMTT(30)
    <2>4. Reads!Cardinality(S) = N
      BY <1>2
    <2> HIDE DEF N, At
    <2> QED
      BY <2>1, <2>3, <2>4
  <1>4. ASSUME NEW i \in 1..N PROVE At(i) = Nth(S, i)
    BY Zenon DEF Nth, UpTo
  <1> HIDE DEF N, At
  <1>5. \A i \in 1..N : Nth(S, i) \in Nat
    BY NthHasItsRank DEF N
  <1>6. Reads!InOrder(S) \in [1..N -> Nat]
    BY <1>3, <1>4, <1>5
  <1>7. Reads!InOrder(S) \in Seq(Nat) /\ Len(Reads!InOrder(S)) = N
    BY <1>1, <1>6, LenProperties DEF N
  <1> QED
    BY <1>1, <1>3, <1>4, <1>7 DEF N

ReadItem == Nat \cup [at : Nat, run : Reads!Run \cup {Reads!Gone}]

ReadingRecord ==
    [kind : {"none", "jobs", "events", "runs", "artifacts"},
     filter : States \cup Filters \cup Roles \cup 1..MaxJobs \cup {All},
     source : RunIds \cup {All, "registry", "legacy"},
     started : BOOLEAN, snapshot : Nat, seen : Nat, after : Nat, print : Seq(Reads!Run \cup {Reads!Gone}),
     got : Seq(ReadItem), done : BOOLEAN]

\* The first k of a sequence.
Taken(e, k) == [i \in 1..k |-> e[i]]

\* The v after them, and the items at the positions of a page.
Following(e, k, v) == [i \in 1..v |-> e[k + i]]
ItemsOf(item, page) == [i \in 1..Len(page) |-> item[page[i]]]

\* How many a page shows.
Shown(all) == IF Len(all) < PageSize THEN Len(all) ELSE PageSize

LEMMA TakenIs ==
    ASSUME NEW e \in Seq(ReadItem), NEW k \in 0..Len(e)
    PROVE  Taken(e, k) \in Seq(ReadItem) /\ Len(Taken(e, k)) = k /\ k \in Nat
  <1>1. e \in [1..Len(e) -> ReadItem] /\ Len(e) \in Nat
    BY LenProperties
  <1>2. Taken(e, k) \in [1..k -> ReadItem]
    BY <1>1 DEF Taken
  <1> QED
    BY <1>1, <1>2, LenProperties

LEMMA TakenGrows ==
    ASSUME NEW e \in Seq(ReadItem), NEW k \in Nat, NEW v \in Nat, k + v <= Len(e)
    PROVE  Taken(e, k) \o Following(e, k, v) = Taken(e, k + v)
  <1> DEFINE a == Taken(e, k)
             b == Following(e, k, v)
             c == Taken(e, k + v)
  <1>1. e \in [1..Len(e) -> ReadItem] /\ Len(e) \in Nat
    BY LenProperties
  <1>2. a \in Seq(ReadItem) /\ Len(a) = k /\ c \in Seq(ReadItem) /\ Len(c) = k + v
    BY <1>1, TakenIs
  <1>3. b \in [1..v -> ReadItem]
    BY <1>1 DEF Following
  <1>4. b \in Seq(ReadItem) /\ Len(b) = v
    BY <1>3, LenProperties
  <1>5. \A i \in 1..k : a[i] = e[i]
    BY DEF Taken
  <1>6. \A i \in 1..v : b[i] = e[k + i]
    BY DEF Following
  <1>7. \A i \in 1..(k + v) : c[i] = e[i]
    BY DEF Taken
  <1> HIDE DEF a, b, c
  <1>8. /\ a \o b \in Seq(ReadItem) /\ Len(a \o b) = k + v
        /\ \A i \in 1..(k + v) : (a \o b)[i] = IF i <= k THEN a[i] ELSE b[i - k]
    BY <1>2, <1>4, ConcatProperties
  <1>9. ASSUME NEW i \in 1..(k + v) PROVE (a \o b)[i] = c[i]
    <2>1. CASE i <= k
      BY <1>5, <1>7, <1>8, <2>1
    <2>2. CASE i > k
      <3>1. i - k \in 1..v /\ k + (i - k) = i
        BY <2>2
      <3> QED
        BY <1>6, <1>7, <1>8, <2>2, <3>1
    <2>3. i <= k \/ i > k
      OBVIOUS
    <2> QED
      BY <2>1, <2>2, <2>3
  <1>10. a \o b = c
    BY <1>2, <1>8, <1>9, SeqEqual
  <1> QED
    BY <1>10 DEF a, b, c

\* A listing of the positions F, with the items e, has returned the first of them, all
\* if it is done, and has its cursor on the last.
Paged(F, e, r) ==
    /\ IsFiniteSet(F) /\ F \in SUBSET (Nat \ {0})
    /\ e \in Seq(ReadItem) /\ Len(e) = Cardinality(F)
    /\ \E k \in 0..Len(e) : /\ r.got = Taken(e, k)
                            /\ IF r.done THEN k = Len(e) ELSE k >= 1 /\ r.after = Nth(F, k)

\* A page of what is behind the first k.
LEMMA PageTaken ==
    ASSUME NEW F \in SUBSET Nat, IsFiniteSet(F), NEW e \in Seq(ReadItem), Len(e) = Cardinality(F), NEW item,
           \A i \in 1..Len(e) : item[Nth(F, i)] = e[i], NEW k \in 0..Len(e),
           NEW all, all = Reads!InOrder(Behind(F, k)), NEW page, page = Reads!Visible(all)
    PROVE  /\ all \in Seq(Nat) /\ Len(all) \in Nat
           /\ Shown(all) \in Nat /\ k + Shown(all) <= Len(e)
           /\ ItemsOf(item, page) = Following(e, k, Shown(all))
           /\ Len(all) > PageSize => Shown(all) >= 1 /\ all[PageSize] = Nth(F, k + Shown(all))
           /\ Len(all) <= PageSize => k + Shown(all) = Len(e)
  <1> DEFINE n == Len(all)
             v == IF n < PageSize THEN n ELSE PageSize
  <1>1. PageSize \in Nat \ {0} /\ Len(e) \in Nat
    BY ReadsAssumption, LenProperties
  <1>2. /\ Behind(F, k) \in SUBSET Nat /\ IsFiniteSet(Behind(F, k))
        /\ Cardinality(Behind(F, k)) = Len(e) - k
        /\ \A i \in 1..(Len(e) - k) : Nth(Behind(F, k), i) = Nth(F, k + i)
    BY BehindGoesOn
  <1>3. /\ all \in Seq(Nat) /\ n = Len(e) - k
        /\ \A i \in 1..(Len(e) - k) : all[i] = Nth(F, k + i)
    BY <1>2, InOrderIs
  <1>4. all \in [1..n -> Nat] /\ n \in Nat
    BY <1>3, LenProperties
  <1>5. v \in Nat /\ v <= n /\ k + v <= Len(e)
    BY <1>1, <1>3, <1>4
  <1>6. page = SubSeq(all, 1, v)
    BY DEF Reads!Visible
  <1> HIDE DEF n, v
  <1>7. \A i \in 1..v : all[i] \in Nat
    BY <1>4, <1>5
  <1>8. Len(page) = v /\ \A i \in 1..v : page[i] = all[i]
    <2>1. /\ Len(SubSeq(all, 1, v)) = IF 1 <= v THEN v - 1 + 1 ELSE 0
          /\ \A i \in 1..(v - 1 + 1) : SubSeq(all, 1, v)[i] = all[1 + i - 1]
      BY <1>5, <1>7, SubSeqProperties
    <2>2. v - 1 + 1 = v /\ \A i \in 1..v : 1 + i - 1 = i
      BY <1>5
    <2>3. Len(page) = v
      BY <1>5, <1>6, <2>1
    <2> QED
      BY <1>6, <2>1, <2>2, <2>3
  <1>9. ASSUME NEW i \in 1..v PROVE item[page[i]] = e[k + i]
    <2>1. i \in 1..(Len(e) - k) /\ k + i \in 1..Len(e)
      BY <1>3, <1>5
    <2>2. page[i] = Nth(F, k + i)
      BY <1>3, <1>8, <2>1
    <2>3. item[Nth(F, k + i)] = e[k + i]
      BY <2>1
    <2> QED
      BY <2>2, <2>3
  <1>10. ItemsOf(item, page) = Following(e, k, v)
    BY <1>8, <1>9 DEF ItemsOf, Following
  <1>11. ASSUME n > PageSize PROVE v >= 1 /\ all[PageSize] = Nth(F, k + v)
    <2>1. v = PageSize /\ v >= 1 /\ v \in 1..(Len(e) - k)
      BY <1>1, <1>3, <1>4, <1>11 DEF v
    <2> QED
      BY <1>3, <2>1
  <1>12. ASSUME n <= PageSize PROVE k + v = Len(e)
    <2>1. v = n
      BY <1>1, <1>4, <1>12 DEF v
    <2> QED
      BY <1>1, <1>3, <2>1
  <1> QED
    <2>1. v = Shown(all)
      BY DEF v, n, Shown
    <2> QED
      BY <1>3, <1>4, <1>5, <1>10, <1>11, <1>12, <2>1 DEF n

LEMMA TurnKeeps ==
    ASSUME reading \in ReadingRecord, ~reading.done,
           NEW F \in SUBSET (Nat \ {0}), IsFiniteSet(F), NEW e \in Seq(ReadItem), Len(e) = Cardinality(F), NEW item,
           \A i \in 1..Len(e) : item[Nth(F, i)] = e[i],
           NEW k \in 0..Len(e), reading.got = Taken(e, k),
           NEW all, all = Reads!InOrder(Behind(F, k)),
           NEW mark \in Nat, NEW seen \in Nat, NEW print \in Seq(Reads!Run \cup {Reads!Gone}),
           Reads!Turn(all, item, mark, seen, print)
    PROVE  /\ reading' \in ReadingRecord /\ Paged(F, e, reading') /\ reading'.started
           /\ reading'.snapshot = mark /\ reading'.seen = seen /\ reading'.print = print
           /\ reading'.kind = reading.kind /\ reading'.filter = reading.filter /\ reading'.source = reading.source
  <1>0. PICK page : page = Reads!Visible(all)
    OBVIOUS
  <1> DEFINE new == ItemsOf(item, page)
  <1>1. all \in Seq(Nat) /\ Len(all) \in Nat
    BY PageTaken
  <1>2. PICK v \in Nat : /\ k + v <= Len(e)
                         /\ new = Following(e, k, v)
                         /\ Len(all) > PageSize => v >= 1 /\ all[PageSize] = Nth(F, k + v)
                         /\ Len(all) <= PageSize => k + v = Len(e)
    <2> DEFINE shown == Shown(all)
    <2>1. F \in SUBSET Nat
      OBVIOUS
    <2>2. /\ shown \in Nat /\ k + shown <= Len(e)
          /\ Len(all) > PageSize => shown >= 1 /\ all[PageSize] = Nth(F, k + shown)
          /\ Len(all) <= PageSize => k + shown = Len(e)
      BY <2>1, PageTaken
    <2>3. new = Following(e, k, shown)
      BY <1>0, <2>1, PageTaken
    <2> HIDE DEF shown, new
    <2> QED
      BY <2>2, <2>3
  <1>3. PICK got : got = reading.got \o new
    OBVIOUS
  <1>4. PICK after : after = IF Len(all) > PageSize THEN all[PageSize] ELSE reading.after
    OBVIOUS
  <1>5. PICK done : done = (Len(all) <= PageSize)
    OBVIOUS
  <1>6. reading' = [reading EXCEPT !.started = TRUE, !.snapshot = mark, !.seen = seen, !.print = print,
                                   !.got = got, !.after = after, !.done = done]
    BY <1>0, <1>3, <1>4, <1>5 DEF Reads!Turn, ItemsOf
  <1> HIDE DEF new
  <1>7. k \in Nat /\ v \in Nat /\ Len(e) \in Nat /\ PageSize \in Nat /\ PageSize # 0
    BY LenProperties, ReadsAssumption
  <1>8. got = Taken(e, k + v)
    <2>1. Taken(e, k) \o Following(e, k, v) = Taken(e, k + v)
      BY <1>2, <1>7, TakenGrows
    <2> QED
      BY Zenon, <1>2, <1>3, <2>1
  <1>9. got \in Seq(ReadItem)
    BY <1>2, <1>7, <1>8, TakenIs
  <1>10. after \in Nat
    <2>1. reading.after \in Nat
      BY DEF ReadingRecord
    <2>2. Len(all) > PageSize => PageSize \in 1..Len(all)
      BY <1>1, <1>7
    <2> QED
      BY <1>1, <1>4, <2>1, <2>2, ElementOfSeq
  <1>11. done \in BOOLEAN
    BY <1>5
  <1>12. reading' \in ReadingRecord
    BY ONLY <1>6, <1>9, <1>10, <1>11, reading \in ReadingRecord, mark \in Nat, seen \in Nat,
            print \in Seq(Reads!Run \cup {Reads!Gone}) DEF ReadingRecord
  <1>13. /\ reading'.started /\ reading'.snapshot = mark /\ reading'.seen = seen /\ reading'.print = print
         /\ reading'.kind = reading.kind /\ reading'.filter = reading.filter /\ reading'.source = reading.source
         /\ reading'.got = got /\ reading'.after = after /\ reading'.done = done
    BY ONLY <1>6, reading \in ReadingRecord DEF ReadingRecord
  <1>14. IF done THEN k + v = Len(e) ELSE k + v >= 1 /\ after = Nth(F, k + v)
    <2>1. CASE Len(all) <= PageSize
      BY <1>2, <1>5, <2>1
    <2>2. CASE Len(all) > PageSize
      <3>0. ~(Len(all) <= PageSize)
        BY <1>1, <1>7, <2>2
      <3>1. ~done
        BY <1>5, <3>0
      <3>2. v >= 1 /\ all[PageSize] = Nth(F, k + v)
        BY <1>2, <2>2
      <3>3. after = Nth(F, k + v)
        BY <1>4, <2>2, <3>2
      <3> QED
        BY <1>7, <3>1, <3>2, <3>3
    <2> QED
      BY <1>1, <1>7, <2>1, <2>2
  <1>15. k + v \in 0..Len(e)
    BY <1>2, <1>7
  <1>16. Paged(F, e, reading')
    BY <1>8, <1>13, <1>14, <1>15 DEF Paged
  <1> QED
    BY <1>12, <1>13, <1>16

=============================================================================
