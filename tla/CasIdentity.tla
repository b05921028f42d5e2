---------------------------- MODULE CasIdentity ----------------------------
(***************************************************************************)
(* How a handle of the artifact store comes to be bound to one root         *)
(* (ArtifactStore.initialize and _open_initialized): the invocation that    *)
(* creates the root makes its directories and its identity marker, every    *)
(* other one only opens what is complete, and nothing is ever repaired.     *)
(* Creation is several system calls; a process may die between any two, and *)
(* an operator may unmount the root or mount another store in its place.    *)
(* The registry is bound to one store for good (bind_artifact_store); the    *)
(* read ports answer for the two together (probe_evidence_readiness,         *)
(* read_verified_manifest).                                                 *)
(***************************************************************************)
EXTENDS Naturals, FiniteSets, FiniteSetsExt

CONSTANTS
    Handles,      \* ArtifactStore instances, each in a process of its own
    Externally,   \* some of them, given an expected_store_id
    Ports,        \* those whose process has read ports (RegistryReadPorts)
    MaxRoots,     \* bound: roots ever created
    MaxDeaths,    \* bound: initializations that die or fail
    MaxMounts     \* bound: times the operator changes what the path leads to

Absent == 0
Roots == 1..MaxRoots

VARIABLES
    path,      \* the root the configured path leads to, Absent if to none
    roots,     \* what each root holds; a root's number is its inode and its id
    handle,    \* what each handle is doing and is bound to
    used,      \* the root an operation of a handle last went to
    registry,  \* the root whose id the registry is bound to, Absent if to none
    answer,    \* what the read ports of a process last answered, or are about to
    deaths, mounts

readPorts == <<registry, answer>>
vars == <<path, roots, handle, used, readPorts, deaths, mounts>>

\* marker counts the names of the marker's inode: 2 while its temporary name is left.
Empty == [staging |-> FALSE, objects |-> FALSE, temporary |-> FALSE, marker |-> 0, made |-> FALSE]
Answers == {"none", "pending", "ready", "CAS_UNBOUND", "CAS_MISSING", "CAS_NOT_INITIALIZED",
            "CAS_INTEGRITY_FAILED", "CAS_IDENTITY_MISMATCH", "manifest"}
Unbound == [pc |-> "unbound", root |-> Absent, made |-> FALSE, bound |-> FALSE]

TypeOK ==
    /\ path \in Roots \cup {Absent}
    /\ roots \in [Roots -> [staging : BOOLEAN, objects : BOOLEAN, temporary : BOOLEAN,
                            marker : 0..2, made : BOOLEAN]]
    /\ handle \in [Handles -> [pc : {"unbound", "dirs", "temporary", "link", "clean", "read", "bound"},
                               root : Roots \cup {Absent}, made : BOOLEAN, bound : BOOLEAN]]
    /\ used \in [Handles -> Roots \cup {Absent}]
    /\ registry \in Roots \cup {Absent} /\ answer \in [Ports -> Answers]
    /\ deaths \in 0..MaxDeaths /\ mounts \in 0..MaxMounts

Init ==
    /\ path = Absent /\ roots = [r \in Roots |-> Empty]
    /\ handle = [h \in Handles |-> Unbound]
    /\ used = [h \in Handles |-> Absent]
    /\ registry = Absent /\ answer = [h \in Ports |-> "none"]
    /\ deaths = 0 /\ mounts = 0

Complete(r) == roots[r].staging /\ roots[r].objects /\ roots[r].marker = 1

\* The externally expected identity is that of the first store ever made.
Expected(h, r) == h \notin Externally \/ r = Min(Roots)

To(h, pc) == handle' = [handle EXCEPT ![h].pc = pc]

-----------------------------------------------------------------------------
\* initialize.

\* An absent root is created, unless an identity is expected of it.
OpenRoot(h) ==
    /\ handle[h].pc = "unbound"
    /\ \/ /\ path = Absent /\ h \notin Externally
          /\ \E r \in Roots : /\ ~roots[r].made /\ (\A q \in Roots : q < r => roots[q].made)
                              /\ path' = r /\ roots' = [roots EXCEPT ![r].made = TRUE]
                              /\ handle' = [handle EXCEPT ![h] = [Unbound EXCEPT !.pc = "dirs", !.root = r, !.made = TRUE]]
       \/ /\ path # Absent
          /\ handle' = [handle EXCEPT ![h] = [Unbound EXCEPT !.pc = "dirs", !.root = path]]
          /\ UNCHANGED <<path, roots>>
    /\ UNCHANGED <<used, readPorts, deaths, mounts>>

\* Mutant: whoever finds a directory missing makes it.
RepairDirectories(h) ==
    /\ handle[h].pc = "dirs"
    /\ roots' = [roots EXCEPT ![handle[h].root].staging = TRUE, ![handle[h].root].objects = TRUE]
    /\ To(h, IF roots[handle[h].root].marker > 0 THEN "read" ELSE "temporary")
    /\ UNCHANGED <<path, used, readPorts, deaths, mounts>>

DirectoriesFound(r) == roots[r].staging /\ roots[r].objects

\* The creator makes both directories; anyone else must find them.
OpenDirectories(h) ==
    /\ handle[h].pc = "dirs"
    /\ LET r == handle[h].root IN
       \/ handle[h].made /\ roots' = [roots EXCEPT ![r].staging = TRUE, ![r].objects = TRUE] /\ To(h, "temporary")
       \/ ~handle[h].made /\ DirectoriesFound(r) /\ To(h, "read") /\ UNCHANGED roots
    /\ UNCHANGED <<path, used, readPorts, deaths, mounts>>

\* The marker is written and flushed under a temporary name ...
StageMarker(h) ==
    /\ handle[h].pc = "temporary"
    /\ roots' = [roots EXCEPT ![handle[h].root].temporary = TRUE]
    /\ To(h, "link")
    /\ UNCHANGED <<path, used, readPorts, deaths, mounts>>

\* ... linked to its name, which must be free ...
LinkMarker(h) ==
    /\ handle[h].pc = "link"
    /\ roots[handle[h].root].marker = 0
    /\ roots' = [roots EXCEPT ![handle[h].root].marker = 2]
    /\ To(h, "clean")
    /\ UNCHANGED <<path, used, readPorts, deaths, mounts>>

\* ... and left with that one name.
CleanMarker(h) ==
    /\ handle[h].pc = "clean"
    /\ roots' = [roots EXCEPT ![handle[h].root].temporary = FALSE, ![handle[h].root].marker = 1]
    /\ To(h, "read")
    /\ UNCHANGED <<path, used, readPorts, deaths, mounts>>

\* Mutant: a marker still being published is taken for the store's.
AnyMarker(h) == roots[handle[h].root].marker > 0

\* One name, the right checksum, and the identity that was expected.
MarkerHolds(h) == roots[handle[h].root].marker = 1 /\ Expected(h, handle[h].root)

\* The marker is read, the path opened again and compared, and the handle bound.
Bind(h) ==
    /\ handle[h].pc = "read"
    /\ MarkerHolds(h) /\ path = handle[h].root
    /\ handle' = [handle EXCEPT ![h].pc = "bound", ![h].bound = TRUE]
    /\ UNCHANGED <<path, roots, used, readPorts, deaths, mounts>>

\* What is found is incomplete, another store, or not the path's any more.
Refuse(h) ==
    /\ \/ handle[h].pc = "dirs" /\ ~handle[h].made /\ ~DirectoriesFound(handle[h].root)
       \/ handle[h].pc = "read" /\ ~(MarkerHolds(h) /\ path = handle[h].root)
    /\ handle' = [handle EXCEPT ![h] = Unbound]
    /\ UNCHANGED <<path, roots, used, readPorts, deaths, mounts>>

\* An initialization dies or fails on the way; only the marker's own writer
\* cleans up its temporary name, and only if it is alive to do it.
Abandon(h) ==
    /\ handle[h].pc \notin {"unbound", "bound"} /\ deaths < MaxDeaths
    /\ deaths' = deaths + 1
    /\ handle' = [handle EXCEPT ![h] = Unbound]
    /\ LET r == handle[h].root IN
       \/ UNCHANGED roots
       \/ /\ handle[h].pc \in {"link", "clean"}
          /\ roots' = [roots EXCEPT ![r].temporary = FALSE, ![r].marker = IF @ = 2 THEN 1 ELSE @]
    /\ UNCHANGED <<path, used, readPorts, mounts>>

-----------------------------------------------------------------------------
\* Every later call.

\* Mutant: the identity in the marker is trusted, not the directory it was bound to.
SameMarkerValue(h) == roots[path].marker = 1

\* _open_initialized: the same root, directories and marker as when it was bound.
StillBound(h) == path = handle[h].root /\ Complete(path)

Operate(h) ==
    /\ handle[h].pc = "bound" /\ path # Absent
    /\ StillBound(h)
    /\ used' = [used EXCEPT ![h] = path]
    /\ UNCHANGED <<path, roots, handle, readPorts, deaths, mounts>>

\* The process ends; its successor initializes again.
Restart(h) ==
    /\ handle[h].pc = "bound"
    /\ handle' = [handle EXCEPT ![h] = Unbound]
    /\ used' = [used EXCEPT ![h] = Absent]
    /\ answer' = [p \in Ports |-> IF p = h THEN "none" ELSE answer[p]]
    /\ UNCHANGED <<path, roots, registry, deaths, mounts>>

-----------------------------------------------------------------------------
\* The registry and the read ports of a handle's process.

\* bind_artifact_store: once, and again only with the same id.
BindRegistry(h) ==
    /\ handle[h].pc = "bound" /\ registry = Absent
    /\ registry' = handle[h].root
    /\ UNCHANGED <<path, roots, handle, used, answer, deaths, mounts>>

Answer(h, a) == answer' = [answer EXCEPT ![h] = a]

\* probe_evidence_readiness: what needs no reading of the store comes first.
StartProbe(h) ==
    /\ answer[h] # "pending"
    /\ Answer(h, IF registry = Absent THEN "CAS_UNBOUND"
                 ELSE IF path = Absent THEN "CAS_MISSING"
                 ELSE IF handle[h].pc # "bound" THEN "CAS_NOT_INITIALIZED" ELSE "pending")
    /\ UNCHANGED <<path, roots, handle, used, registry, deaths, mounts>>

\* Mutant: the identity the handle was bound with is not looked up again.
VerdictOfTheCache(h) == IF handle[h].root # registry THEN "CAS_IDENTITY_MISMATCH" ELSE "ready"

\* verify_identity opens the store anew; then the ids are compared.
Verdict(h) ==
    IF path = Absent THEN "CAS_MISSING"
    ELSE IF ~StillBound(h) THEN "CAS_INTEGRITY_FAILED"
    ELSE IF handle[h].root # registry THEN "CAS_IDENTITY_MISMATCH" ELSE "ready"

EndProbe(h) ==
    /\ answer[h] = "pending" /\ Answer(h, Verdict(h))
    /\ UNCHANGED <<path, roots, handle, used, registry, deaths, mounts>>

\* read_verified_manifest: the binding is compared, then the store opened and read.
ReadManifest(h) ==
    /\ answer[h] # "pending"
    /\ handle[h].pc = "bound" /\ registry = handle[h].root
    /\ path # Absent /\ StillBound(h)
    /\ used' = [used EXCEPT ![h] = path] /\ Answer(h, "manifest")
    /\ UNCHANGED <<path, roots, handle, registry, deaths, mounts>>

\* The operator unmounts the store, or mounts another one.
Remount(r) ==
    /\ mounts < MaxMounts /\ mounts' = mounts + 1
    /\ r \in {Absent} \cup {q \in Roots : roots[q].made} /\ r # path
    /\ path' = r
    /\ UNCHANGED <<roots, handle, used, readPorts, deaths>>

\* No initialization is under way.
Rest == (\A h \in Handles : handle[h].pc \in {"unbound", "bound"}) /\ UNCHANGED vars

Next ==
    \/ \E h \in Handles :
          \/ OpenRoot(h) \/ OpenDirectories(h) \/ StageMarker(h) \/ LinkMarker(h) \/ CleanMarker(h)
          \/ Bind(h) \/ Refuse(h) \/ Abandon(h) \/ Operate(h) \/ Restart(h)
          \/ BindRegistry(h)
    \/ \E h \in Ports : StartProbe(h) \/ EndProbe(h) \/ ReadManifest(h)
    \/ \E r \in Roots \cup {Absent} : Remount(r)
    \/ Rest

Spec == Init /\ [][Next]_vars

-----------------------------------------------------------------------------
\* A root whose creation died half way, or is still going on in another
\* process, is never bound: initialize completes its own or refuses.
BoundRootsAreComplete ==
    \A h \in Handles : handle[h].bound => Complete(handle[h].root)

\* Whatever is mounted at the path in the meantime, no operation of a handle
\* reaches another store than the one it was bound to, and none reaches a store
\* other than the externally expected one.
OperationsStayInTheirStore ==
    \A h \in Handles : used[h] # Absent =>
        used[h] = handle[h].root /\ (h \in Externally => used[h] = Min(Roots))

\* An answer is true when it is given, whatever was mounted since the probe began:
\* ready of the registry's own store, whole and in its place, a mismatch only of
\* another, missing only of none; and a manifest is of the registry's store.
AnswersAreCurrent ==
    [][\A h \in Ports : answer'[h] # answer[h] =>
          /\ answer'[h] \in {"ready", "manifest"} => registry # Absent /\ path = registry /\ Complete(path)
          /\ answer'[h] = "CAS_IDENTITY_MISMATCH" => path # registry
          /\ answer'[h] = "CAS_MISSING" => path = Absent]_vars

\* A root is created once: its directories are never made under a handle that
\* did not create it, its marker never replaced (initialize, root_created).
OneCreatorPerRoot ==
    [][\A r \in Roots :
          /\ roots[r].marker = 1 => roots'[r].marker = 1
          /\ roots'[r] # roots[r] =>
                \E h \in Handles : \E k \in {handle[h], handle'[h]} : k.root = r /\ k.made]_vars
=============================================================================
