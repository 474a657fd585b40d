---------------------------- MODULE WvFilesProofs ----------------------------
(***************************************************************************)
(* Proofs about WvFiles: for any processes, any files left from before and *)
(* any bounds, at most one process owns a lock whose calls do not overlap  *)
(* (or, for WvLockDev, without faults), a lock() that nobody   *)
(* interferes with decides, and the atomic file is whole at every moment.  *)
(*                                                                         *)
(* The argument has three parts that hold or fail apart from one another:  *)
(* Base is about temporary files and holds always, Solo is about the name  *)
(* while calls do not overlap, Dev is about the name while nobody dies.    *)
(* Every action changes one process, the name and the contents, so the     *)
(* lemmas BaseStep, SoloStep and DevStep reduce each part to a condition   *)
(* on that one process, which the lemmas after them show of each action.   *)
(***************************************************************************)
EXTENDS WvFiles, FiniteSetTheorems, TLAPS

\* Which points of the program belong to which part k, when a process has a temporary file,
\* that a writer of atomic files never locks,
\* and that only a lock file counts as unwritten.
Part(k, x) ==
    /\ x.pc \in {"readpid", "getline", "cleanup", "unlink"} => k = "lockfile"
    /\ x.pc \in {"create", "print"} => k \in {"lockfile", "lockdev"}
    /\ x.pc \in {"reopen", "check", "remove", "recreate"} => k = "lockdev"
    /\ x.pc \in {"mkstemp", "write", "rename"} => k \in {"writer", "daemon"}
    /\ x.pc \in {"load", "start", "run", "stop", "unload"} => k = "daemon"
    /\ x.alive => (x.tmp # None <=> x.pc \in {"write", "rename"})
    /\ x.tmp # None => k \in {"writer", "daemon"}
    /\ k = "writer" => x.lock_count = 0
    /\ x.unwritten => k = "lockfile"

\* The temporary file of a process p that writes: complete, or known to be bad, before it is
\* renamed.  A file that is bad has been counted as lost, l.
Written(p, x, d, l) ==
    /\ x.alive /\ x.pc = "write" =>
          d[x.tmp].by = p /\ d[x.tmp].n < Chunks /\ ~d[x.tmp].bad /\ (kind = "daemon" => d[x.tmp].n = 0)
    /\ x.alive /\ x.pc = "rename" =>
          d[x.tmp].by = p /\ (d[x.tmp].n = Chunks \/ (d[x.tmp].bad /\ l))

\* Nobody shares a temporary file, and it is not the one under the name.
Separate ==
    \A p \in Procs : proc[p].tmp # None =>
        /\ proc[p].tmp # name
        /\ \A q \in Procs : proc[q].tmp = proc[p].tmp => q = p

\* A file that nobody can reach has no contents, so that a new file is a blank one.
Freed == \A i \in Inodes : i \notin InUse => data[i] = Blank

\* What holds in every state, whoever interferes; FileIsOldOrNew is one of its parts.
Base ==
    /\ TypeOK /\ Separate /\ Freed
    /\ \A p \in Procs : Part(kind, proc[p]) /\ Written(p, proc[p], data, lost)
    /\ FileIsOldOrNew

\* The processes that kill(pid, 0) finds.
Alive == {p \in Procs : proc[p].alive}
\* What is under the name.
File(nm, d) == IF nm = None THEN Blank ELSE d[nm]

\* Whoever owns the lock has its pid in the file, or has at least made the file of a device, and
Held(H, e) == \A h \in H : e.by = h /\ (e.n # 0 \/ kind = "lockdev")
\* a lock file that names a live process names an owner.
Known(H, A, e) == kind = "lockfile" /\ e.n # 0 /\ e.by \in A => e.by \in H

\* What the one process that is in a call knows, from what it has read and done so far: the
\* file it has open is the one under the name; and when it goes on to remove, create or
\* write it, nobody else owns the lock.
Caller(p, x, nm, H) ==
    /\ x.pc \in {"getline", "check", "load"} => x.fd = nm
    /\ x.pc = "print" => x.fd = nm /\ nm # None
    /\ x.pc \in {"cleanup", "print", "remove", "recreate", "mkstemp", "write", "rename"} => H = {}
    /\ x.pc = "recreate" => nm = None
    /\ x.pc = "unlink" => H \subseteq {p}
    /\ x.pc = "create" /\ kind = "lockfile" /\ nm # None => p \in H

\* As long as no two calls overlap, and no pid file or device lock has been lost,
Calm == ~overlap /\ (lost => kind = "lockfile")

\* the lock excludes, and the process in a call is right about it.
Exclusion(p) ==
    /\ Held(Owners, File(name, data)) /\ Known(Owners, Alive, File(name, data))
    /\ InCall(p) => Caller(p, proc[p], name, Owners)

\* Only one process is in a call then.
Solo ==
    Calm => /\ \A p, q \in Procs : InCall(p) /\ InCall(q) => p = q
            /\ \A p \in Procs : Exclusion(p)

\* A device lock is owned from the moment its file has been created.
Owns(x) == x.alive /\ (x.pc = "print" \/ x.lock_count > 0)
\* Those that own it.
Owning == {p \in Procs : Owns(proc[p])}

\* WvLockDev without dead processes: no lock is ever stale, so only the owner removes the
\* file, and open(O_CREAT | O_EXCL) lets only one in.  This holds with overlapping calls.
DevSound ==
    /\ \A p \in Procs : proc[p].alive => proc[p].pc \notin {"remove", "recreate"}
    /\ \A i \in Inodes : data[i].n # 0 => data[i].by \in Alive
    /\ Owning # {} => name # None
    /\ \A p, q \in Owning : p = q

\* There are no dead processes as long as there are no faults.
Dev == kind = "lockdev" /\ faults = 0 => DevSound

\* The inductive invariant.
FilesInv == Base /\ Solo /\ Dev

\* The inodes: two for each process and one for the name.
LEMMA InodeFacts ==
    /\ Cardinality(Procs) \in Nat /\ IsFiniteSet(Inodes) /\ Cardinality(Inodes) = 2 * Cardinality(Procs) + 1
    /\ 1 \in Inodes /\ None \notin Inodes
  <1>1. Cardinality(Procs) \in Nat
    BY FilesAssumption, FS_CardinalityType
  <1>2. PICK n \in Nat : n = Cardinality(Procs)
    BY <1>1
  <1>3. Inodes = 1 .. (2 * n + 1)
    BY <1>2 DEF Inodes
  <1>4. 2 * n + 1 \in Int /\ 1 \in Int /\ ~(1 > 2 * n + 1) /\ (2 * n + 1) - 1 + 1 = 2 * n + 1
    OBVIOUS
  <1>5. IsFiniteSet(1 .. (2 * n + 1)) /\ Cardinality(1 .. (2 * n + 1)) = 2 * n + 1
    BY <1>4, FS_Interval
  <1>6. 1 \in Inodes /\ Inodes \subseteq Nat
    BY <1>3
  <1> QED BY <1>1, <1>2, <1>3, <1>5, <1>6, FilesAssumption

\* As many values as there are processes, at most.
LEMMA Values ==
    ASSUME NEW f, f = [q \in Procs |-> f[q]]
    PROVE  LET V == {f[q] : q \in Procs}
           IN  IsFiniteSet(V) /\ Cardinality(V) <= Cardinality(Procs)
  <1> DEFINE V == {f[q] : q \in Procs}
  <1>1. f \in Surjection(Procs, V)
    BY DEF Surjection
  <1> HIDE DEF V
  <1>2. IsFiniteSet(V) /\ Cardinality(V) <= Cardinality(Procs)
    BY <1>1, FilesAssumption, FS_Surjection
  <1> QED BY <1>2 DEF V

\* There is a free inode as long as a name or a descriptor is not in use: the 2N + 1 inodes
\* and None do not all fit into the 2N + 1 places that refer to them.
LEMMA Fresh ==
    ASSUME None \in InUse
    PROVE  NewInode \in Inodes /\ NewInode \notin InUse
  <1> DEFINE f == [q \in Procs |-> proc[q].fd]
             g == [q \in Procs |-> proc[q].tmp]
             F == {f[q] : q \in Procs}
             G == {g[q] : q \in Procs}
             N == {name}
  <1>1. InUse = (N \cup F) \cup G
    BY DEF InUse
  <1>2. IsFiniteSet(F) /\ Cardinality(F) <= Cardinality(Procs) /\ IsFiniteSet(G) /\ Cardinality(G) <= Cardinality(Procs)
    <2>1. f = [q \in Procs |-> f[q]] /\ g = [q \in Procs |-> g[q]]
      OBVIOUS
    <2> HIDE DEF f, g
    <2> QED BY <2>1, Values
  <1>3. IsFiniteSet(N) /\ Cardinality(N) = 1
    BY FS_Singleton
  <1> HIDE DEF F, G, N
  <1>4. IsFiniteSet(InUse) /\ Cardinality(InUse) <= 2 * Cardinality(Procs) + 1
    <2>1. /\ IsFiniteSet(N \cup F)
          /\ Cardinality(N \cup F) = Cardinality(N) + Cardinality(F) - Cardinality(N \cap F)
      BY <1>2, <1>3, FS_Union
    <2>2. /\ IsFiniteSet((N \cup F) \cup G)
          /\ Cardinality((N \cup F) \cup G) = Cardinality(N \cup F) + Cardinality(G) - Cardinality((N \cup F) \cap G)
      BY <1>2, <2>1, FS_Union
    <2>3. N \cap F \in SUBSET N /\ (N \cup F) \cap G \in SUBSET G
      OBVIOUS
    <2>4. IsFiniteSet(N \cap F) /\ IsFiniteSet((N \cup F) \cap G)
      BY <1>2, <1>3, <2>3, FS_Subset
    <2>5. /\ Cardinality(N \cap F) \in Nat /\ Cardinality((N \cup F) \cap G) \in Nat /\ Cardinality(F) \in Nat
          /\ Cardinality(G) \in Nat /\ Cardinality(N \cup F) \in Nat /\ Cardinality(Procs) \in Nat
      BY <1>2, <2>1, <2>4, FS_CardinalityType, FilesAssumption
    <2> QED BY <1>1, <1>2, <1>3, <2>1, <2>2, <2>5
  <1>5. \E i \in Inodes : i \notin InUse
    <2> SUFFICES ASSUME Inodes \subseteq InUse PROVE FALSE
      OBVIOUS
    <2> DEFINE I == {None}
    <2>1. IsFiniteSet(I) /\ Cardinality(I) = 1 /\ Inodes \cap I = {}
      BY InodeFacts, FS_Singleton
    <2> HIDE DEF I
    <2>2. /\ IsFiniteSet(Inodes \cup I)
          /\ Cardinality(Inodes \cup I) = Cardinality(Inodes) + Cardinality(I) - Cardinality(Inodes \cap I)
      BY <2>1, InodeFacts, FS_Union
    <2>3. Cardinality(Inodes \cup I) = 2 * Cardinality(Procs) + 2
      <3>1. Cardinality(Inodes \cap I) = 0
        BY <2>1, FS_EmptySet
      <3> QED BY <2>1, <2>2, <3>1, InodeFacts
    <2>4. Inodes \cup I \in SUBSET InUse
      BY DEF I
    <2>5. Cardinality(Inodes \cup I) <= Cardinality(InUse)
      BY <1>4, <2>4, FS_Subset
    <2>6. Cardinality(InUse) \in Nat
      BY <1>4, FS_CardinalityType
    <2> QED BY <1>4, <2>3, <2>5, <2>6, InodeFacts
  <1> QED BY <1>5 DEF NewInode

\* Base, for one process.
LEMMA BaseFacts ==
    ASSUME Base, NEW p \in Procs
    PROVE  /\ proc \in [Procs -> Process] /\ proc[p] \in Process /\ name \in Inodes \cup {None}
           /\ data \in [Inodes -> Contents] /\ kind \in AllKinds /\ lost \in BOOLEAN /\ overlap \in BOOLEAN
           /\ budget \in Nat /\ faults \in 0..MaxFaults
           /\ Part(kind, proc[p]) /\ Written(p, proc[p], data, lost)
           /\ proc[p].tmp \in Inodes \cup {None} /\ proc[p].fd \in Inodes \cup {None}
  <1>1. TypeOK /\ Part(kind, proc[p]) /\ Written(p, proc[p], data, lost)
    BY DEF Base
  <1>2. proc[p] \in Process
    BY <1>1 DEF TypeOK
  <1> QED BY <1>1, <1>2 DEF TypeOK, Process

\* A step of p to x: the other processes stay, and so do files that can be reached.
LEMMA DiskFacts ==
    ASSUME Base, NEW p \in Procs, NEW x \in Process, NEW nm \in Inodes \cup {None}, NEW d \in [Inodes -> Contents],
           Steps(p, x), name' = nm, Disk(d)
    PROVE  /\ proc' \in [Procs -> Process] /\ data' \in [Inodes -> Contents] /\ kind' = kind
           /\ proc'[p] = x /\ \A q \in Procs : q # p => proc'[q] = proc[q]
           /\ \A q \in Procs : proc'[q].tmp # None => data'[proc'[q].tmp] = d[proc'[q].tmp]
           /\ nm # None => data'[nm] = d[nm]
           /\ \A i \in Inodes : data'[i] = d[i] \/ data'[i] = Blank
  <1>1. proc \in [Procs -> Process]
    BY BaseFacts
  <1>2. proc' = [proc EXCEPT ![p] = x] /\ kind' = kind
    BY DEF Steps
  <1>3. proc' \in [Procs -> Process] /\ proc'[p] = x /\ \A q \in Procs : q # p => proc'[q] = proc[q]
    BY <1>1, <1>2
  <1>4. Blank \in Contents
    BY FilesAssumption DEF Blank, Contents
  <1>5. InUse' = {name'} \cup {proc'[q].fd : q \in Procs} \cup {proc'[q].tmp : q \in Procs}
    BY DEF InUse
  <1>6. data' = [i \in Inodes |-> IF i \in InUse' THEN d[i] ELSE Blank]
    BY DEF Disk
  <1> DEFINE U == InUse'
  <1> HIDE DEF U
  <1>7. data' = [i \in Inodes |-> IF i \in U THEN d[i] ELSE Blank]
    BY <1>6 DEF U
  <1>8. nm \in U /\ \A q \in Procs : proc'[q].tmp \in U
    BY <1>5 DEF U
  <1>9. \A q \in Procs : proc'[q].tmp \in Inodes \cup {None}
    BY <1>3 DEF Process
  <1>10. data' \in [Inodes -> Contents] /\ \A i \in Inodes : data'[i] = d[i] \/ data'[i] = Blank
    BY <1>4, <1>7
  <1>11. nm # None => data'[nm] = d[nm]
    BY <1>7, <1>8
  <1>12. \A q \in Procs : proc'[q].tmp # None => data'[proc'[q].tmp] = d[proc'[q].tmp]
    BY <1>7, <1>8, <1>9
  <1> QED BY <1>2, <1>3, <1>10, <1>11, <1>12

\* Base is preserved if the step keeps Part and Written for the process that takes it and
\* leaves the temporary files of the others alone.
LEMMA BaseStep ==
    ASSUME Base, NEW p \in Procs, NEW x \in Process, NEW nm \in Inodes \cup {None}, NEW d \in [Inodes -> Contents],
           Steps(p, x), name' = nm, Disk(d),
           lost => lost', lost' \in BOOLEAN, budget' \in Nat, faults' \in 0..MaxFaults,
           Part(kind, x), Written(p, x, d, lost'),
           \A q \in Procs : q # p /\ proc[q].tmp # None =>
               d[proc[q].tmp] = data[proc[q].tmp] /\ proc[q].tmp # nm /\ proc[q].tmp # x.tmp,
           x.tmp # None => x.tmp # nm,
           kind = "writer" /\ nm # None => d[nm].n = Chunks \/ d[nm].bad
    PROVE  Base'
  <1>1. /\ proc' \in [Procs -> Process] /\ data' \in [Inodes -> Contents] /\ kind' = kind
        /\ proc'[p] = x /\ \A q \in Procs : q # p => proc'[q] = proc[q]
        /\ \A q \in Procs : proc'[q].tmp # None => data'[proc'[q].tmp] = d[proc'[q].tmp]
        /\ nm # None => data'[nm] = d[nm]
        /\ \A i \in Inodes : data'[i] = d[i] \/ data'[i] = Blank
    BY DiskFacts
  <1>2. TypeOK'
    <2>1. kind \in AllKinds /\ overlap \in BOOLEAN
      BY BaseFacts
    <2>2. overlap' \in BOOLEAN
      BY <2>1 DEF Steps
    <2> QED BY <1>1, <2>1, <2>2 DEF TypeOK
  <1>3. Separate'
    <2>1. ASSUME NEW q \in Procs, proc'[q].tmp # None
          PROVE  /\ proc'[q].tmp # nm /\ \A r \in Procs : proc'[r].tmp = proc'[q].tmp => r = q
      <3>1. CASE q = p
        BY <1>1, <2>1, <3>1
      <3>2. CASE q # p
        <4>1. proc'[q] = proc[q] /\ proc[q].tmp # nm /\ proc[q].tmp # x.tmp
          BY <1>1, <2>1, <3>2
        <4>2. \A r \in Procs : proc[r].tmp = proc[q].tmp => r = q
          BY <2>1, <4>1 DEF Base, Separate
        <4> QED BY <1>1, <4>1, <4>2
      <3> QED BY <3>1, <3>2
    <2> QED BY <2>1 DEF Separate
  <1>4. ASSUME NEW q \in Procs PROVE (Part(kind, proc[q]) /\ Written(q, proc[q], data, lost))'
    <2>0. Part(kind, proc[q]) /\ Written(q, proc[q], data, lost)
      BY DEF Base
    <2>1. CASE q = p
      <3>1. Part(kind, proc[q])'
        BY <1>1, <2>1 DEF Part
      <3>2. x.alive /\ x.pc \in {"write", "rename"} => x.tmp # None
        BY DEF Part
      <3>3. x.tmp # None => data'[x.tmp] = d[x.tmp]
        BY <1>1
      <3>5. Written(q, proc[q], data, lost)'
        BY <1>1, <2>1, <3>2, <3>3 DEF Written
      <3> QED BY <3>1, <3>5
    <2>2. CASE q # p
      <3>1. proc'[q] = proc[q]
        BY <1>1, <2>2
      <3>2. Part(kind, proc[q])'
        BY <1>1, <2>0, <3>1 DEF Part
      <3>3. proc[q].alive /\ proc[q].pc \in {"write", "rename"} => proc[q].tmp # None
        BY <2>0 DEF Part
      <3>4. proc[q].tmp # None => data'[proc[q].tmp] = data[proc[q].tmp]
        BY <1>1, <2>2, <3>1
      <3>5. Written(q, proc[q], data, lost)'
        BY <1>1, <2>0, <3>1, <3>3, <3>4 DEF Written
      <3> QED BY <3>2, <3>5
    <2> QED BY <2>1, <2>2
  <1>5. FileIsOldOrNew'
    BY <1>1 DEF FileIsOldOrNew
  <1>6. Freed'
    BY DEF Disk, Freed
  <1> QED BY <1>2, <1>3, <1>4, <1>5, <1>6 DEF Base

\* The owners,
OwnersWith(p, x) ==
    {q \in Procs : IF q = p THEN x.alive /\ x.lock_count > 0 /\ ~x.unwritten ELSE q \in Owners}
\* and the live processes, once p has become x.
AliveWith(p, x) == {q \in Procs : IF q = p THEN x.alive ELSE q \in Alive}

\* Solo is preserved if the step keeps Exclusion for the process that takes it, alone in a
\* call and knowing what Caller says.
LEMMA SoloStep ==
    ASSUME Base, Solo, NEW p \in Procs, NEW x \in Process, NEW nm \in Inodes \cup {None},
           NEW d \in [Inodes -> Contents], Steps(p, x), name' = nm, Disk(d), lost => lost',
           Calm /\ (lost' => kind = "lockfile") /\ Others(p) = {} /\ Exclusion(p) =>
               /\ Held(OwnersWith(p, x), File(nm, d))
               /\ Known(OwnersWith(p, x), AliveWith(p, x), File(nm, d))
               /\ x.alive /\ x.pc \notin Resting => Caller(p, x, nm, OwnersWith(p, x))
    PROVE  Solo'
  <1>1. /\ proc' \in [Procs -> Process] /\ data' \in [Inodes -> Contents] /\ kind' = kind
        /\ proc'[p] = x /\ \A q \in Procs : q # p => proc'[q] = proc[q]
        /\ \A q \in Procs : proc'[q].tmp # None => data'[proc'[q].tmp] = d[proc'[q].tmp]
        /\ nm # None => data'[nm] = d[nm]
        /\ \A i \in Inodes : data'[i] = d[i] \/ data'[i] = Blank
    BY DiskFacts
  <1> SUFFICES ASSUME Calm'
               PROVE  /\ \A q, r \in Procs : (InCall(q) /\ InCall(r))' => q = r
                      /\ \A q \in Procs : Exclusion(q)'
    BY DEF Solo
  <1>2. Calm /\ (lost' => kind = "lockfile") /\ Others(p) = {}
    BY <1>1 DEF Calm, Steps
  <1>3. \A q \in Procs : q # p => ~InCall(q)
    BY <1>2 DEF Others
  <1>4. \A q \in Procs : q # p => ~InCall(q)'
    BY <1>1, <1>3 DEF InCall
  <1>5. Exclusion(p)
    BY <1>2 DEF Solo
  <1>6. Owners' = OwnersWith(p, x)
    BY <1>1 DEF Owners, Holders, OwnersWith
  <1>7. Alive' = AliveWith(p, x)
    BY <1>1 DEF Alive, AliveWith
  <1>8. File(name, data)' = File(nm, d)
    BY <1>1 DEF File
  <1>9. /\ Held(OwnersWith(p, x), File(nm, d))
        /\ Known(OwnersWith(p, x), AliveWith(p, x), File(nm, d))
        /\ x.alive /\ x.pc \notin Resting => Caller(p, x, nm, OwnersWith(p, x))
    BY <1>2, <1>5
  <1>10. Held(Owners, File(name, data))'
    BY <1>1, <1>6, <1>8, <1>9 DEF Held
  <1>11. Known(Owners, Alive, File(name, data))'
    BY <1>1, <1>6, <1>7, <1>8, <1>9 DEF Known
  <1>12. InCall(p)' => Caller(p, proc[p], name, Owners)'
    BY <1>1, <1>6, <1>9 DEF InCall, Caller
  <1>13. ASSUME NEW q \in Procs PROVE Exclusion(q)'
    BY <1>4, <1>10, <1>11, <1>12 DEF Exclusion
  <1> QED BY <1>4, <1>13

\* Dev is preserved if a step writes only its own pid and takes or gives up only what no
\* other process owns.
LEMMA DevStep ==
    ASSUME Base, Dev, NEW p \in Procs, NEW x \in Process, NEW nm \in Inodes \cup {None},
           NEW d \in [Inodes -> Contents], Steps(p, x), name' = nm, Disk(d), faults' \in Nat, faults <= faults',
           kind = "lockdev" /\ faults' = 0 /\ DevSound =>
               /\ x.alive /\ x.pc \notin {"remove", "recreate"}
               /\ \A i \in Inodes : d[i].n # 0 => d[i] = data[i] \/ d[i].by = p
               /\ Owns(x) => nm # None /\ Owning \subseteq {p}
               /\ nm = None => Owning \subseteq {p}
    PROVE  Dev'
  <1>1. /\ proc' \in [Procs -> Process] /\ data' \in [Inodes -> Contents] /\ kind' = kind
        /\ proc'[p] = x /\ \A q \in Procs : q # p => proc'[q] = proc[q]
        /\ \A q \in Procs : proc'[q].tmp # None => data'[proc'[q].tmp] = d[proc'[q].tmp]
        /\ nm # None => data'[nm] = d[nm]
        /\ \A i \in Inodes : data'[i] = d[i] \/ data'[i] = Blank
    BY DiskFacts
  <1> SUFFICES ASSUME kind = "lockdev", faults' = 0 PROVE DevSound'
    BY <1>1 DEF Dev
  <1>2. faults = 0
    <2>1. faults \in Nat
      BY BaseFacts, FilesAssumption
    <2> QED BY <2>1
  <1>3. DevSound
    BY <1>2 DEF Dev
  <1>4. /\ x.alive /\ x.pc \notin {"remove", "recreate"}
        /\ \A i \in Inodes : d[i].n # 0 => d[i] = data[i] \/ d[i].by = p
        /\ Owns(x) => nm # None /\ Owning \subseteq {p}
        /\ nm = None => Owning \subseteq {p}
    BY <1>3
  <1>5. \A q \in Procs : proc'[q].alive => proc'[q].pc \notin {"remove", "recreate"}
    BY <1>1, <1>3, <1>4 DEF DevSound
  <1>6. ASSUME NEW i \in Inodes, data'[i].n # 0 PROVE data'[i].by \in Alive'
    <2>1. data'[i] = d[i]
      BY <1>1, <1>6 DEF Blank
    <2>2. d[i] = data[i] \/ d[i].by = p
      BY <1>4, <1>6, <2>1
    <2>3. p \in Alive' /\ \A q \in Alive : q \in Alive'
      BY <1>1, <1>4 DEF Alive
    <2>4. data[i].n # 0 => data[i].by \in Alive
      BY <1>3 DEF DevSound
    <2> QED BY <1>6, <2>1, <2>2, <2>3, <2>4
  <1>7. \A q \in Owning' : (q = p /\ Owns(x)) \/ (q # p /\ q \in Owning)
    BY <1>1 DEF Owning, Owns
  <1>8. \A q, r \in Owning' : q = r
    BY <1>3, <1>4, <1>7 DEF DevSound
  <1>9. Owning' # {} => name' # None
    BY <1>4, <1>7
  <1> QED BY <1>5, <1>6, <1>8, <1>9 DEF DevSound

\* A step that changes no file, lock or name: the process only goes on, or reads.
LEMMA MoveStep ==
    ASSUME FilesInv, NEW p \in Procs, NEW x \in Process, proc[p].alive, Steps(p, x), name' = name, Disk(data),
           lost => lost', lost' \in BOOLEAN, budget' \in Nat, faults' \in 0..MaxFaults, faults <= faults',
           x.alive, x.tmp = None, x.lock_count = proc[p].lock_count /\ x.unwritten = proc[p].unwritten, Part(kind, x),
           kind = "lockdev" /\ faults' = 0 /\ DevSound => x.pc \notin {"remove", "recreate", "print"},
           Calm /\ (lost' => kind = "lockfile") /\ Others(p) = {} /\ Exclusion(p) /\ x.pc \notin Resting =>
               Caller(p, x, name, Owners)
    PROVE  FilesInv'
  <1>0. Base /\ Solo /\ Dev
    BY DEF FilesInv
  <1>1. name \in Inodes \cup {None} /\ data \in [Inodes -> Contents] /\ proc[p] \in Process
    BY <1>0, BaseFacts
  <1>2. Base'
    <2>1. x.pc \notin {"write", "rename"}
      BY DEF Part
    <2>2. Written(p, x, data, lost')
      BY <2>1 DEF Written
    <2>3. \A q \in Procs : q # p /\ proc[q].tmp # None =>
               data[proc[q].tmp] = data[proc[q].tmp] /\ proc[q].tmp # name /\ proc[q].tmp # x.tmp
      BY <1>0 DEF Base, Separate
    <2>4. kind = "writer" /\ name # None => data[name].n = Chunks \/ data[name].bad
      BY <1>0 DEF Base, FileIsOldOrNew
    <2> QED BY <1>0, <1>1, <2>2, <2>3, <2>4, BaseStep
  <1>3. Solo'
    <2>1. OwnersWith(p, x) = Owners
      BY <1>1 DEF OwnersWith, Owners, Holders
    <2>2. AliveWith(p, x) = Alive
      BY DEF AliveWith, Alive
    <2>3. Calm /\ (lost' => kind = "lockfile") /\ Others(p) = {} /\ Exclusion(p) =>
               /\ Held(OwnersWith(p, x), File(name, data))
               /\ Known(OwnersWith(p, x), AliveWith(p, x), File(name, data))
               /\ x.alive /\ x.pc \notin Resting => Caller(p, x, name, OwnersWith(p, x))
      BY <2>1, <2>2 DEF Exclusion
    <2> QED BY <1>0, <1>1, <2>3, SoloStep
  <1>4. Dev'
    <2>0. faults' \in Nat
      BY FilesAssumption
    <2>1. Owns(x) /\ x.pc # "print" => p \in Owning
      BY DEF Owns, Owning
    <2>2. kind = "lockdev" /\ faults' = 0 /\ DevSound =>
               /\ x.alive /\ x.pc \notin {"remove", "recreate"}
               /\ \A i \in Inodes : data[i].n # 0 => data[i] = data[i] \/ data[i].by = p
               /\ Owns(x) => name # None /\ Owning \subseteq {p}
               /\ name = None => Owning \subseteq {p}
      BY <2>1 DEF DevSound
    <2> QED BY <1>0, <1>1, <2>0, <2>2, DevStep
  <1> QED BY <1>2, <1>3, <1>4 DEF FilesInv

\* lock(), unlock() and isok() begin; a writer opens its file.
LEMMA CallStep ==
    ASSUME FilesInv, NEW p \in Procs, NEW k, NEW c \in Operations, NEW a, Calls(p, k, c, a),
           \/ a = "readpid" /\ k = "lockfile"
           \/ a = "create" /\ k = "lockdev"
           \/ a = "mkstemp" /\ k = "writer"
    PROVE  FilesInv'
  <1> DEFINE x == [proc[p] EXCEPT !.call = c, !.pc = a]
  <1>0. Base
    BY DEF FilesInv
  <1>1. /\ proc \in [Procs -> Process] /\ proc[p] \in Process /\ lost \in BOOLEAN /\ budget \in Nat
        /\ faults \in 0..MaxFaults /\ Part(kind, proc[p])
    BY <1>0, BaseFacts
  <1>2. a \in Points
    BY DEF Points
  <1>3. /\ x \in Process /\ x.pc = a /\ x.alive = proc[p].alive /\ x.tmp = proc[p].tmp
        /\ x.lock_count = proc[p].lock_count /\ x.unwritten = proc[p].unwritten
    BY <1>1, <1>2 DEF Process
  <1>4. /\ kind = k /\ proc[p].alive /\ proc[p].pc = "idle" /\ Steps(p, x) /\ name' = name /\ Disk(data)
        /\ lost' = lost /\ faults' = faults
    BY DEF Calls, At
  <1>5. budget' \in Nat
    BY <1>1 DEF Calls
  <1>6. faults <= faults'
    BY <1>1, <1>4, FilesAssumption
  <1> HIDE DEF x
  <1>7. x.tmp = None /\ Part(kind, x)
    BY <1>1, <1>3, <1>4 DEF Part
  <1>8. kind = "writer" => Owners = {}
    <2>1. \A q \in Procs : kind = "writer" => proc[q].lock_count = 0
      BY <1>0 DEF Base, Part
    <2> QED BY <2>1 DEF Owners, Holders
  <1>9. Caller(p, x, name, Owners)
    BY <1>3, <1>4, <1>8 DEF Caller
  <1> QED BY <1>1, <1>3, <1>4, <1>5, <1>6, <1>7, <1>9, MoveStep

\* The file under the name is opened to be read: in readpid(), in lock() of a device and in
\* do_load().
LEMMA ReadStep ==
    ASSUME FilesInv, NEW p \in Procs, readpid_open(p) \/ lockdev_reopen(p) \/ load_open(p)
    PROVE  FilesInv'
  <1>0. Base
    BY DEF FilesInv
  <1>1. /\ proc \in [Procs -> Process] /\ proc[p] \in Process /\ lost \in BOOLEAN /\ budget \in Nat
        /\ faults \in 0..MaxFaults /\ Part(kind, proc[p]) /\ name \in Inodes \cup {None}
    BY <1>0, BaseFacts
  <1>2. PICK a \in {"getline", "check", "load"}, c \in Operations :
            /\ Steps(p, [proc[p] EXCEPT !.pc = a, !.fd = name, !.call = c])
            /\ a = "getline" => proc[p].pc = "readpid"
            /\ a = "check" => proc[p].pc = "reopen"
            /\ a = "load" => proc[p].pc = "idle" /\ kind = "daemon"
    <2>1. CASE readpid_open(p)
      <3>1. [proc[p] EXCEPT !.pc = "getline", !.fd = name] = [proc[p] EXCEPT !.pc = "getline", !.fd = name, !.call = proc[p].call]
        BY <1>1 DEF Process
      <3>2. proc[p].call \in Operations
        BY <1>1 DEF Process
      <3> QED BY <2>1, <3>1, <3>2 DEF readpid_open, At
    <2>2. CASE lockdev_reopen(p)
      <3>1. [proc[p] EXCEPT !.pc = "check", !.fd = name] = [proc[p] EXCEPT !.pc = "check", !.fd = name, !.call = proc[p].call]
        BY <1>1 DEF Process
      <3>2. proc[p].call \in Operations
        BY <1>1 DEF Process
      <3> QED BY <2>2, <3>1, <3>2 DEF lockdev_reopen, At
    <2>3. CASE load_open(p)
      BY <2>3 DEF load_open, At, Operations
    <2> QED BY <2>1, <2>2, <2>3
  <1> DEFINE x == [proc[p] EXCEPT !.pc = a, !.fd = name, !.call = c]
  <1>3. a \in Points
    BY DEF Points
  <1>4. /\ x \in Process /\ x.pc = a /\ x.alive = proc[p].alive /\ x.tmp = proc[p].tmp /\ x.fd = name
        /\ x.lock_count = proc[p].lock_count /\ x.unwritten = proc[p].unwritten
    BY <1>1, <1>3 DEF Process
  <1>5. /\ proc[p].alive /\ Steps(p, x) /\ name' = name /\ Disk(data)
        /\ lost' = lost /\ faults' = faults /\ budget' = budget
    BY <1>2 DEF readpid_open, lockdev_reopen, load_open, At, Quiet
  <1>6. faults <= faults'
    BY <1>1, <1>5, FilesAssumption
  <1> HIDE DEF x
  <1>7. x.tmp = None /\ Part(kind, x)
    BY <1>1, <1>2, <1>4, <1>5 DEF Part
  <1>9. Caller(p, x, name, Owners)
    BY <1>4 DEF Caller
  <1> QED BY <1>1, <1>4, <1>5, <1>6, <1>7, <1>9, MoveStep

\* What a process learns from the file that it has open: stale, or blank but not a device's,
\* nobody owns the lock; its own pid, nobody else does; a live process's pid, that one does.
LEMMA OwnerFacts ==
    ASSUME Base, NEW p \in Procs, proc[p].alive, proc[p].pc \in {"getline", "check", "load"}
    PROVE  /\ kind = "lockdev" /\ DevSound => ~IsStale(p)
           /\ Exclusion(p) /\ ((IsBlank(p) /\ kind # "lockdev") \/ IsStale(p)) => Owners = {}
           /\ Exclusion(p) /\ ~IsBlank(p) /\ Owner(p).by = p => Owners \subseteq {p}
           /\ Exclusion(p) /\ ~IsBlank(p) /\ ~IsStale(p) /\ kind = "lockfile" => Owner(p).by \in Owners
  <1>1. /\ proc[p].fd \in Inodes \cup {None} /\ name \in Inodes \cup {None}
        /\ data \in [Inodes -> Contents]
    BY BaseFacts
  <1>2. Exclusion(p) => proc[p].fd = name
    BY DEF Exclusion, Caller, InCall, Resting
  <1>3. Exclusion(p) => Owner(p) = File(name, data)
    BY <1>2 DEF Owner, File
  <1>4. \A q \in Owners : q \in Alive
    BY DEF Owners, Holders, Alive
  <1>5. IsStale(p) => proc[p].fd # None /\ data[proc[p].fd].n # 0 /\ data[proc[p].fd].by \notin Alive
    BY DEF IsStale, IsBlank, Owner, Blank, Alive
  <1>6. kind = "lockdev" /\ DevSound => ~IsStale(p)
    BY <1>1, <1>5 DEF DevSound
  <1>7. IsStale(p) => Owner(p).by \notin Alive
    BY DEF IsStale, Alive
  <1>8. IsBlank(p) <=> Owner(p).n = 0
    BY DEF IsBlank
  <1>9. Exclusion(p) => Held(Owners, Owner(p)) /\ Known(Owners, Alive, Owner(p))
    BY <1>3 DEF Exclusion
  <1>10. Exclusion(p) /\ ((IsBlank(p) /\ kind # "lockdev") \/ IsStale(p)) => Owners = {}
    BY <1>4, <1>7, <1>8, <1>9 DEF Held
  <1>11. Exclusion(p) /\ ~IsBlank(p) /\ Owner(p).by = p => Owners \subseteq {p}
    BY <1>9 DEF Held
  <1>12. ~IsBlank(p) /\ ~IsStale(p) => Owner(p).by \in Alive
    BY DEF IsStale, Alive
  <1>13. Exclusion(p) /\ ~IsBlank(p) /\ ~IsStale(p) /\ kind = "lockfile" => Owner(p).by \in Owners
    BY <1>8, <1>9, <1>12 DEF Known
  <1> QED BY <1>6, <1>10, <1>11, <1>13

\* readpid() finds a live process.
LEMMA AliveStep ==
    ASSUME FilesInv, NEW p \in Procs, readpid_alive(p)
    PROVE  FilesInv'
  <1> DEFINE y == AfterReadpid(p, proc[p])
             x == [y EXCEPT !.fd = None]
  <1>0. Base
    BY DEF FilesInv
  <1>1. /\ proc \in [Procs -> Process] /\ proc[p] \in Process /\ lost \in BOOLEAN /\ budget \in Nat
        /\ faults \in 0..MaxFaults /\ Part(kind, proc[p]) /\ name \in Inodes \cup {None}
    BY <1>0, BaseFacts
  <1>2. PICK a \in {"idle", "create", "unlink"} :
            /\ y = [proc[p] EXCEPT !.pc = a]
            /\ a # "idle" => Owner(p).by = p
    BY <1>1 DEF AfterReadpid
  <1>3. a \in Points
    BY DEF Points
  <1>4. /\ y \in Process /\ y.pc = a /\ y.alive = proc[p].alive /\ y.tmp = proc[p].tmp
        /\ y.lock_count = proc[p].lock_count /\ y.unwritten = proc[p].unwritten
    BY <1>1, <1>2, <1>3 DEF Process
  <1>5. /\ x \in Process /\ x.pc = a /\ x.alive = proc[p].alive /\ x.tmp = proc[p].tmp
        /\ x.lock_count = proc[p].lock_count /\ x.unwritten = proc[p].unwritten
    <2> HIDE DEF y
    <2> QED BY <1>4 DEF Process
  <1>6. /\ proc[p].alive /\ proc[p].pc = "getline" /\ Steps(p, x) /\ name' = name /\ Disk(data)
        /\ lost' = lost /\ faults' = faults /\ budget' = budget /\ ~IsBlank(p) /\ ~IsStale(p)
    BY DEF readpid_alive, At, Quiet
  <1>7. faults <= faults'
    BY <1>1, <1>6, FilesAssumption
  <1> HIDE DEF x, y
  <1>8. x.tmp = None /\ Part(kind, x) /\ kind = "lockfile"
    BY <1>1, <1>5, <1>6 DEF Part
  <1>9. Exclusion(p) => Caller(p, x, name, Owners)
    <2>1. Exclusion(p) /\ Owner(p).by = p => Owners \subseteq {p} /\ p \in Owners
      BY <1>0, <1>6, <1>8, OwnerFacts
    <2> QED BY <1>2, <1>5, <1>8, <2>1 DEF Caller
  <1> QED BY <1>1, <1>5, <1>6, <1>7, <1>8, <1>9, MoveStep

\* readpid(), lock() of a device and do_load() find no process, or a dead one.
LEMMA CheckStep ==
    ASSUME FilesInv, NEW p \in Procs, readpid_getline(p) \/ lockdev_check(p) \/ load_check(p)
    PROVE  FilesInv'
  <1>0. Base
    BY DEF FilesInv
  <1>1. /\ proc \in [Procs -> Process] /\ proc[p] \in Process /\ lost \in BOOLEAN /\ budget \in Nat
        /\ faults \in 0..MaxFaults /\ Part(kind, proc[p]) /\ name \in Inodes \cup {None}
    BY <1>0, BaseFacts
  <1>2. PICK a \in {"cleanup", "remove", "idle", "mkstemp", "unload"}, w \in BOOLEAN :
            /\ Steps(p, [proc[p] EXCEPT !.fd = None, !.want_to_die = w, !.pc = a])
            /\ a = "cleanup" => proc[p].pc = "getline" /\ (IsBlank(p) \/ IsStale(p))
            /\ a \in {"remove", "idle"} => proc[p].pc = "check"
            /\ a = "remove" => IsStale(p)
            /\ a \in {"unload", "mkstemp"} => proc[p].pc = "load"
            /\ a = "mkstemp" => IsBlank(p) \/ IsStale(p)
    <2>0. proc[p].want_to_die \in BOOLEAN
      BY <1>1 DEF Process
    <2>1. CASE readpid_getline(p)
      <3>1. [proc[p] EXCEPT !.pc = "cleanup", !.fd = None]
                = [proc[p] EXCEPT !.fd = None, !.want_to_die = proc[p].want_to_die, !.pc = "cleanup"]
        BY <1>1 DEF Process
      <3> QED BY <2>0, <2>1, <3>1 DEF readpid_getline, At
    <2>2. CASE lockdev_check(p)
      <3>0. PICK a \in {"remove", "idle"} : a = (IF IsStale(p) THEN "remove" ELSE "idle")
        OBVIOUS
      <3>1. [proc[p] EXCEPT !.fd = None, !.pc = a]
                = [proc[p] EXCEPT !.fd = None, !.want_to_die = proc[p].want_to_die, !.pc = a]
        BY <1>1 DEF Process
      <3>2. Steps(p, [proc[p] EXCEPT !.fd = None, !.want_to_die = proc[p].want_to_die, !.pc = a]) /\ proc[p].pc = "check"
        BY <2>2, <3>0, <3>1 DEF lockdev_check, At
      <3> QED BY <2>0, <3>0, <3>2
    <2>3. CASE load_check(p)
      <3> DEFINE w == ~IsBlank(p) /\ ~IsStale(p)
      <3>0. PICK a \in {"unload", "mkstemp"} : a = (IF w THEN "unload" ELSE "mkstemp")
        OBVIOUS
      <3>1. Steps(p, [proc[p] EXCEPT !.fd = None, !.want_to_die = w, !.pc = a]) /\ proc[p].pc = "load"
        BY <2>3, <3>0 DEF load_check, At
      <3>2. w \in BOOLEAN
        OBVIOUS
      <3>3. a = "mkstemp" => IsBlank(p) \/ IsStale(p)
        BY <3>0
      <3> HIDE DEF w
      <3> QED BY <3>0, <3>1, <3>2, <3>3
    <2> QED BY <2>1, <2>2, <2>3
  <1> DEFINE x == [proc[p] EXCEPT !.fd = None, !.want_to_die = w, !.pc = a]
  <1>3. a \in Points
    BY DEF Points
  <1>4. /\ x \in Process /\ x.pc = a /\ x.alive = proc[p].alive /\ x.tmp = proc[p].tmp
        /\ x.lock_count = proc[p].lock_count /\ x.unwritten = proc[p].unwritten
    BY <1>1, <1>3 DEF Process
  <1>5. /\ proc[p].alive /\ Steps(p, x) /\ name' = name /\ Disk(data)
        /\ lost' = lost /\ faults' = faults /\ budget' = budget
    BY <1>2 DEF readpid_getline, lockdev_check, load_check, At, Quiet
  <1>6. faults <= faults'
    BY <1>1, <1>5, FilesAssumption
  <1> HIDE DEF x
  <1>7. x.tmp = None /\ Part(kind, x)
    BY <1>1, <1>2, <1>4, <1>5 DEF Part
  <1>8. proc[p].pc \in {"getline", "check", "load"}
    BY <1>2
  <1>9. /\ kind = "lockdev" /\ DevSound => ~IsStale(p)
        /\ Exclusion(p) /\ ((IsBlank(p) /\ kind # "lockdev") \/ IsStale(p)) => Owners = {}
    BY <1>0, <1>5, <1>8, OwnerFacts
  <1>10. Exclusion(p) => Caller(p, x, name, Owners)
    <2>1. a \in {"cleanup", "mkstemp"} => kind # "lockdev"
      BY <1>4, <1>7 DEF Part
    <2> QED BY <1>2, <1>4, <1>9, <2>1 DEF Caller
  <1>11. kind = "lockdev" /\ DevSound => x.pc \notin {"remove", "recreate", "print"}
    BY <1>2, <1>4, <1>9
  <1> QED BY <1>1, <1>4, <1>5, <1>6, <1>7, <1>10, <1>11, MoveStep

\* Steps of which only the point of the program is left: a create that fails, a file that
\* readpid() may not read, and the life of a daemon.
LEMMA GoesStep ==
    ASSUME FilesInv, NEW p \in Procs, NEW a, proc[p].alive, Goes(p, a), name' = name, Disk(data), Quiet \/ Refused,
           \/ a = "idle" /\ proc[p].pc \in {"readpid", "create"}
           \/ a = "reopen" /\ proc[p].pc = "create" /\ kind = "lockdev"
           \/ a \in {"run", "stop", "start", "unload"} /\ proc[p].pc \in {"start", "run", "stop"}
    PROVE  FilesInv'
  <1> DEFINE x == [proc[p] EXCEPT !.pc = a]
  <1>0. Base
    BY DEF FilesInv
  <1>1. /\ proc \in [Procs -> Process] /\ proc[p] \in Process /\ lost \in BOOLEAN /\ budget \in Nat
        /\ faults \in 0..MaxFaults /\ Part(kind, proc[p])
    BY <1>0, BaseFacts
  <1>2. a \in Points
    BY DEF Points
  <1>3. /\ x \in Process /\ x.pc = a /\ x.alive = proc[p].alive /\ x.tmp = proc[p].tmp
        /\ x.lock_count = proc[p].lock_count /\ x.unwritten = proc[p].unwritten
    BY <1>1, <1>2 DEF Process
  <1>4. Steps(p, x) /\ lost' = lost /\ budget' = budget
    BY DEF Goes, Quiet, Refused, Fault
  <1>6. faults' \in 0..MaxFaults /\ faults <= faults'
    BY <1>1, FilesAssumption DEF Quiet, Refused, Fault
  <1> HIDE DEF x
  <1>7. x.tmp = None /\ Part(kind, x)
    BY <1>1, <1>3, <1>4 DEF Part
  <1>9. Caller(p, x, name, Owners)
    BY <1>3, <1>4 DEF Caller
  <1> QED BY <1>1, <1>3, <1>4, <1>6, <1>7, <1>9, MoveStep

\* do_start().
LEMMA StartStep ==
    ASSUME FilesInv, NEW p \in Procs, do_start(p)
    PROVE  FilesInv'
  <1> DEFINE x == [proc[p] EXCEPT !.pc = "run", !.want_to_restart = FALSE, !.hungup = FALSE]
  <1>0. Base
    BY DEF FilesInv
  <1>1. /\ proc \in [Procs -> Process] /\ proc[p] \in Process /\ lost \in BOOLEAN /\ budget \in Nat
        /\ faults \in 0..MaxFaults /\ Part(kind, proc[p])
    BY <1>0, BaseFacts
  <1>2. "run" \in Points
    BY DEF Points
  <1>3. /\ x \in Process /\ x.pc = "run" /\ x.alive = proc[p].alive /\ x.tmp = proc[p].tmp
        /\ x.lock_count = proc[p].lock_count /\ x.unwritten = proc[p].unwritten
    BY <1>1, <1>2 DEF Process
  <1>4. /\ proc[p].alive /\ proc[p].pc = "start" /\ Steps(p, x) /\ name' = name /\ Disk(data)
        /\ lost' = lost /\ faults' = faults /\ budget' = budget
    BY DEF do_start, Quiet, At
  <1>6. faults <= faults'
    BY <1>1, <1>4, FilesAssumption
  <1> HIDE DEF x
  <1>7. x.tmp = None /\ Part(kind, x)
    BY <1>1, <1>3, <1>4 DEF Part
  <1>9. Caller(p, x, name, Owners)
    BY <1>3, <1>4 DEF Caller
  <1> QED BY <1>1, <1>3, <1>4, <1>6, <1>7, <1>9, MoveStep

\* The name is removed: right if nobody holds the lock any more.
LEMMA RemoveStep ==
    ASSUME FilesInv, NEW p \in Procs, NEW x \in Process, Steps(p, x), name' = None, Disk(data),
           lost => lost', lost' \in BOOLEAN, budget' = budget, faults' = faults,
           x.tmp = None, Part(kind, x),
           kind = "lockdev" /\ DevSound =>
               x.alive /\ x.pc \notin {"remove", "recreate"} /\ ~Owns(x) /\ Owning \subseteq {p},
           Calm /\ (lost' => kind = "lockfile") /\ Exclusion(p) =>
               /\ OwnersWith(p, x) = {}
               /\ x.alive /\ x.pc \notin Resting => Caller(p, x, None, {})
    PROVE  FilesInv'
  <1>0. Base /\ Solo /\ Dev
    BY DEF FilesInv
  <1>1. /\ data \in [Inodes -> Contents] /\ proc[p] \in Process /\ budget \in Nat /\ faults \in 0..MaxFaults
        /\ None \in Inodes \cup {None}
    BY <1>0, BaseFacts
  <1>2. Base'
    <2>1. x.alive => x.pc \notin {"write", "rename"}
      BY DEF Part
    <2>2. Written(p, x, data, lost')
      BY <2>1 DEF Written
    <2>3. \A q \in Procs : q # p /\ proc[q].tmp # None =>
               data[proc[q].tmp] = data[proc[q].tmp] /\ proc[q].tmp # None /\ proc[q].tmp # x.tmp
      OBVIOUS
    <2> QED BY <1>0, <1>1, <2>2, <2>3, BaseStep
  <1>3. Solo'
    <2>1. Calm /\ (lost' => kind = "lockfile") /\ Others(p) = {} /\ Exclusion(p) =>
               /\ Held(OwnersWith(p, x), File(None, data))
               /\ Known(OwnersWith(p, x), AliveWith(p, x), File(None, data))
               /\ x.alive /\ x.pc \notin Resting => Caller(p, x, None, OwnersWith(p, x))
      BY DEF Held, Known, File, Blank
    <2> QED BY <1>0, <1>1, <2>1, SoloStep
  <1>4. Dev'
    <2>0. faults' \in Nat /\ faults <= faults'
      BY <1>1, FilesAssumption
    <2>2. kind = "lockdev" /\ faults' = 0 /\ DevSound =>
               /\ x.alive /\ x.pc \notin {"remove", "recreate"}
               /\ \A i \in Inodes : data[i].n # 0 => data[i] = data[i] \/ data[i].by = p
               /\ Owns(x) => None # None /\ Owning \subseteq {p}
               /\ None = None => Owning \subseteq {p}
      OBVIOUS
    <2> QED BY <1>0, <1>1, <2>0, <2>2, DevStep
  <1> QED BY <1>2, <1>3, <1>4 DEF FilesInv

\* readpid() removes the file of a dead process,
LEMMA CleanStep ==
    ASSUME FilesInv, NEW p \in Procs, readpid_clean(p)
    PROVE  FilesInv'
  <1>0. Base
    BY DEF FilesInv
  <1>1. proc[p] \in Process /\ lost \in BOOLEAN /\ Part(kind, proc[p])
    BY <1>0, BaseFacts
  <1>2. PICK a \in {"create", "unlink", "idle"} : Steps(p, [proc[p] EXCEPT !.pc = a])
    BY DEF readpid_clean, Goes
  <1> DEFINE x == [proc[p] EXCEPT !.pc = a]
  <1>3. a \in Points
    BY DEF Points
  <1>4. /\ x \in Process /\ x.pc = a /\ x.alive = proc[p].alive /\ x.tmp = proc[p].tmp
        /\ x.lock_count = proc[p].lock_count /\ x.unwritten = proc[p].unwritten
    BY <1>1, <1>3 DEF Process
  <1>5. /\ proc[p].alive /\ proc[p].pc = "cleanup" /\ Steps(p, x) /\ name' = None /\ Disk(data)
        /\ lost' = lost /\ faults' = faults /\ budget' = budget
    BY <1>2 DEF readpid_clean, At, Quiet
  <1> HIDE DEF x
  <1>6. x.tmp = None /\ Part(kind, x) /\ kind = "lockfile"
    BY <1>1, <1>4, <1>5 DEF Part
  <1>7. Exclusion(p) => Owners = {}
    BY <1>5 DEF Exclusion, InCall, Resting, Caller
  <1>8. Owners = {} => OwnersWith(p, x) = {}
    BY <1>4 DEF Owners, Holders, OwnersWith
  <1>9. Caller(p, x, None, {})
    BY <1>4 DEF Caller
  <1> QED BY <1>1, <1>4, <1>5, <1>6, <1>7, <1>8, <1>9, RemoveStep

\* unlock() that of its own,
LEMMA UnlinkStep ==
    ASSUME FilesInv, NEW p \in Procs, unlock_unlink(p)
    PROVE  FilesInv'
  <1> DEFINE x == [proc[p] EXCEPT !.lock_count = 0, !.unwritten = FALSE, !.call = "verify", !.pc = "readpid"]
  <1>0. Base
    BY DEF FilesInv
  <1>1. proc[p] \in Process /\ lost \in BOOLEAN /\ Part(kind, proc[p])
    BY <1>0, BaseFacts
  <1>3. "readpid" \in Points /\ "verify" \in Operations /\ 0 \in 0..2
    BY DEF Points, Operations
  <1>4. /\ x \in Process /\ x.pc = "readpid" /\ x.alive = proc[p].alive /\ x.tmp = proc[p].tmp
        /\ x.lock_count = 0 /\ ~x.unwritten
    BY <1>1, <1>3 DEF Process
  <1>5. /\ kind = "lockfile" /\ proc[p].alive /\ proc[p].pc = "unlink" /\ Steps(p, x) /\ name' = None /\ Disk(data)
        /\ lost' = lost /\ faults' = faults /\ budget' = budget
    BY DEF unlock_unlink, At, Quiet
  <1> HIDE DEF x
  <1>6. x.tmp = None /\ Part(kind, x)
    BY <1>1, <1>4, <1>5 DEF Part
  <1>7. Exclusion(p) => Owners \subseteq {p}
    BY <1>5 DEF Exclusion, InCall, Resting, Caller
  <1>8. Owners \subseteq {p} => OwnersWith(p, x) = {}
    BY <1>4 DEF OwnersWith
  <1>9. Caller(p, x, None, {})
    BY <1>4 DEF Caller
  <1> QED BY <1>1, <1>4, <1>5, <1>6, <1>7, <1>8, <1>9, RemoveStep

\* and lock() of a device a stale one.
LEMMA DevRemoveStep ==
    ASSUME FilesInv, NEW p \in Procs, lockdev_remove(p)
    PROVE  FilesInv'
  <1>0. Base
    BY DEF FilesInv
  <1>1. proc[p] \in Process /\ lost \in BOOLEAN /\ Part(kind, proc[p])
    BY <1>0, BaseFacts
  <1>2. PICK a \in {"idle", "recreate"} : Steps(p, [proc[p] EXCEPT !.pc = a])
    BY DEF lockdev_remove, Goes
  <1> DEFINE x == [proc[p] EXCEPT !.pc = a]
  <1>3. a \in Points
    BY DEF Points
  <1>4. /\ x \in Process /\ x.pc = a /\ x.alive = proc[p].alive /\ x.tmp = proc[p].tmp
        /\ x.lock_count = proc[p].lock_count /\ x.unwritten = proc[p].unwritten
    BY <1>1, <1>3 DEF Process
  <1>5. /\ proc[p].alive /\ proc[p].pc = "remove" /\ Steps(p, x) /\ name' = None /\ Disk(data)
        /\ lost' = lost /\ faults' = faults /\ budget' = budget
    BY <1>2 DEF lockdev_remove, At, Quiet
  <1> HIDE DEF x
  <1>6. x.tmp = None /\ Part(kind, x) /\ kind = "lockdev"
    BY <1>1, <1>4, <1>5 DEF Part
  <1>7. Exclusion(p) => Owners = {}
    BY <1>5 DEF Exclusion, InCall, Resting, Caller
  <1>8. Owners = {} => OwnersWith(p, x) = {}
    BY <1>4 DEF Owners, Holders, OwnersWith
  <1>9. Caller(p, x, None, {})
    BY <1>4 DEF Caller
  <1>10. ~DevSound
    BY <1>5 DEF DevSound
  <1> QED BY <1>1, <1>4, <1>5, <1>6, <1>7, <1>8, <1>9, <1>10, RemoveStep

\* A dead process holds no lock and keeps its temporary file.
LEMMA DeadFacts ==
    ASSUME NEW y \in Process
    PROVE  /\ Dead(y) \in Process /\ ~Dead(y).alive /\ Dead(y).pc = "idle" /\ Dead(y).tmp = y.tmp
           /\ Dead(y).lock_count = 0 /\ ~Dead(y).unwritten
  <1>1. NewProcess \in Process
    BY FilesAssumption DEF NewProcess, Process, Points, Operations
  <1>2. Dead(y) \in Process /\ ~Dead(y).alive /\ Dead(y).tmp = y.tmp
    BY <1>1 DEF Dead, Process
  <1>3. Dead(y).pc = "idle" /\ Dead(y).lock_count = 0 /\ ~Dead(y).unwritten
    BY DEF Dead, NewProcess
  <1> QED BY <1>2, <1>3

\* do_unload(): whoever removes the pid file of another daemon has been counted as lost.
LEMMA UnloadStep ==
    ASSUME FilesInv, NEW p \in Procs, do_unload(p)
    PROVE  FilesInv'
  <1> DEFINE x == Dead(proc[p])
  <1>0. Base
    BY DEF FilesInv
  <1>1. proc[p] \in Process /\ lost \in BOOLEAN /\ Part(kind, proc[p]) /\ proc \in [Procs -> Process]
    BY <1>0, BaseFacts
  <1>4. x \in Process /\ x.pc = "idle" /\ ~x.alive /\ x.tmp = proc[p].tmp /\ x.lock_count = 0 /\ ~x.unwritten
    BY <1>1, DeadFacts
  <1>5. /\ proc[p].alive /\ proc[p].pc = "unload" /\ Steps(p, x) /\ name' = None /\ Disk(data)
        /\ faults' = faults /\ budget' = budget /\ lost' = (lost \/ (proc[p].lock_count = 0 /\ name # None))
    BY DEF do_unload, At
  <1> HIDE DEF x
  <1>6. x.tmp = None /\ Part(kind, x) /\ kind = "daemon"
    BY <1>1, <1>4, <1>5 DEF Part
  <1>7. lost' \in BOOLEAN /\ (lost => lost')
    BY <1>1, <1>5
  <1>8. ~lost' /\ Exclusion(p) => Owners \subseteq {p}
    <2>1. Exclusion(p) => Held(Owners, File(name, data))
      BY DEF Exclusion
    <2>2. CASE proc[p].lock_count = 0 /\ name = None
      BY <2>1, <2>2, FilesAssumption DEF Held, File, Blank, Owners, Holders
    <2>3. CASE proc[p].lock_count # 0
      <3>1. p \in Owners
        <4>1. proc[p].lock_count \in 0..2
          BY <1>1 DEF Process
        <4>2. ~proc[p].unwritten
          BY <1>1, <1>6 DEF Part
        <4> QED BY <1>5, <2>3, <4>1, <4>2 DEF Owners, Holders
      <3> QED BY <2>1, <3>1 DEF Held
    <2> QED BY <1>5, <2>2, <2>3
  <1>9. Owners \subseteq {p} => OwnersWith(p, x) = {}
    BY <1>4 DEF OwnersWith
  <1> QED BY <1>1, <1>4, <1>5, <1>6, <1>7, <1>8, <1>9, RemoveStep

\* A device's lock is counted up or down, but not to 0.
LEMMA CountStep ==
    ASSUME FilesInv, NEW p \in Procs, NEW n \in 1..2, kind = "lockdev", proc[p].alive, proc[p].pc = "idle",
           proc[p].lock_count > 0, Steps(p, [proc[p] EXCEPT !.lock_count = n]), name' = name, Disk(data),
           lost' = lost, budget' \in Nat, faults' = faults
    PROVE  FilesInv'
  <1> DEFINE x == [proc[p] EXCEPT !.lock_count = n]
  <1>0. Base /\ Solo /\ Dev
    BY DEF FilesInv
  <1>1. /\ name \in Inodes \cup {None} /\ data \in [Inodes -> Contents] /\ proc[p] \in Process
        /\ lost \in BOOLEAN /\ faults \in 0..MaxFaults /\ Part(kind, proc[p])
    BY <1>0, BaseFacts
  <1>2. n \in 0..2 /\ n > 0
    OBVIOUS
  <1>3. /\ x \in Process /\ x.pc = "idle" /\ x.alive /\ x.tmp = proc[p].tmp /\ x.lock_count = n
        /\ x.unwritten = proc[p].unwritten
    BY <1>1, <1>2 DEF Process
  <1>4. Steps(p, x)
    OBVIOUS
  <1> HIDE DEF x
  <1>5. x.tmp = None /\ Part(kind, x)
    BY <1>1, <1>3 DEF Part
  <1>6. Base'
    <2>2. Written(p, x, data, lost')
      BY <1>3 DEF Written
    <2>3. \A q \in Procs : q # p /\ proc[q].tmp # None =>
               data[proc[q].tmp] = data[proc[q].tmp] /\ proc[q].tmp # name /\ proc[q].tmp # x.tmp
      BY <1>0, <1>5 DEF Base, Separate
    <2> QED BY <1>0, <1>1, <1>3, <1>4, <1>5, <2>2, <2>3, BaseStep
  <1>7. Solo'
    <2>1. OwnersWith(p, x) = Owners
      BY <1>2, <1>3 DEF OwnersWith, Owners, Holders
    <2>2. AliveWith(p, x) = Alive
      BY <1>3 DEF AliveWith, Alive
    <2>3. Calm /\ (lost' => kind = "lockfile") /\ Others(p) = {} /\ Exclusion(p) =>
               /\ Held(OwnersWith(p, x), File(name, data))
               /\ Known(OwnersWith(p, x), AliveWith(p, x), File(name, data))
               /\ x.alive /\ x.pc \notin Resting => Caller(p, x, name, OwnersWith(p, x))
      BY <1>3, <2>1, <2>2 DEF Exclusion, Resting
    <2> QED BY <1>0, <1>1, <1>3, <1>4, <2>3, SoloStep
  <1>8. Dev'
    <2>0. faults' \in Nat /\ faults <= faults'
      BY <1>1, FilesAssumption
    <2>1. p \in Owning
      BY DEF Owns, Owning
    <2>2. kind = "lockdev" /\ faults' = 0 /\ DevSound =>
               /\ x.alive /\ x.pc \notin {"remove", "recreate"}
               /\ \A i \in Inodes : data[i].n # 0 => data[i] = data[i] \/ data[i].by = p
               /\ Owns(x) => name # None /\ Owning \subseteq {p}
               /\ name = None => Owning \subseteq {p}
      BY <1>3, <2>1 DEF DevSound
    <2> QED BY <1>0, <1>1, <1>3, <1>4, <2>0, <2>2, DevStep
  <1> QED BY <1>6, <1>7, <1>8 DEF FilesInv

\* lock() of a device that is locked already,
LEMMA AgainStep ==
    ASSUME FilesInv, NEW p \in Procs, lockdev_again(p)
    PROVE  FilesInv'
  <1>1. budget \in Nat
    BY BaseFacts DEF FilesInv
  <1>2. budget' \in Nat
    BY <1>1 DEF lockdev_again
  <1>3. 2 \in 1..2
    OBVIOUS
  <1>4. /\ kind = "lockdev" /\ proc[p].alive /\ proc[p].pc = "idle" /\ proc[p].lock_count > 0
        /\ Steps(p, [proc[p] EXCEPT !.lock_count = 2]) /\ name' = name /\ Disk(data)
        /\ lost' = lost /\ faults' = faults
    BY DEF lockdev_again, At
  <1> QED BY <1>2, <1>3, <1>4, CountStep

\* and unlock(), of which the last removes the file.
LEMMA UnlockStep ==
    ASSUME FilesInv, NEW p \in Procs, lockdev_unlock(p)
    PROVE  FilesInv'
  <1>0. Base
    BY DEF FilesInv
  <1>1. /\ proc[p] \in Process /\ lost \in BOOLEAN /\ Part(kind, proc[p]) /\ budget \in Nat
        /\ faults \in 0..MaxFaults
    BY <1>0, BaseFacts
  <1>2. proc[p].lock_count \in 0..2
    BY <1>1 DEF Process
  <1>3. /\ kind = "lockdev" /\ proc[p].alive /\ proc[p].pc = "idle" /\ proc[p].lock_count > 0
        /\ Steps(p, [proc[p] EXCEPT !.lock_count = proc[p].lock_count - 1]) /\ Disk(data)
        /\ lost' = lost /\ faults' = faults /\ budget' = budget
        /\ name' = IF proc[p].lock_count = 1 THEN None ELSE name
    BY DEF lockdev_unlock, At, Quiet
  <1>6. ~proc[p].unwritten
    BY <1>1, <1>3 DEF Part
  <1>4. CASE proc[p].lock_count = 2
    <2>1. /\ 1 \in 1..2 /\ name' = name /\ proc[p].lock_count - 1 = 1
      BY <1>3, <1>4
    <2>2. Steps(p, [proc[p] EXCEPT !.lock_count = 1])
      BY <1>3, <2>1
    <2> QED BY <1>1, <1>3, <2>1, <2>2, CountStep
  <1>5. CASE proc[p].lock_count = 1
    <2> DEFINE x == [proc[p] EXCEPT !.lock_count = 0]
    <2>1. Steps(p, x) /\ name' = None /\ 0 \in 0..2
      BY <1>3, <1>5
    <2>2. x \in Process /\ x.pc = "idle" /\ x.alive /\ x.tmp = proc[p].tmp /\ x.lock_count = 0 /\ ~x.unwritten
      BY <1>1, <1>3, <1>6, <2>1 DEF Process
    <2> HIDE DEF x
    <2>3. x.tmp = None /\ Part(kind, x)
      BY <1>1, <1>3, <2>2 DEF Part
    <2>4. p \in Owners
      BY <1>3, <1>6 DEF Owners, Holders
    <2>5. Exclusion(p) => Owners \subseteq {p}
      BY <2>4 DEF Exclusion, Held
    <2>6. Owners \subseteq {p} => OwnersWith(p, x) = {}
      BY <2>2 DEF OwnersWith
    <2>7. p \in Owning /\ ~Owns(x)
      BY <1>3, <2>2 DEF Owning, Owns
    <2>8. DevSound => Owning \subseteq {p}
      BY <2>7 DEF DevSound
    <2>9. x.pc \in Resting
      BY <2>2 DEF Resting
    <2> QED BY <1>1, <1>3, <2>1, <2>2, <2>3, <2>5, <2>6, <2>7, <2>8, <2>9, RemoveStep
  <1> QED BY <1>2, <1>3, <1>4, <1>5

\* open(O_CREAT | O_EXCL) of a name that is free, of a WvLockFile and of a WvLockDev.
LEMMA CreateStep ==
    ASSUME FilesInv, NEW p \in Procs, proc[p].alive, Creates(p, [proc[p] EXCEPT !.pc = "print"]), Quiet,
           \/ proc[p].pc = "create"
           \/ proc[p].pc = "recreate"
    PROVE  FilesInv'
  <1> DEFINE i == NewInode
             y == [proc[p] EXCEPT !.pc = "print"]
             x == [y EXCEPT !.fd = i]
  <1>0. Base /\ Solo /\ Dev
    BY DEF FilesInv
  <1>1. /\ name \in Inodes \cup {None} /\ data \in [Inodes -> Contents] /\ proc[p] \in Process
        /\ lost \in BOOLEAN /\ faults \in 0..MaxFaults /\ budget \in Nat /\ Part(kind, proc[p])
    BY <1>0, BaseFacts
  <1>2. /\ name = None /\ name' = i /\ Steps(p, x) /\ Disk(data)
        /\ lost' = lost /\ budget' = budget /\ faults' = faults
    BY DEF Creates, Quiet
  <1>3. i \in Inodes /\ i \notin InUse /\ i # None
    BY <1>2, Fresh, InodeFacts DEF InUse
  <1> HIDE DEF i
  <1>4. /\ y \in Process /\ y.pc = "print" /\ y.alive /\ y.tmp = proc[p].tmp
        /\ y.lock_count = proc[p].lock_count /\ y.unwritten = proc[p].unwritten
    <2>1. "print" \in Points
      BY DEF Points
    <2> QED BY <1>1, <2>1 DEF Process
  <1> HIDE DEF y
  <1>5. /\ x \in Process /\ x.pc = "print" /\ x.alive /\ x.tmp = proc[p].tmp
        /\ x.lock_count = proc[p].lock_count /\ x.unwritten = proc[p].unwritten
        /\ x.fd = i
    BY <1>3, <1>4 DEF Process
  <1> HIDE DEF x
  <1>6. x.tmp = None /\ Part(kind, x) /\ kind # "writer"
    BY <1>1, <1>5 DEF Part
  <1>7. data[i] = Blank
    BY <1>0, <1>3 DEF Base, Freed
  <1>8. Base'
    <2>1. Written(p, x, data, lost')
      BY <1>5 DEF Written
    <2>2. \A q \in Procs : q # p /\ proc[q].tmp # None =>
               data[proc[q].tmp] = data[proc[q].tmp] /\ proc[q].tmp # i /\ proc[q].tmp # x.tmp
      BY <1>3, <1>6 DEF InUse
    <2> QED BY <1>0, <1>1, <1>2, <1>3, <1>5, <1>6, <2>1, <2>2, BaseStep
  <1>9. Solo'
    <2>1. Exclusion(p) => Owners = {}
      BY <1>2, FilesAssumption DEF Exclusion, Held, File, Blank, Owners, Holders
    <2>2. Owners = {} => OwnersWith(p, x) = {}
      BY <1>5 DEF OwnersWith, Owners, Holders
    <2>3. Known({}, AliveWith(p, x), File(i, data)) /\ Held({}, File(i, data))
      BY <1>3, <1>7 DEF Known, Held, File, Blank
    <2>4. Caller(p, x, i, {})
      BY <1>3, <1>5 DEF Caller
    <2>5. Calm /\ (lost' => kind = "lockfile") /\ Others(p) = {} /\ Exclusion(p) =>
               /\ Held(OwnersWith(p, x), File(i, data))
               /\ Known(OwnersWith(p, x), AliveWith(p, x), File(i, data))
               /\ x.alive /\ x.pc \notin Resting => Caller(p, x, i, OwnersWith(p, x))
      BY <2>1, <2>2, <2>3, <2>4
    <2> QED BY <1>0, <1>1, <1>2, <1>3, <1>5, <2>5, SoloStep
  <1>10. Dev'
    <2>0. faults' \in Nat /\ faults <= faults'
      BY <1>1, <1>2, FilesAssumption
    <2>1. DevSound => Owning = {}
      BY <1>2 DEF DevSound
    <2>2. kind = "lockdev" /\ faults' = 0 /\ DevSound =>
               /\ x.alive /\ x.pc \notin {"remove", "recreate"}
               /\ \A j \in Inodes : data[j].n # 0 => data[j] = data[j] \/ data[j].by = p
               /\ Owns(x) => i # None /\ Owning \subseteq {p}
               /\ i = None => Owning \subseteq {p}
      BY <1>3, <1>5, <2>1
    <2> QED BY <1>0, <1>1, <1>2, <1>3, <1>5, <2>0, <2>2, DevStep
  <1> QED BY <1>8, <1>9, <1>10 DEF FilesInv

\* The second open() of WvLockDev, which may fail unnoticed: because of another call, or of
\* an error that counts as lost.
LEMMA RecreateStep ==
    ASSUME FilesInv, NEW p \in Procs, lockdev_recreate(p)
    PROVE  FilesInv'
  <1>0. proc[p].alive /\ proc[p].pc = "recreate"
    BY DEF lockdev_recreate, At
  <1>1. CASE Creates(p, [proc[p] EXCEPT !.pc = "print"]) /\ Quiet
    BY <1>0, <1>1, CreateStep
  <1>2. CASE Goes(p, "print") /\ UNCHANGED name /\ Disk(data) /\ (IF name # None THEN Quiet ELSE Fails)
    <2> DEFINE x == [proc[p] EXCEPT !.pc = "print"]
    <2>0. Base
      BY DEF FilesInv
    <2>1. /\ proc[p] \in Process /\ lost \in BOOLEAN /\ budget \in Nat /\ faults \in 0..MaxFaults
          /\ Part(kind, proc[p])
      BY <2>0, BaseFacts
    <2>2. "print" \in Points
      BY DEF Points
    <2>3. /\ x \in Process /\ x.pc = "print" /\ x.alive = proc[p].alive /\ x.tmp = proc[p].tmp
          /\ x.lock_count = proc[p].lock_count /\ x.unwritten = proc[p].unwritten
      BY <2>1, <2>2 DEF Process
    <2>4. Steps(p, x) /\ budget' = budget /\ lost' \in BOOLEAN /\ (lost => lost') /\ (name = None => lost')
      BY <1>2, <2>1 DEF Goes, Quiet, Fails, Fault
    <2>5. faults' \in 0..MaxFaults /\ faults <= faults'
      BY <1>2, <2>1, FilesAssumption DEF Quiet, Fails, Fault
    <2> HIDE DEF x
    <2>6. x.tmp = None /\ Part(kind, x) /\ kind = "lockdev"
      BY <1>0, <2>1, <2>3 DEF Part
    <2>7. Exclusion(p) => name = None
      BY <1>0 DEF Exclusion, InCall, Resting, Caller
    <2>8. ~DevSound
      BY <1>0 DEF DevSound
    <2> QED BY <1>0, <1>2, <2>1, <2>3, <2>4, <2>5, <2>6, <2>7, <2>8, MoveStep
  <1> QED BY <1>1, <1>2 DEF lockdev_recreate

\* lock() returns true: p has written e to the file that it has open.  A device is p's then,
\* a lock file is p's if e is its pid.
LEMMA LockedStep ==
    ASSUME FilesInv, NEW p \in Procs, NEW x \in Process, NEW e \in Contents, name' = name, Steps(p, x),
           Disk([j \in Inodes |-> IF j = proc[p].fd THEN e ELSE data[j]]),
           kind \in {"lockfile", "lockdev"}, proc[p].alive, proc[p].pc = "print",
           lost' = lost, budget' = budget, faults' \in 0..MaxFaults, faults <= faults',
           x.pc = "idle", x.alive, x.tmp = proc[p].tmp, x.lock_count = 1,
           e.by = p, x.unwritten <=> (kind = "lockfile" /\ e.n = 0)
    PROVE  FilesInv'
  <1> DEFINE i == proc[p].fd
             d == [j \in Inodes |-> IF j = i THEN e ELSE data[j]]
  <1>0. Base /\ Solo /\ Dev
    BY DEF FilesInv
  <1>1. /\ name \in Inodes \cup {None} /\ data \in [Inodes -> Contents] /\ proc[p] \in Process
        /\ lost \in BOOLEAN /\ faults \in 0..MaxFaults /\ budget \in Nat /\ Part(kind, proc[p])
    BY <1>0, BaseFacts
  <1>2. Disk(d)
    OBVIOUS
  <1> HIDE DEF i
  <1>4. d \in [Inodes -> Contents] /\ \A j \in Inodes : d[j] = IF j = i THEN e ELSE data[j]
    BY <1>1
  <1> HIDE DEF d
  <1>7. x.tmp = None /\ Part(kind, x)
    BY <1>1 DEF Part
  <1>8. Base'
    <2>1. Written(p, x, d, lost')
      BY DEF Written
    <2>2. \A q \in Procs : proc[q].tmp = None
      BY <1>0 DEF Base, Part
    <2> QED BY <1>0, <1>1, <1>2, <1>4, <1>7, <2>1, <2>2, BaseStep
  <1>9. Solo'
    <2>1. Exclusion(p) => Owners = {} /\ i = name /\ name # None
      BY DEF Exclusion, Caller, InCall, Resting, i
    <2>2. Owners = {} => OwnersWith(p, x) = IF x.unwritten THEN {} ELSE {p}
      BY DEF OwnersWith
    <2>3. i = name /\ name # None => File(name, d) = e
      BY <1>1, <1>4 DEF File
    <2>4. x.unwritten => Held({}, e) /\ Known({}, AliveWith(p, x), e)
      BY DEF Held, Known
    <2>5. ~x.unwritten => Held({p}, e) /\ Known({p}, AliveWith(p, x), e)
      BY DEF Held, Known
    <2>6. x.pc \in Resting
      BY DEF Resting
    <2>7. Calm /\ (lost' => kind = "lockfile") /\ Others(p) = {} /\ Exclusion(p) =>
               /\ Held(OwnersWith(p, x), File(name, d))
               /\ Known(OwnersWith(p, x), AliveWith(p, x), File(name, d))
               /\ x.alive /\ x.pc \notin Resting => Caller(p, x, name, OwnersWith(p, x))
      BY <2>1, <2>2, <2>3, <2>4, <2>5, <2>6
    <2> QED BY <1>0, <1>1, <1>2, <1>4, <2>7, SoloStep
  <1>10. Dev'
    <2>0. faults' \in Nat
      BY FilesAssumption
    <2>1. p \in Owning
      BY DEF Owning, Owns
    <2>2. DevSound => name # None /\ Owning \subseteq {p}
      BY <2>1 DEF DevSound
    <2>3. \A j \in Inodes : d[j] = data[j] \/ d[j].by = p
      BY <1>4
    <2>4. kind = "lockdev" /\ faults' = 0 /\ DevSound =>
               /\ x.alive /\ x.pc \notin {"remove", "recreate"}
               /\ \A j \in Inodes : d[j].n # 0 => d[j] = data[j] \/ d[j].by = p
               /\ Owns(x) => name # None /\ Owning \subseteq {p}
               /\ name = None => Owning \subseteq {p}
      BY <2>2, <2>3
    <2> QED BY <1>0, <1>1, <1>2, <1>4, <2>0, <2>4, DevStep
  <1> QED BY <1>8, <1>9, <1>10 DEF FilesInv

\* The pid is written or not, and lock() returns true.
LEMMA PrintStep ==
    ASSUME FilesInv, NEW p \in Procs, lock_print(p) \/ lockdev_print(p)
    PROVE  FilesInv'
  <1>0. Base
    BY DEF FilesInv
  <1>1. /\ proc[p] \in Process /\ faults \in 0..MaxFaults /\ Part(kind, proc[p])
    BY <1>0, BaseFacts
  <1> DEFINE y == [proc[p] EXCEPT !.pc = "idle", !.lock_count = 1]
             z(u) == [y EXCEPT !.unwritten = u]
             x(u) == [z(u) EXCEPT !.fd = None]
             e == [Blank EXCEPT !.by = p, !.n = Chunks]
             b == [Blank EXCEPT !.by = p]
  <1>2. y \in Process /\ y.pc = "idle" /\ y.alive = proc[p].alive /\ y.tmp = proc[p].tmp /\ y.lock_count = 1
        /\ y.unwritten = proc[p].unwritten
    <2>1. "idle" \in Points /\ 1 \in 0..2
      BY DEF Points
    <2> QED BY <1>1, <2>1 DEF Process
  <1>3. Blank \in Contents /\ Blank.n = 0 /\ Chunks \in 0..Chunks /\ Chunks # 0
    BY FilesAssumption DEF Blank, Contents
  <1>4. e \in Contents /\ e.by = p /\ e.n = Chunks
    BY <1>3 DEF Contents
  <1>5. b \in Contents /\ b.by = p /\ b.n = 0
    BY <1>3 DEF Contents
  <1>6. ~proc[p].unwritten \/ kind = "lockfile"
    BY <1>1 DEF Part
  <1>7. ~proc[p].unwritten => y = z(FALSE)
    <2> HIDE DEF y
    <2> QED BY <1>2 DEF Process
  <1> HIDE DEF y, e, b
  <1>8. PICK c \in {e, b}, u \in BOOLEAN :
            /\ Steps(p, x(u)) /\ name' = name
            /\ Disk([j \in Inodes |-> IF j = proc[p].fd THEN c ELSE data[j]])
            /\ u <=> (kind = "lockfile" /\ c.n = 0)
            /\ Quiet \/ Refused
    <2>1. CASE lock_print(p)
      <3>0. kind = "lockfile"
        BY <2>1 DEF lock_print
      <3>1. CASE Writes(p, z(FALSE)) /\ Quiet
        <4>1. /\ Steps(p, x(FALSE)) /\ name' = name
              /\ Disk([j \in Inodes |-> IF j = proc[p].fd THEN e ELSE data[j]])
          BY <3>1 DEF Writes, e
        <4> QED BY <1>3, <1>4, <3>1, <4>1
      <3>2. CASE WritesNothing(p, z(TRUE)) /\ Refused
        <4>1. /\ Steps(p, x(TRUE)) /\ name' = name
              /\ Disk([j \in Inodes |-> IF j = proc[p].fd THEN b ELSE data[j]])
          BY <3>2 DEF WritesNothing, b
        <4> QED BY <1>5, <3>0, <3>2, <4>1
      <3> QED BY <2>1, <3>1, <3>2 DEF lock_print, y
    <2>2. CASE lockdev_print(p)
      <3>0. kind = "lockdev" /\ y = z(FALSE)
        BY <1>6, <1>7, <2>2 DEF lockdev_print
      <3>1. CASE Writes(p, y) /\ Quiet
        <4>1. /\ Steps(p, x(FALSE)) /\ name' = name
              /\ Disk([j \in Inodes |-> IF j = proc[p].fd THEN e ELSE data[j]])
          BY <3>0, <3>1 DEF Writes, e
        <4> QED BY <1>3, <1>4, <3>1, <4>1
      <3>2. CASE WritesNothing(p, y) /\ Refused
        <4>1. /\ Steps(p, x(FALSE)) /\ name' = name
              /\ Disk([j \in Inodes |-> IF j = proc[p].fd THEN b ELSE data[j]])
          BY <3>0, <3>2 DEF WritesNothing, b
        <4> QED BY <1>5, <3>0, <3>2, <4>1
      <3> QED BY <2>2, <3>1, <3>2 DEF lockdev_print, y
    <2> QED BY <2>1, <2>2
  <1>9. proc[p].alive /\ proc[p].pc = "print" /\ kind \in {"lockfile", "lockdev"}
    BY DEF lock_print, lockdev_print, At
  <1>10. lost' = lost /\ budget' = budget /\ faults' \in 0..MaxFaults /\ faults <= faults'
    BY <1>1, <1>8, FilesAssumption DEF Quiet, Refused, Fault
  <1>11. z(u) \in Process /\ z(u).pc = "idle" /\ z(u).alive = proc[p].alive /\ z(u).tmp = proc[p].tmp
         /\ z(u).lock_count = 1 /\ z(u).unwritten = u
    BY <1>2 DEF Process
  <1> HIDE DEF z
  <1>12. /\ x(u) \in Process /\ x(u).pc = "idle" /\ x(u).alive /\ x(u).tmp = proc[p].tmp
         /\ x(u).lock_count = 1 /\ x(u).unwritten = u
    BY <1>9, <1>11 DEF Process
  <1>13. c \in Contents /\ c.by = p
    BY <1>4, <1>5
  <1> HIDE DEF x
  <1> QED BY <1>8, <1>9, <1>10, <1>12, <1>13, LockedStep

\* mkstemp().
LEMMA OpenStep ==
    ASSUME FilesInv, NEW p \in Procs, proc[p].alive, proc[p].pc = "mkstemp", name' = name,
           Steps(p, [proc[p] EXCEPT !.pc = "write", !.tmp = NewInode]),
           Disk([data EXCEPT ![NewInode].by = p]), Quiet
    PROVE  FilesInv'
  <1> DEFINE i == NewInode
             x == [proc[p] EXCEPT !.pc = "write", !.tmp = i]
             d == [data EXCEPT ![i].by = p]
  <1>0. Base /\ Solo /\ Dev
    BY DEF FilesInv
  <1>1. /\ name \in Inodes \cup {None} /\ data \in [Inodes -> Contents] /\ proc[p] \in Process
        /\ lost \in BOOLEAN /\ faults \in 0..MaxFaults /\ budget \in Nat /\ Part(kind, proc[p])
    BY <1>0, BaseFacts
  <1>2. /\ Steps(p, x) /\ Disk(d) /\ lost' = lost /\ budget' = budget /\ faults' = faults
    BY DEF Quiet
  <1>3. i \in Inodes /\ i \notin InUse /\ i # None
    <2>1. proc[p].tmp = None
      BY <1>1 DEF Part
    <2> QED BY <2>1, Fresh, InodeFacts DEF InUse
  <1> HIDE DEF i
  <1>4. data[i] = Blank
    BY <1>0, <1>3 DEF Base, Freed
  <1>5. /\ d \in [Inodes -> Contents] /\ d[i].by = p /\ d[i].n = 0 /\ ~d[i].bad
        /\ \A j \in Inodes : j # i => d[j] = data[j]
    <2> DEFINE e == [data[i] EXCEPT !.by = p]
    <2>0. Blank.n = 0 /\ ~Blank.bad
      BY DEF Blank
    <2>1. data[i] \in Contents /\ data[i].n = 0 /\ ~data[i].bad
      BY <1>1, <1>3, <1>4, <2>0
    <2>2. e \in Contents /\ e.by = p /\ e.n = 0 /\ ~e.bad
      BY <2>1 DEF Contents
    <2>3. d = [data EXCEPT ![i] = e]
      BY <1>1, <1>3
    <2> HIDE DEF e, d
    <2> QED BY <1>1, <1>3, <2>2, <2>3
  <1> HIDE DEF d
  <1>6. /\ x \in Process /\ x.pc = "write" /\ x.alive /\ x.tmp = i
        /\ x.lock_count = proc[p].lock_count /\ x.unwritten = proc[p].unwritten
    <2>1. "write" \in Points
      BY DEF Points
    <2> QED BY <1>1, <1>3, <2>1 DEF Process
  <1> HIDE DEF x
  <1>7. Part(kind, x) /\ kind \in {"writer", "daemon"}
    BY <1>1, <1>3, <1>6 DEF Part
  <1>8. name # i /\ \A q \in Procs : proc[q].tmp # i
    BY <1>3 DEF InUse
  <1>9. Base'
    <2>1. Written(p, x, d, lost')
      BY <1>5, <1>6, FilesAssumption DEF Written
    <2>2. ASSUME NEW q \in Procs, q # p, proc[q].tmp # None
          PROVE  d[proc[q].tmp] = data[proc[q].tmp] /\ proc[q].tmp # name /\ proc[q].tmp # x.tmp
      <3>1. proc[q].tmp \in Inodes
        BY <1>0, <2>2, BaseFacts
      <3> QED BY <1>0, <1>5, <1>6, <1>8, <2>2, <3>1 DEF Base, Separate
    <2>3. kind = "writer" /\ name # None => d[name].n = Chunks \/ d[name].bad
      BY <1>0, <1>1, <1>5, <1>8 DEF Base, FileIsOldOrNew
    <2> QED BY <1>0, <1>1, <1>2, <1>5, <1>6, <1>7, <1>8, <2>1, <2>2, <2>3, BaseStep
  <1>10. Solo'
    <2>1. Exclusion(p) => Owners = {}
      BY DEF Exclusion, InCall, Resting, Caller
    <2>2. Owners = {} => OwnersWith(p, x) = {}
      BY <1>6 DEF OwnersWith, Owners, Holders
    <2>3. Held({}, File(name, d)) /\ Known({}, AliveWith(p, x), File(name, d))
      BY <1>7 DEF Held, Known
    <2>4. Caller(p, x, name, {})
      BY <1>6 DEF Caller
    <2>5. Calm /\ (lost' => kind = "lockfile") /\ Others(p) = {} /\ Exclusion(p) =>
               /\ Held(OwnersWith(p, x), File(name, d))
               /\ Known(OwnersWith(p, x), AliveWith(p, x), File(name, d))
               /\ x.alive /\ x.pc \notin Resting => Caller(p, x, name, OwnersWith(p, x))
      BY <2>1, <2>2, <2>3, <2>4
    <2> QED BY <1>0, <1>1, <1>2, <1>5, <1>6, <2>5, SoloStep
  <1>11. Dev'
    BY <1>2, <1>7 DEF Dev, Steps
  <1> QED BY <1>9, <1>10, <1>11 DEF FilesInv

\* write() to the temporary file, the last one or one that fails included.
LEMMA WriteStep ==
    ASSUME FilesInv, NEW p \in Procs, atomic_write(p)
    PROVE  FilesInv'
  <1> DEFINE i == proc[p].tmp
             size == IF kind = "daemon" THEN Chunks ELSE 1
  <1>0. Base /\ Solo /\ Dev
    BY DEF FilesInv
  <1>1. /\ name \in Inodes \cup {None} /\ data \in [Inodes -> Contents] /\ proc[p] \in Process
        /\ lost \in BOOLEAN /\ faults \in 0..MaxFaults /\ budget \in Nat /\ Part(kind, proc[p])
        /\ Written(p, proc[p], data, lost) /\ i \in Inodes \cup {None}
    BY <1>0, BaseFacts
  <1>2. proc[p].alive /\ proc[p].pc = "write" /\ name' = name /\ kind' = kind
    BY DEF atomic_write, At, Goes, Steps
  <1>3. i \in Inodes /\ kind \in {"writer", "daemon"} /\ i # None
    BY <1>1, <1>2 DEF Part
  <1>4. /\ data[i].by = p /\ data[i].n < Chunks /\ ~data[i].bad /\ (kind = "daemon" => data[i].n = 0)
    BY <1>1, <1>2 DEF Written
  <1>5. data[i] \in Contents /\ data[i].n \in 0..Chunks
    BY <1>1, <1>3 DEF Contents
  <1>6. PICK a \in {"write", "rename"}, e \in Contents :
            /\ Steps(p, [proc[p] EXCEPT !.pc = a])
            /\ Disk([data EXCEPT ![i] = e])
            /\ e.by = p
            /\ a = "write" => e.n < Chunks /\ ~e.bad /\ (kind = "daemon" => e.n = 0)
            /\ a = "rename" => e.n = Chunks \/ (e.bad /\ lost')
            /\ lost => lost'
            /\ lost' \in BOOLEAN
            /\ budget' = budget
            /\ faults' \in 0..MaxFaults
    <2>1. CASE /\ Goes(p, IF data[i].n + size = Chunks THEN "rename" ELSE "write")
               /\ Disk([data EXCEPT ![i].n = @ + size])
               /\ Quiet
      <3> DEFINE n == data[i].n + size
                 a == IF n = Chunks THEN "rename" ELSE "write"
                 e == [data[i] EXCEPT !.n = n]
      <3>1. n \in 0..Chunks /\ (kind = "daemon" => n = Chunks)
        BY <1>4, <1>5, FilesAssumption
      <3>2. [data EXCEPT ![i].n = @ + size] = [data EXCEPT ![i] = e]
        BY <1>1, <1>3
      <3>3. Steps(p, [proc[p] EXCEPT !.pc = a]) /\ Disk([data EXCEPT ![i] = e])
        <4>1. Goes(p, a)
          BY <2>1
        <4>2. Disk([data EXCEPT ![i].n = @ + size])
          BY <2>1
        <4> HIDE DEF a
        <4>3. Steps(p, [proc[p] EXCEPT !.pc = a])
          BY <4>1 DEF Goes
        <4> QED BY <3>2, <4>2, <4>3
      <3>4. lost' = lost /\ budget' = budget /\ faults' = faults
        BY <2>1 DEF Quiet
      <3>5. a \in {"write", "rename"} /\ (a = "rename" => n = Chunks) /\ (a = "write" => n # Chunks)
        OBVIOUS
      <3> HIDE DEF n, a
      <3>6. e \in Contents /\ e.n = n /\ e.by = p /\ ~e.bad
        BY <1>4, <1>5, <3>1 DEF Contents
      <3> HIDE DEF e
      <3>7. a = "write" => e.n < Chunks /\ kind # "daemon"
        BY <3>1, <3>5, <3>6, FilesAssumption
      <3>8. a = "rename" => e.n = Chunks
        BY <3>5, <3>6
      <3> QED BY <1>1, <3>3, <3>4, <3>5, <3>6, <3>7, <3>8
    <2>2. CASE /\ Goes(p, "rename")
               /\ Disk([data EXCEPT ![i].bad = TRUE])
               /\ Fails
      <3> DEFINE e == [data[i] EXCEPT !.bad = TRUE]
      <3>1. [data EXCEPT ![i].bad = TRUE] = [data EXCEPT ![i] = e]
        BY <1>1, <1>3
      <3>2. Steps(p, [proc[p] EXCEPT !.pc = "rename"]) /\ Disk([data EXCEPT ![i] = e])
        BY <2>2, <3>1 DEF Goes
      <3>3. lost' = TRUE /\ budget' = budget /\ faults' \in 0..MaxFaults
        BY <1>1, <2>2, FilesAssumption DEF Fails, Fault
      <3>4. e \in Contents /\ e.by = p /\ e.bad
        BY <1>4, <1>5 DEF Contents
      <3> HIDE DEF e
      <3> QED BY <3>2, <3>3, <3>4
    <2> QED BY <2>1, <2>2 DEF atomic_write
  <1> DEFINE x == [proc[p] EXCEPT !.pc = a]
             d == [data EXCEPT ![i] = e]
  <1>7. Steps(p, x) /\ Disk(d)
    BY <1>6
  <1>8. /\ x \in Process /\ x.pc = a /\ x.alive /\ x.tmp = i
        /\ x.lock_count = proc[p].lock_count /\ x.unwritten = proc[p].unwritten
    <2>1. a \in Points
      BY DEF Points
    <2> QED BY <1>1, <1>2, <2>1 DEF Process
  <1> HIDE DEF x
  <1>9. Part(kind, x)
    BY <1>1, <1>2, <1>3, <1>8 DEF Part
  <1>10. d \in [Inodes -> Contents] /\ d[i] = e /\ \A j \in Inodes : j # i => d[j] = data[j]
    <2> HIDE DEF i
    <2> QED BY <1>1, <1>3
  <1> HIDE DEF d
  <1>11. i # name /\ \A q \in Procs : proc[q].tmp = i => q = p
    BY <1>0, <1>3 DEF Base, Separate
  <1>12. Base'
    <2>1. Written(p, x, d, lost')
      BY <1>6, <1>8, <1>10 DEF Written
    <2>2. ASSUME NEW q \in Procs, q # p, proc[q].tmp # None
          PROVE  d[proc[q].tmp] = data[proc[q].tmp] /\ proc[q].tmp # name /\ proc[q].tmp # x.tmp
      <3>1. proc[q].tmp \in Inodes
        BY <1>0, <2>2, BaseFacts
      <3> QED BY <1>0, <1>8, <1>10, <1>11, <2>2, <3>1 DEF Base, Separate
    <2>3. kind = "writer" /\ name # None => d[name].n = Chunks \/ d[name].bad
      BY <1>0, <1>1, <1>10, <1>11 DEF Base, FileIsOldOrNew
    <2>4. x.tmp # None => x.tmp # name
      BY <1>8, <1>11
    <2> QED BY <1>0, <1>1, <1>2, <1>6, <1>7, <1>8, <1>9, <1>10, <2>1, <2>2, <2>3, <2>4, BaseStep
  <1>13. Solo'
    <2>1. Exclusion(p) => Owners = {}
      BY <1>2 DEF Exclusion, InCall, Resting, Caller
    <2>2. Owners = {} => OwnersWith(p, x) = {}
      BY <1>2, <1>8 DEF OwnersWith, Owners, Holders
    <2>3. Held({}, File(name, d)) /\ Known({}, AliveWith(p, x), File(name, d))
      BY <1>3 DEF Held, Known
    <2>4. Caller(p, x, name, {})
      BY <1>8 DEF Caller
    <2>5. Calm /\ (lost' => kind = "lockfile") /\ Others(p) = {} /\ Exclusion(p) =>
               /\ Held(OwnersWith(p, x), File(name, d))
               /\ Known(OwnersWith(p, x), AliveWith(p, x), File(name, d))
               /\ x.alive /\ x.pc \notin Resting => Caller(p, x, name, OwnersWith(p, x))
      BY <2>1, <2>2, <2>3, <2>4
    <2> QED BY <1>0, <1>1, <1>2, <1>6, <1>7, <1>8, <1>10, <2>5, SoloStep
  <1>14. Dev'
    BY <1>2, <1>3 DEF Dev
  <1> QED BY <1>12, <1>13, <1>14 DEF FilesInv

\* The atomic file is closed: renamed, or lost.
LEMMA CloseStep ==
    ASSUME FilesInv, NEW p \in Procs, proc[p].alive, Steps(p, AfterClose(proc[p])), Disk(data),
           \/ proc[p].pc \in {"mkstemp", "rename"} /\ name' = name /\ Fails
           \/ proc[p].pc = "rename" /\ name' = proc[p].tmp /\ Quiet
    PROVE  FilesInv'
  <1> DEFINE x == AfterClose(proc[p])
             i == proc[p].tmp
  <1>0. Base /\ Solo /\ Dev
    BY DEF FilesInv
  <1>1. /\ name \in Inodes \cup {None} /\ data \in [Inodes -> Contents] /\ proc[p] \in Process
        /\ lost \in BOOLEAN /\ faults \in 0..MaxFaults /\ budget \in Nat /\ Part(kind, proc[p])
        /\ Written(p, proc[p], data, lost) /\ i \in Inodes \cup {None}
    BY <1>0, BaseFacts
  <1>2. kind \in {"writer", "daemon"} /\ kind' = kind /\ (proc[p].pc = "rename" => i # None)
    BY <1>1 DEF Part, Steps
  <1>3. lost' \in BOOLEAN /\ (lost => lost') /\ budget' = budget /\ faults' \in 0..MaxFaults
    <2>1. CASE Quiet
      BY <1>1, <2>1 DEF Quiet
    <2>2. CASE Fails
      BY <1>1, <2>2, FilesAssumption DEF Fails, Fault
    <2> QED BY <2>1, <2>2
  <1>4. PICK nm \in Inodes \cup {None} : name' = nm
    BY <1>1
  <1>5. nm = name \/ (nm = i /\ proc[p].pc = "rename" /\ lost' = lost)
    BY <1>4 DEF Quiet
  <1>6. nm = name => i # name \/ i = None
    BY <1>0 DEF Base, Separate
  <1>7. /\ x \in Process /\ x.alive /\ x.tmp = None /\ x.pc \in {"start", "idle"}
        /\ x.pc = "start" => kind = "daemon"
        /\ kind = "writer" => x.lock_count = proc[p].lock_count
        /\ x.unwritten = proc[p].unwritten
        /\ kind = "daemon" => x.lock_count = 1
        /\ x.unwritten = proc[p].unwritten
    <2>0. "start" \in Points /\ "idle" \in Points /\ 1 \in 0..2
      BY DEF Points
    <2>1. CASE kind = "daemon"
      <3>1. x = [proc[p] EXCEPT !.pc = "start", !.tmp = None, !.lock_count = 1,
                                !.sighup = "handler", !.sigterm = "handler"]
        BY <2>1 DEF AfterClose
      <3> HIDE DEF x
      <3>2. /\ x \in Process /\ x.alive /\ x.tmp = None /\ x.pc = "start" /\ x.lock_count = 1
            /\ x.unwritten = proc[p].unwritten
        BY <1>1, <2>0, <3>1 DEF Process
      <3> QED BY <2>1, <3>2
    <2>2. CASE kind # "daemon"
      <3>1. x = [proc[p] EXCEPT !.pc = "idle", !.tmp = None]
        BY <2>2 DEF AfterClose
      <3> HIDE DEF x
      <3>2. /\ x \in Process /\ x.alive /\ x.tmp = None /\ x.pc = "idle"
            /\ x.lock_count = proc[p].lock_count /\ x.unwritten = proc[p].unwritten
        BY <1>1, <2>0, <3>1 DEF Process
      <3> QED BY <2>2, <3>2
    <2> QED BY <2>1, <2>2
  <1>8. Steps(p, x)
    OBVIOUS
  <1> HIDE DEF x
  <1>9. Part(kind, x)
    BY <1>1, <1>2, <1>7 DEF Part
  <1>10. Base'
    <2>1. Written(p, x, data, lost')
      BY <1>7 DEF Written
    <2>2. ASSUME NEW q \in Procs, q # p, proc[q].tmp # None
          PROVE  data[proc[q].tmp] = data[proc[q].tmp] /\ proc[q].tmp # nm /\ proc[q].tmp # x.tmp
      <3>1. proc[q].tmp # name /\ (proc[p].tmp = proc[q].tmp => p = q)
        BY <1>0, <2>2 DEF Base, Separate
      <3> QED BY <1>5, <1>7, <2>2, <3>1
    <2>3. kind = "writer" /\ nm # None => data[nm].n = Chunks \/ data[nm].bad
      <3>1. name # None /\ kind = "writer" => data[name].n = Chunks \/ data[name].bad
        BY <1>0 DEF Base, FileIsOldOrNew
      <3>2. proc[p].pc = "rename" => data[i].n = Chunks \/ data[i].bad
        BY <1>1 DEF Written
      <3> QED BY <1>5, <3>1, <3>2
    <2> QED BY <1>0, <1>1, <1>3, <1>4, <1>7, <1>8, <1>9, <2>1, <2>2, <2>3, BaseStep
  <1>11. Solo'
    <2>0. x.pc \in Resting
      BY <1>7 DEF Resting
    <2>1. Exclusion(p) => Owners = {}
      BY DEF Exclusion, InCall, Resting, Caller
    <2>2. kind = "writer" /\ Owners = {} => OwnersWith(p, x) = {}
      BY <1>7 DEF OwnersWith, Owners, Holders
    <2>3. kind = "daemon" /\ Owners = {} => OwnersWith(p, x) = {p}
      BY <1>1, <1>2, <1>7 DEF OwnersWith, Part
    <2>4. kind = "daemon" /\ ~lost' => Held({p}, File(nm, data))
      <3>1. kind = "daemon" /\ ~lost' => nm = i /\ proc[p].pc = "rename" /\ ~lost
        BY <1>3, <1>4, <1>5 DEF Fails
      <3>2. proc[p].pc = "rename" /\ ~lost => data[i].by = p /\ data[i].n = Chunks
        BY <1>1 DEF Written
      <3> QED BY <1>2, <3>1, <3>2, FilesAssumption DEF Held, File
    <2>5. Held({}, File(nm, data))
      BY DEF Held
    <2>6. \A H : Known(H, AliveWith(p, x), File(nm, data))
      BY <1>2 DEF Known
    <2>7. Calm /\ (lost' => kind = "lockfile") /\ Others(p) = {} /\ Exclusion(p) =>
               /\ Held(OwnersWith(p, x), File(nm, data))
               /\ Known(OwnersWith(p, x), AliveWith(p, x), File(nm, data))
               /\ x.alive /\ x.pc \notin Resting => Caller(p, x, nm, OwnersWith(p, x))
      BY <1>2, <2>0, <2>1, <2>2, <2>3, <2>4, <2>5, <2>6
    <2> QED BY <1>0, <1>1, <1>3, <1>4, <1>7, <1>8, <2>7, SoloStep
  <1>12. Dev'
    BY <1>2 DEF Dev
  <1> QED BY <1>10, <1>11, <1>12 DEF FilesInv

\* A process is killed.
LEMMA KillStep ==
    ASSUME FilesInv, NEW p \in Procs, Kill(p)
    PROVE  FilesInv'
  <1> DEFINE x == Dead(proc[p])
  <1>0. Base /\ Solo /\ Dev
    BY DEF FilesInv
  <1>1. /\ name \in Inodes \cup {None} /\ data \in [Inodes -> Contents] /\ proc[p] \in Process
        /\ lost \in BOOLEAN /\ faults \in 0..MaxFaults /\ budget \in Nat /\ Part(kind, proc[p])
    BY <1>0, BaseFacts
  <1>2. x \in Process /\ x.pc = "idle" /\ ~x.alive /\ x.tmp = proc[p].tmp /\ x.lock_count = 0 /\ ~x.unwritten
    BY <1>1, DeadFacts
  <1>3. /\ proc[p].alive /\ Steps(p, x) /\ name' = name /\ Disk(data) /\ lost' = lost /\ budget' = budget
        /\ faults < MaxFaults /\ faults' = faults + 1
    BY DEF Kill, Fault
  <1>4. faults' \in 0..MaxFaults /\ faults' \in Nat /\ faults' # 0 /\ faults <= faults'
    BY <1>1, <1>3, FilesAssumption
  <1> HIDE DEF x
  <1>5. Part(kind, x)
    BY <1>1, <1>2 DEF Part
  <1>6. Base'
    <2>1. Written(p, x, data, lost')
      BY <1>2 DEF Written
    <2>2. ASSUME NEW q \in Procs, q # p, proc[q].tmp # None
          PROVE  data[proc[q].tmp] = data[proc[q].tmp] /\ proc[q].tmp # name /\ proc[q].tmp # x.tmp
      BY <1>0, <1>2, <2>2 DEF Base, Separate
    <2>3. kind = "writer" /\ name # None => data[name].n = Chunks \/ data[name].bad
      BY <1>0 DEF Base, FileIsOldOrNew
    <2>4. x.tmp # None => x.tmp # name
      BY <1>0, <1>2 DEF Base, Separate
    <2> QED BY <1>0, <1>1, <1>2, <1>3, <1>4, <1>5, <2>1, <2>2, <2>3, <2>4, BaseStep
  <1>7. Solo'
    <2>1. OwnersWith(p, x) = Owners \ {p}
      BY <1>2 DEF OwnersWith, Owners, Holders
    <2>2. AliveWith(p, x) = Alive \ {p}
      BY <1>2 DEF AliveWith, Alive
    <2>3. Held(Owners, File(name, data)) => Held(Owners \ {p}, File(name, data))
      BY DEF Held
    <2>4. Known(Owners, Alive, File(name, data)) => Known(Owners \ {p}, Alive \ {p}, File(name, data))
      BY DEF Known
    <2>5. Calm /\ (lost' => kind = "lockfile") /\ Others(p) = {} /\ Exclusion(p) =>
               /\ Held(OwnersWith(p, x), File(name, data))
               /\ Known(OwnersWith(p, x), AliveWith(p, x), File(name, data))
               /\ x.alive /\ x.pc \notin Resting => Caller(p, x, name, OwnersWith(p, x))
      BY <1>2, <2>1, <2>2, <2>3, <2>4 DEF Exclusion
    <2> QED BY <1>0, <1>1, <1>2, <1>3, <2>5, SoloStep
  <1>8. Dev'
    BY <1>4 DEF Dev
  <1> QED BY <1>6, <1>7, <1>8 DEF FilesInv

\* The fields that the invariant is about.
SameProcess(x, y) ==
    /\ y.alive = x.alive /\ y.pc = x.pc /\ y.fd = x.fd /\ y.tmp = x.tmp /\ y.lock_count = x.lock_count
    /\ y.unwritten = x.unwritten

\* Steps that change none of them.
LEMMA SameStep ==
    ASSUME FilesInv, proc' \in [Procs -> Process], \A q \in Procs : SameProcess(proc[q], proc'[q]),
           UNCHANGED <<kind, name, data, overlap, lost, faults>>, budget' \in Nat
    PROVE  FilesInv'
  <1>0. Base /\ Solo /\ Dev
    BY DEF FilesInv
  <1>1. kind' = kind /\ name' = name /\ data' = data /\ overlap' = overlap /\ lost' = lost /\ faults' = faults
    OBVIOUS
  <1>2. \A q \in Procs : /\ proc'[q].alive = proc[q].alive /\ proc'[q].pc = proc[q].pc /\ proc'[q].fd = proc[q].fd
                         /\ proc'[q].tmp = proc[q].tmp /\ proc'[q].lock_count = proc[q].lock_count
                         /\ proc'[q].unwritten = proc[q].unwritten
    BY DEF SameProcess
  <1>3. InUse' = InUse
    <2>1. \A q \in Procs : proc'[q].fd = proc[q].fd /\ proc'[q].tmp = proc[q].tmp
      BY <1>2
    <2> QED BY <1>1, <2>1 DEF InUse
  <1>4. Base'
    <2>1. TypeOK'
      BY <1>0, <1>1 DEF Base, TypeOK
    <2>2. Separate'
      <3>1. Separate
        BY <1>0 DEF Base
      <3>2. \A q \in Procs : proc'[q].tmp = proc[q].tmp
        BY <1>2
      <3> QED BY <1>1, <3>1, <3>2 DEF Separate
    <2>3. Freed'
      BY <1>0, <1>1, <1>3 DEF Base, Freed
    <2>4. ASSUME NEW q \in Procs PROVE (Part(kind, proc[q]) /\ Written(q, proc[q], data, lost))'
      <3>0. Part(kind, proc[q]) /\ Written(q, proc[q], data, lost)
        BY <1>0 DEF Base
      <3>1. Part(kind, proc[q])'
        BY <1>1, <1>2, <3>0 DEF Part
      <3>2. Written(q, proc[q], data, lost)'
        BY <1>1, <1>2, <3>0 DEF Written
      <3> QED BY <3>1, <3>2
    <2>5. FileIsOldOrNew'
      BY <1>0, <1>1 DEF Base, FileIsOldOrNew
    <2> QED BY <2>1, <2>2, <2>3, <2>4, <2>5 DEF Base
  <1>5. Owners' = Owners /\ Alive' = Alive /\ Owning' = Owning
    BY <1>2 DEF Owners, Holders, Alive, Owning, Owns
  <1>6. \A q \in Procs : InCall(q)' <=> InCall(q)
    BY <1>2 DEF InCall
  <1>7. Solo'
    <2>1. ASSUME NEW q \in Procs, Exclusion(q) PROVE Exclusion(q)'
      <3>1. Held(Owners, File(name, data))' /\ Known(Owners, Alive, File(name, data))'
        BY <1>1, <1>5, <2>1 DEF Exclusion, Held, Known, File
      <3>2. Caller(q, proc[q], name, Owners) => Caller(q, proc[q], name, Owners)'
        BY <1>1, <1>2, <1>5 DEF Caller
      <3> QED BY <1>6, <2>1, <3>1, <3>2 DEF Exclusion
    <2>2. Calm' <=> Calm
      BY <1>1 DEF Calm
    <2> QED BY <1>0, <1>6, <2>1, <2>2 DEF Solo
  <1>8. Dev'
    <2>1. DevSound => DevSound'
      BY <1>1, <1>2, <1>5 DEF DevSound
    <2> QED BY <1>0, <1>1, <2>1 DEF Dev
  <1> QED BY <1>4, <1>7, <1>8 DEF FilesInv

\* Signals are such steps.
LEMMA SignalStep ==
    ASSUME FilesInv, NEW p \in Procs, SigHup(p) \/ SigTerm(p)
    PROVE  FilesInv'
  <1>1. proc \in [Procs -> Process] /\ proc[p] \in Process /\ budget \in Nat
    BY BaseFacts DEF FilesInv
  <1>2. PICK x \in Process : SameProcess(proc[p], x) /\ Signalled(p, x)
    <2>1. CASE SigHup(p)
      <3> DEFINE x == [proc[p] EXCEPT !.sighup = "ignore", !.want_to_restart = TRUE, !.hungup = TRUE]
      <3>1. x \in Process /\ SameProcess(proc[p], x)
        BY <1>1 DEF Process, SameProcess
      <3> QED BY <2>1, <3>1 DEF SigHup
    <2>2. CASE SigTerm(p)
      <3> DEFINE x == [proc[p] EXCEPT !.sigterm = "default", !.want_to_die = TRUE]
      <3>1. x \in Process /\ SameProcess(proc[p], x)
        BY <1>1 DEF Process, SameProcess
      <3> QED BY <2>2, <3>1 DEF SigTerm
    <2> QED BY <2>1, <2>2
  <1>3. budget' \in Nat
    BY <1>1 DEF SigHup, SigTerm
  <1>4. proc' = [proc EXCEPT ![p] = x] /\ UNCHANGED <<kind, name, data, overlap, lost, faults>>
    BY <1>2 DEF Signalled
  <1>5. proc' \in [Procs -> Process] /\ \A q \in Procs : SameProcess(proc[q], proc'[q])
    BY <1>1, <1>2, <1>4 DEF SameProcess
  <1> QED BY <1>3, <1>4, <1>5, SameStep

\* The invariant holds at the start, with whatever file was left there,
LEMMA InitSound == Init => FilesInv
  <1> SUFFICES ASSUME Init PROVE FilesInv
    OBVIOUS
  <1>1. NewProcess \in Process
    BY FilesAssumption DEF NewProcess, Process, Points, Operations
  <1>2. /\ NewProcess.pc = "idle" /\ NewProcess.tmp = None /\ NewProcess.lock_count = 0 /\ NewProcess.fd = None
        /\ ~NewProcess.unwritten
    BY DEF NewProcess
  <1>3. Dead(NewProcess) \in Process /\ Dead(NewProcess).pc = "idle" /\ Dead(NewProcess).tmp = None
        /\ Dead(NewProcess).lock_count = 0 /\ ~Dead(NewProcess).unwritten
    BY <1>1, <1>2, DeadFacts
  <1>4. PICK sc \in Scenarios :
            /\ kind = sc.kind
            /\ proc = [p \in Procs |-> IF p \in sc.procs THEN NewProcess ELSE Dead(NewProcess)]
    BY DEF Init
  <1>5. kind \in AllKinds
    BY <1>4, FilesAssumption
  <1>6. proc \in [Procs -> Process]
        /\ \A p \in Procs : proc[p].pc = "idle" /\ proc[p].tmp = None /\ proc[p].lock_count = 0 /\ ~proc[p].unwritten
    <2> DEFINE D == Dead(NewProcess)
               N == NewProcess
    <2>1. N \in Process /\ D \in Process
      BY <1>1, <1>3
    <2>2. /\ N.pc = "idle" /\ N.tmp = None /\ N.lock_count = 0 /\ ~N.unwritten
          /\ D.pc = "idle" /\ D.tmp = None /\ D.lock_count = 0 /\ ~D.unwritten
      BY <1>2, <1>3
    <2>3. proc = [p \in Procs |-> IF p \in sc.procs THEN N ELSE D]
      BY <1>4
    <2> HIDE DEF N, D
    <2> QED BY <2>1, <2>2, <2>3
  <1>7. Blank \in Contents /\ Blank.n = 0 /\ Blank.by = None
    BY FilesAssumption DEF Blank, Contents
  <1>8. PICK e \in Contents :
            /\ e.by = None
            /\ kind = "writer" => e.n = Chunks
            /\ \/ name = None /\ data = [i \in Inodes |-> Blank]
               \/ name = 1 /\ data = [i \in Inodes |-> IF i = 1 THEN e ELSE Blank] /\ (kind = "lockdev" => faults = 1)
    <2> DEFINE b == Blank
               e(n) == [b EXCEPT !.n = n]
    <2>1. \A n \in 0..Chunks : e(n) \in Contents /\ e(n).by = None /\ e(n).n = n
      <3> HIDE DEF b
      <3>1. b \in Contents /\ b.by = None
        BY <1>7 DEF b
      <3> QED BY <3>1 DEF Contents
    <2>2. 0 \in 0..Chunks /\ Chunks \in 0..Chunks
      BY FilesAssumption
    <2>3. CASE name = None /\ data = [i \in Inodes |-> Blank]
      BY <2>1, <2>2, <2>3
    <2>4. CASE /\ name = 1 /\ faults = (IF kind = "writer" THEN 0 ELSE 1)
               /\ \E n \in (IF kind = "writer" THEN {Chunks} ELSE {0, Chunks}) :
                     data = [i \in Inodes |-> IF i = 1 THEN [Blank EXCEPT !.n = n] ELSE Blank]
      <3>1. PICK n \in (IF kind = "writer" THEN {Chunks} ELSE {0, Chunks}) :
                data = [i \in Inodes |-> IF i = 1 THEN e(n) ELSE Blank]
        BY <2>4
      <3>2. n \in 0..Chunks /\ (kind = "writer" => n = Chunks)
        BY <2>2
      <3>3. e(n) \in Contents /\ e(n).by = None /\ e(n).n = n
        BY <2>1, <3>2
      <3>4. kind = "lockdev" => faults = 1
        BY <2>4
      <3> HIDE DEF e
      <3> QED BY <2>4, <3>1, <3>2, <3>3, <3>4
    <2> QED BY <2>3, <2>4 DEF Init
  <1>9. /\ name \in Inodes \cup {None} /\ data \in [Inodes -> Contents] /\ (name # None => name = 1)
        /\ \A i \in Inodes : i # name => data[i] = Blank
        /\ name # None => data[name] = e
    <2>1. 1 \in Inodes /\ None \notin Inodes
      BY InodeFacts
    <2> QED BY <1>7, <1>8, <2>1
  <1>10. overlap = FALSE /\ lost = FALSE /\ budget \in Nat /\ faults \in 0..MaxFaults
    BY FilesAssumption DEF Init
  <1>11. TypeOK
    BY <1>5, <1>6, <1>9, <1>10 DEF TypeOK
  <1>12. Separate /\ Freed
    BY <1>6, <1>9 DEF Separate, Freed, InUse
  <1>13. \A p \in Procs : Part(kind, proc[p]) /\ Written(p, proc[p], data, lost)
    BY <1>6 DEF Part, Written
  <1>14. FileIsOldOrNew
    BY <1>8, <1>9 DEF FileIsOldOrNew
  <1>15. Owners = {}
    BY <1>6 DEF Owners, Holders
  <1>16. Solo
    <2>1. \A p \in Procs : ~InCall(p)
      BY <1>6 DEF InCall, Resting
    <2>2. File(name, data).by = None
      BY <1>7, <1>8, <1>9 DEF File
    <2>3. None \notin Alive
      BY FilesAssumption DEF Alive
    <2>4. Held(Owners, File(name, data)) /\ Known(Owners, Alive, File(name, data))
      BY <1>15, <2>2, <2>3 DEF Held, Known
    <2> QED BY <2>1, <2>4 DEF Solo, Exclusion
  <1>17. Dev
    <2> SUFFICES ASSUME kind = "lockdev", faults = 0 PROVE DevSound
      BY DEF Dev
    <2>1. name = None
      BY <1>8
    <2>2. \A i \in Inodes : data[i].n = 0
      BY <1>7, <1>9, <2>1, InodeFacts
    <2>3. Owning = {}
      BY <1>6 DEF Owning, Owns
    <2> QED BY <1>6, <2>2, <2>3 DEF DevSound
  <1> QED BY <1>11, <1>12, <1>13, <1>14, <1>16, <1>17 DEF FilesInv, Base

\* and is preserved by every step.
LEMMA NextSound ==
    ASSUME FilesInv, [Next]_vars
    PROVE  FilesInv'
  <1>1. ASSUME NEW p \in Procs, LockFile(p) PROVE FilesInv'
    <2>0. "lock" \in Operations /\ "isok" \in Operations /\ "unlock" \in Operations
      BY DEF Operations
    <2>1. CASE lockfile_lock(p) \/ lockfile_isok(p) \/ lockfile_unlock(p)
      BY <2>0, <2>1, CallStep DEF lockfile_lock, lockfile_isok, lockfile_unlock
    <2>2. CASE readpid_open(p)
      BY <2>2, ReadStep
    <2>3. CASE readpid_alive(p)
      BY <2>3, AliveStep
    <2>4. CASE readpid_getline(p)
      BY <2>4, CheckStep
    <2>5. CASE readpid_clean(p)
      BY <2>5, CleanStep
    <2>6. CASE lock_create(p)
      <3>1. proc[p].alive /\ proc[p].pc = "create"
        BY <2>6 DEF lock_create, At
      <3>2. CASE Creates(p, [proc[p] EXCEPT !.pc = "print"]) /\ Quiet
        BY <3>1, <3>2, CreateStep
      <3>3. CASE Goes(p, "idle") /\ UNCHANGED name /\ Disk(data) /\ (Quiet \/ Refused)
        BY <3>1, <3>3, GoesStep
      <3> QED BY <2>6, <3>2, <3>3 DEF lock_create
    <2>7. CASE lock_print(p)
      BY <2>7, PrintStep
    <2>8. CASE unlock_unlink(p)
      BY <2>8, UnlinkStep
    <2>9. CASE readpid_refused(p)
      <3>1. proc[p].alive /\ proc[p].pc = "readpid" /\ Goes(p, "idle") /\ name' = name /\ Disk(data) /\ Refused
        BY <2>9 DEF readpid_refused, At
      <3> QED BY <3>1, GoesStep
    <2> QED BY <1>1, <2>1, <2>2, <2>3, <2>4, <2>5, <2>6, <2>7, <2>8, <2>9 DEF LockFile
  <1>2. ASSUME NEW p \in Procs, LockDev(p) PROVE FilesInv'
    <2>1. CASE lockdev_lock(p)
      <3>1. "lock" \in Operations
        BY DEF Operations
      <3> QED BY <2>1, <3>1, CallStep DEF lockdev_lock
    <2>2. CASE lockdev_again(p)
      BY <2>2, AgainStep
    <2>3. CASE lockdev_create(p)
      <3>1. proc[p].alive /\ proc[p].pc = "create" /\ kind = "lockdev"
        BY <2>3 DEF lockdev_create, At
      <3>2. CASE Creates(p, [proc[p] EXCEPT !.pc = "print"]) /\ Quiet
        BY <3>1, <3>2, CreateStep
      <3>3. CASE Goes(p, "reopen") /\ UNCHANGED name /\ Disk(data) /\ Quiet
        BY <3>1, <3>3, GoesStep
      <3>4. CASE Goes(p, "idle") /\ UNCHANGED name /\ Disk(data) /\ Refused
        BY <3>1, <3>4, GoesStep
      <3> QED BY <2>3, <3>2, <3>3, <3>4 DEF lockdev_create
    <2>4. CASE lockdev_print(p)
      BY <2>4, PrintStep
    <2>5. CASE lockdev_reopen(p)
      BY <2>5, ReadStep
    <2>6. CASE lockdev_check(p)
      BY <2>6, CheckStep
    <2>7. CASE lockdev_remove(p)
      BY <2>7, DevRemoveStep
    <2>8. CASE lockdev_recreate(p)
      BY <2>8, RecreateStep
    <2>9. CASE lockdev_unlock(p)
      BY <2>9, UnlockStep
    <2> QED BY <1>2, <2>1, <2>2, <2>3, <2>4, <2>5, <2>6, <2>7, <2>8, <2>9 DEF LockDev
  <1>3. ASSUME NEW p \in Procs, writer_open(p) PROVE FilesInv'
    <2>1. "write" \in Operations
      BY DEF Operations
    <2> QED BY <1>3, <2>1, CallStep DEF writer_open
  <1>4. ASSUME NEW p \in Procs, AtomicFile(p) PROVE FilesInv'
    <2>1. CASE atomic_open(p)
      <3>1. proc[p].alive /\ proc[p].pc = "mkstemp" /\ name' = name
        BY <2>1 DEF atomic_open, At
      <3>2. CASE /\ Steps(p, [proc[p] EXCEPT !.pc = "write", !.tmp = NewInode])
                 /\ Disk([data EXCEPT ![NewInode].by = p])
                 /\ Quiet
        BY <3>1, <3>2, OpenStep
      <3>3. CASE Steps(p, AfterClose(proc[p])) /\ Disk(data) /\ Fails
        BY <3>1, <3>3, CloseStep
      <3> QED BY <2>1, <3>2, <3>3 DEF atomic_open
    <2>2. CASE atomic_write(p)
      BY <2>2, WriteStep
    <2>3. CASE atomic_close(p)
      <3>1. proc[p].alive /\ proc[p].pc = "rename" /\ Steps(p, AfterClose(proc[p])) /\ Disk(data)
        BY <2>3 DEF atomic_close, At
      <3>2. (name' = proc[p].tmp /\ Quiet) \/ (name' = name /\ Fails)
        BY <2>3 DEF atomic_close
      <3> QED BY <3>1, <3>2, CloseStep
    <2> QED BY <1>4, <2>1, <2>2, <2>3 DEF AtomicFile
  <1>5. ASSUME NEW p \in Procs, Life(p) PROVE FilesInv'
    <2>1. CASE load_check(p)
      BY <2>1, CheckStep
    <2>2. CASE do_start(p)
      BY <2>2, StartStep
    <2>3. CASE do_run_returns(p)
      <3>1. proc[p].alive /\ proc[p].pc = "run" /\ Goes(p, "stop") /\ name' = name /\ Disk(data) /\ Quiet
        BY <2>3 DEF do_run_returns, At
      <3> QED BY <3>1, GoesStep
    <2>4. CASE do_stop(p)
      <3>0. PICK a \in {"start", "unload"} : Goes(p, a)
        BY <2>4 DEF do_stop
      <3>1. proc[p].alive /\ proc[p].pc = "stop" /\ name' = name /\ Disk(data) /\ Quiet
        BY <2>4 DEF do_stop, At
      <3> QED BY <3>0, <3>1, GoesStep
    <2>5. CASE loop_ends(p)
      <3>1. proc[p].alive /\ proc[p].pc = "start" /\ Goes(p, "unload") /\ name' = name /\ Disk(data) /\ Quiet
        BY <2>5 DEF loop_ends, At
      <3> QED BY <3>1, GoesStep
    <2>6. CASE do_unload(p)
      BY <2>6, UnloadStep
    <2> QED BY <1>5, <2>1, <2>2, <2>3, <2>4, <2>5, <2>6 DEF Life
  <1>6. ASSUME NEW p \in Procs, load_open(p) PROVE FilesInv'
    BY <1>6, ReadStep
  <1>7. ASSUME NEW p \in Procs, SigHup(p) \/ SigTerm(p) PROVE FilesInv'
    BY <1>7, SignalStep
  <1>8. ASSUME NEW p \in Procs, Kill(p) PROVE FilesInv'
    BY <1>8, KillStep
  <1>9. ASSUME UNCHANGED vars PROVE FilesInv'
    <2>1. proc \in [Procs -> Process] /\ budget \in Nat
      BY BaseFacts, FilesAssumption DEF FilesInv
    <2>2. proc' = proc /\ budget' = budget /\ UNCHANGED <<kind, name, data, overlap, lost, faults>>
      BY <1>9 DEF vars
    <2>3. proc' \in [Procs -> Process] /\ budget' \in Nat /\ \A q \in Procs : SameProcess(proc[q], proc'[q])
      BY <2>1, <2>2 DEF SameProcess
    <2> QED BY <2>2, <2>3, SameStep
  <1> QED BY <1>1, <1>2, <1>3, <1>4, <1>5, <1>6, <1>7, <1>8, <1>9 DEF Next

\* WvLockFile, WvLockDev, WvAtomicFile and the pid file of WvDaemon: in every state what is
\* under the name agrees with who owns the lock and with who is about to change it,
\* for any number of processes, faults and calls; print()s of the pid that fail, after which
\* lock() returns true all the same, are among the faults.
THEOREM FilesInvariant == Spec => []FilesInv
  <1>1. Init => FilesInv
    BY InitSound
  <1>2. FilesInv /\ [Next]_vars => FilesInv'
    BY NextSound
  <1> QED BY <1>1, <1>2, PTL DEF Spec

\* One element at most.
LEMMA AtMostOne ==
    ASSUME NEW H, \A p, q \in H : p = q
    PROVE  Cardinality(H) <= 1
  <1>1. CASE H = {}
    BY <1>1, FS_EmptySet
  <1>2. CASE H # {}
    <2>1. PICK h \in H : TRUE
      BY <1>2
    <2>2. H = {h}
      BY <2>1
    <2>3. Cardinality({h}) = 1
      BY FS_Singleton
    <2> QED BY <2>2, <2>3
  <1> QED BY <1>1, <1>2

\* LocksConsistent: lock(), without overlapping calls, and WvLockDev::lock(), without faults,
\* never make two processes owners of the lock.  Processes die and system calls fail
\* anywhere; one for which WvLockFile::lock() could not write the pid is no owner.
THEOREM LocksExclude == Spec => []LocksConsistent
  <1>1. FilesInv => LocksConsistent
    <2> SUFFICES ASSUME FilesInv PROVE LocksConsistent
      OBVIOUS
    <2>1. TypeOK
      BY DEF FilesInv, Base
    <2>2. OneOwner
      <3> SUFFICES ASSUME Calm PROVE Cardinality(Owners) <= 1
        BY DEF OneOwner, Calm
      <3>1. PICK p \in Procs : TRUE
        BY FilesAssumption
      <3>2. Held(Owners, File(name, data))
        BY <3>1 DEF FilesInv, Solo, Exclusion
      <3>3. \A h, g \in Owners : h = g
        BY <3>2 DEF Held
      <3> QED BY <3>3, AtMostOne
    <2>3. DevLockExcludes
      <3> SUFFICES ASSUME kind = "lockdev", faults = 0 PROVE Cardinality(Holders) <= 1
        BY DEF DevLockExcludes
      <3>1. DevSound
        BY DEF FilesInv, Dev
      <3>2. Holders \subseteq Owning
        BY DEF Holders, Owning, Owns
      <3>3. \A h, g \in Holders : h = g
        BY <3>1, <3>2 DEF DevSound
      <3> QED BY <3>3, AtMostOne
    <2> QED BY <2>1, <2>2, <2>3 DEF LocksConsistent
  <1> QED BY <1>1, FilesInvariant, PTL

\* FileIsOldOrNew: WvAtomicFile::close() renames only a complete file, or one to which a
\* write has failed, wherever writers are killed and however many there are.
THEOREM FileIsWhole == Spec => []FileIsOldOrNew
  <1>1. FilesInv => FileIsOldOrNew
    BY DEF FilesInv, Base
  <1> QED BY <1>1, FilesInvariant, PTL

\* lock() of a WvLockFile comes to its end in this step, which does not fail, and no calls
\* have overlapped.
LockReturns(p) ==
    /\ kind = "lockfile" /\ proc[p].call = "lock" /\ InCall(p)
    /\ proc'[p].alive /\ proc'[p].pc = "idle" /\ ~overlap' /\ faults' = faults

\* Such a step is p's own; it is the print, with which p gets the lock, or a refusal, at a
\* point where Caller says that the file names an owner.
LEMMA DecisionStep ==
    ASSUME FilesInv, NEW q \in Procs, NEW p \in Procs, LockReturns(p),
           \/ LockFile(q) \/ LockDev(q) \/ writer_open(q) \/ AtomicFile(q)
           \/ load_open(q) \/ Life(q) \/ SigHup(q) \/ SigTerm(q) \/ Kill(q)
    PROVE  Holders' # {}
  <1>0. Base /\ Solo
    BY DEF FilesInv
  <1>1. proc \in [Procs -> Process] /\ proc[p] \in Process /\ Part(kind, proc[p]) /\ faults \in Nat
    BY <1>0, BaseFacts, FilesAssumption
  <1>11. Owners \subseteq Holders
    BY DEF Owners
  <1>2. /\ kind = "lockfile" /\ proc[p].call = "lock" /\ proc[p].alive
        /\ proc[p].pc \notin {"idle", "start", "run", "stop"}
        /\ proc'[p].alive /\ proc'[p].pc = "idle" /\ ~overlap' /\ faults' = faults /\ faults \in Nat
    BY <1>1 DEF LockReturns, InCall, Resting
  <1>3. ASSUME NEW x, Steps(q, x) PROVE q = p /\ proc'[p] = x /\ Exclusion(p) /\ \A r \in Procs : r # p => proc'[r] = proc[r]
    <2>1. proc' = [proc EXCEPT ![q] = x] /\ overlap' = (overlap \/ Others(q) # {})
      BY <1>3 DEF Steps
    <2>2. q = p
      BY <1>1, <1>2, <2>1
    <2>3. Calm
      BY <1>2, <2>1 DEF Calm
    <2> QED BY <1>0, <1>1, <2>1, <2>2, <2>3 DEF Solo
  <1>4. ASSUME NEW x, Steps(q, x), x.alive = proc[q].alive, x.lock_count = proc[q].lock_count
        PROVE  Holders' = Holders
    <2>1. q = p /\ proc'[p] = x /\ \A r \in Procs : r # p => proc'[r] = proc[r]
      BY <1>3, <1>4
    <2> QED BY <1>4, <2>1 DEF Holders
  <1>5. proc[p].pc \in {"readpid", "getline", "cleanup", "unlink", "create", "print"}
    <2>1. proc[p].pc \in Points
      BY <1>1 DEF Process
    <2> QED BY <1>1, <1>2, <2>1 DEF Part, Points
  <1>6. CASE LockFile(q)
    <2>1. CASE lockfile_lock(q) \/ lockfile_isok(q) \/ lockfile_unlock(q)
      <3>1. PICK x : Steps(q, x) /\ proc[q].pc = "idle"
        BY <2>1 DEF lockfile_lock, lockfile_isok, lockfile_unlock, Calls, At
      <3> QED BY <1>2, <1>3, <3>1
    <2>2. CASE readpid_open(q)
      <3> DEFINE x == [proc[q] EXCEPT !.pc = "getline", !.fd = name]
      <3>1. Steps(q, x)
        BY <2>2 DEF readpid_open
      <3>2. q = p /\ proc'[p] = x
        BY <1>3, <3>1
      <3>3. x.pc = "getline"
        BY <1>1, <3>2 DEF Process
      <3> QED BY <1>2, <3>2, <3>3
    <2>3. CASE readpid_alive(q)
      <3> DEFINE y == AfterReadpid(q, proc[q])
                 x == [y EXCEPT !.fd = None]
      <3>1. Steps(q, x) /\ ~IsBlank(q) /\ ~IsStale(q) /\ proc[q].pc = "getline"
        BY <2>3 DEF readpid_alive, At
      <3> HIDE DEF x
      <3>2. q = p /\ Exclusion(p)
        BY <1>3, <3>1
      <3>3. PICK a \in Points : y = [proc[p] EXCEPT !.pc = a]
        BY <3>2 DEF AfterReadpid, Points
      <3>4. y \in Process /\ y.alive = proc[p].alive /\ y.lock_count = proc[p].lock_count
        <4> HIDE DEF y
        <4> QED BY <1>1, <3>3 DEF Process
      <3> HIDE DEF y
      <3>5. x.alive = proc[p].alive /\ x.lock_count = proc[p].lock_count
        BY <3>4 DEF Process, x
      <3>6. Holders' = Holders
        BY <1>4, <3>1, <3>2, <3>5
      <3>7. Owner(p).by \in Owners
        BY <1>0, <1>2, <3>1, <3>2, OwnerFacts
      <3> QED BY <1>11, <3>6, <3>7
    <2>4. CASE readpid_getline(q)
      <3> DEFINE x == [proc[q] EXCEPT !.pc = "cleanup", !.fd = None]
      <3>1. Steps(q, x)
        BY <2>4 DEF readpid_getline
      <3>2. q = p /\ proc'[p] = x
        BY <1>3, <3>1
      <3>3. x.pc = "cleanup"
        BY <1>1, <3>2 DEF Process
      <3> QED BY <1>2, <3>2, <3>3
    <2>5. CASE readpid_clean(q)
      <3>1. PICK a : Steps(q, [proc[q] EXCEPT !.pc = a]) /\ (proc[q].call = "lock" => a = "create")
        BY <2>5 DEF readpid_clean, Goes
      <3>2. q = p /\ proc'[p] = [proc[q] EXCEPT !.pc = a]
        BY <1>3, <3>1
      <3>3. proc'[p].pc = a
        BY <1>1, <3>2 DEF Process
      <3> QED BY <1>2, <3>1, <3>2, <3>3
    <2>6. CASE lock_create(q)
      <3>1. CASE Creates(q, [proc[q] EXCEPT !.pc = "print"])
        <4> DEFINE y == [proc[q] EXCEPT !.pc = "print"]
                   i == NewInode
                   x == [y EXCEPT !.fd = i]
        <4>1. Steps(q, x)
          BY <3>1 DEF Creates
        <4>2. q = p /\ proc'[p] = x
          BY <1>3, <4>1
        <4> HIDE DEF i
        <4>3. x.pc = "print"
          BY <1>1, <4>2 DEF Process
        <4> QED BY <1>2, <4>2, <4>3
      <3>2. CASE Goes(q, "idle") /\ (IF name # None THEN Quiet ELSE Refused)
        <4> DEFINE x == [proc[q] EXCEPT !.pc = "idle"]
        <4>1. Steps(q, x) /\ proc[q].pc = "create"
          BY <2>6, <3>2 DEF Goes, lock_create, At
        <4>2. q = p /\ Exclusion(p)
          BY <1>3, <4>1
        <4>3. x.alive = proc[q].alive /\ x.lock_count = proc[q].lock_count
          BY <1>1, <4>2 DEF Process
        <4> HIDE DEF x
        <4>4. Holders' = Holders
          BY <1>4, <4>1, <4>3
        <4>5. name # None
          BY <1>2, <3>2 DEF Refused, Fault
        <4>6. p \in Owners
          BY <1>2, <4>1, <4>2, <4>5 DEF Exclusion, InCall, Resting, Caller
        <4> QED BY <1>11, <4>4, <4>6
      <3> QED BY <2>6, <3>1, <3>2 DEF lock_create
    <2>7. CASE lock_print(q)
      <3> DEFINE y == [proc[q] EXCEPT !.pc = "idle", !.lock_count = 1]
                 z == [y EXCEPT !.unwritten = FALSE]
                 x == [z EXCEPT !.fd = None]
      <3>1. Steps(q, x)
        BY <1>2, <2>7 DEF lock_print, Writes, WritesNothing, Refused, Fault
      <3>2. q = p /\ proc'[p] = x
        BY <1>3, <3>1
      <3>3. x.lock_count = 1
        BY <1>1, <3>2 DEF Process
      <3> HIDE DEF x, y, z
      <3>4. proc'[p].lock_count > 0
        BY <3>2, <3>3
      <3>5. p \in Holders'
        BY <1>2, <3>4 DEF Holders
      <3> QED BY <3>5
    <2>8. CASE unlock_unlink(q)
      <3> DEFINE x == [proc[q] EXCEPT !.lock_count = 0, !.unwritten = FALSE, !.call = "verify", !.pc = "readpid"]
      <3>1. Steps(q, x)
        BY <2>8 DEF unlock_unlink
      <3>2. q = p /\ proc'[p] = x
        BY <1>3, <3>1
      <3>3. x.pc = "readpid"
        BY <1>1, <3>2 DEF Process
      <3> QED BY <1>2, <3>2, <3>3
    <2>9. CASE readpid_refused(q)
      BY <1>2, <2>9 DEF readpid_refused, Refused, Fault
    <2> QED BY <1>6, <2>1, <2>2, <2>3, <2>4, <2>5, <2>6, <2>7, <2>8, <2>9 DEF LockFile
  <1>7. ASSUME Part(kind, proc[q]), LockDev(q) \/ writer_open(q) \/ AtomicFile(q) \/ load_open(q) \/ Life(q)
        PROVE  FALSE
    BY <1>2, <1>7 DEF LockDev, lockdev_lock, Calls, lockdev_again, lockdev_create, lockdev_print, lockdev_reopen,
        lockdev_check, lockdev_remove, lockdev_recreate, lockdev_unlock, writer_open, AtomicFile, atomic_open,
        atomic_write, atomic_close, load_open, Life, load_check, do_start, do_run_returns, do_stop, loop_ends,
        do_unload, At, Part
  <1>8. CASE SigHup(q) \/ SigTerm(q)
    <2>1. PICK x : proc' = [proc EXCEPT ![q] = x] /\ x.pc = proc[q].pc
      <3>1. CASE SigHup(q)
        <4> DEFINE x == [proc[q] EXCEPT !.sighup = "ignore", !.want_to_restart = TRUE, !.hungup = TRUE]
        <4>1. proc' = [proc EXCEPT ![q] = x]
          BY <3>1 DEF SigHup, Signalled
        <4>2. x.pc = proc[q].pc
          BY <1>1 DEF Process
        <4> QED BY <4>1, <4>2
      <3>2. CASE SigTerm(q)
        <4> DEFINE x == [proc[q] EXCEPT !.sigterm = "default", !.want_to_die = TRUE]
        <4>1. proc' = [proc EXCEPT ![q] = x]
          BY <3>2 DEF SigTerm, Signalled
        <4>2. x.pc = proc[q].pc
          BY <1>1 DEF Process
        <4> QED BY <4>1, <4>2
      <3> QED BY <1>8, <3>1, <3>2
    <2>2. proc'[p].pc = proc[p].pc
      BY <1>1, <2>1
    <2> QED BY <1>2, <2>2
  <1>9. CASE Kill(q)
    <2>1. Steps(q, Dead(proc[q]))
      BY <1>9 DEF Kill
    <2>2. q = p /\ proc'[p] = Dead(proc[p])
      BY <1>3, <2>1
    <2>3. ~Dead(proc[p]).alive
      BY <1>1, DeadFacts
    <2> QED BY <1>2, <2>2, <2>3
  <1>10. Part(kind, proc[q])
    BY <1>0, BaseFacts
  <1> QED BY <1>6, <1>7, <1>8, <1>9, <1>10

\* SoloLockDecides: WvLockFile::lock() that nobody interferes with, and in which no system call
\* fails, leaves the lock held, by the caller or by the live process that it was refused for.
THEOREM LockDecides == Spec => SoloLockDecides
  <1>1. ASSUME FilesInv, [Next]_vars, NEW p \in Procs, LockReturns(p) PROVE Holders' # {}
    <2>1. CASE Next
      <3>1. PICK q \in Procs :
                \/ LockFile(q) \/ LockDev(q) \/ writer_open(q) \/ AtomicFile(q)
                \/ load_open(q) \/ Life(q) \/ SigHup(q) \/ SigTerm(q) \/ Kill(q)
        BY <2>1 DEF Next
      <3> QED BY <1>1, <3>1, DecisionStep
    <2>2. CASE UNCHANGED vars
      BY <1>1, <2>2 DEF vars, LockReturns, InCall, Resting
    <2> QED BY <1>1, <2>1, <2>2
  <1>2. FilesInv /\ [Next]_vars =>
            [\A p \in Procs :
                (kind = "lockfile" /\ proc[p].call = "lock" /\ InCall(p) /\ proc'[p].alive /\ proc'[p].pc = "idle"
                    /\ ~overlap' /\ faults' = faults)
                => Holders' # {}]_vars
    BY <1>1 DEF LockReturns
  <1> QED BY <1>2, FilesInvariant, PTL DEF Spec, SoloLockDecides
=============================================================================
