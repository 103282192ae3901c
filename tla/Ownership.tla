------------------------------ MODULE Ownership ------------------------------
(***************************************************************************)
(* Who closes what: the C++ objects that own descriptors, mappings and      *)
(* temporary files.                                                         *)
(*   "mmap"  mm::mmap and mm::vmap: a descriptor and the mapping of it      *)
(*   "mvec"  mapped_vector: the same, and a temp_file                       *)
(*   "fbuf"  file_back_buffer: a FILE, which owns a descriptor, and a       *)
(*           temp_file                                                      *)
(* A client constructs objects, moves them and destroys them in any order,  *)
(* moved-from ones included, as C++ does.  The build has no exceptions, so  *)
(* a panic is abort(): no destructor runs.                                  *)
(***************************************************************************)
CONSTANTS
    Slot,       \* where an object can live
    Fd,         \* bound: the descriptors the kernel has to give
    Addr,       \* bound: the addresses mmap() has to give
    Name,       \* bound: the names uuid::generate() finds
    None        \* a null pointer, no name

ASSUME NoneAssumption == None \notin Fd \cup Addr \cup Name

VARIABLES
    obj,        \* obj[s]: the object that lives in s
    raw,        \* the client's own descriptors
    open,       \* the open descriptors
    mapped,     \* the mapped addresses
    names,      \* the temporary files there are
    status      \* of the process

vars == <<obj, raw, open, mapped, names, status>>

Object == [kind : {"none", "mmap", "mvec", "fbuf"}, fd : Fd \cup {None},
           ptr : Addr \cup {None}, temp : Name \cup {None}]

Nothing == [kind |-> "none", fd |-> None, ptr |-> None, temp |-> None]

TypeOK ==
    /\ obj \in [Slot -> Object]
    /\ raw \subseteq Fd
    /\ open \subseteq Fd
    /\ mapped \subseteq Addr
    /\ names \subseteq Name
    /\ status \in {"running", "exited", "dead"}

Init ==
    /\ obj = [s \in Slot |-> Nothing]
    /\ raw = {}
    /\ open = {}
    /\ mapped = {}
    /\ names = {}
    /\ status = "running"

-----------------------------------------------------------------------------
Free(s) == status = "running" /\ obj[s] = Nothing

Put(s, kind, f, a, n) ==
    obj' = [obj EXCEPT ![s] = [kind |-> kind, fd |-> f, ptr |-> a, temp |-> n]]

\* A new mapping of a new descriptor: mm::mmap(file), mm::mmap::allocate, vmap
\* and dup_map end here when every call succeeds.
OpenAndMap(s) ==
    /\ Free(s)
    /\ \E f \in Fd \ open, a \in Addr \ mapped :
          /\ Put(s, "mmap", f, a, None)
          /\ open' = open \cup {f}
          /\ mapped' = mapped \cup {a}
    /\ UNCHANGED <<raw, names, status>>

\* mm::mmap::map_raw_fd(fd): from now on the object closes the client's fd.
MapRawFd(s) ==
    /\ Free(s)
    /\ \E f \in raw, a \in Addr \ mapped :
          /\ Put(s, "mmap", f, a, None)
          /\ raw' = raw \ {f}
          /\ mapped' = mapped \cup {a}
    /\ UNCHANGED <<open, names, status>>

\* mapped_vector::from_temp
FromTemp(s) ==
    /\ Free(s)
    /\ \E f \in Fd \ open, a \in Addr \ mapped, n \in Name \ names :
          /\ Put(s, "mvec", f, a, n)
          /\ open' = open \cup {f}
          /\ mapped' = mapped \cup {a}
          /\ names' = names \cup {n}
    /\ UNCHANGED <<raw, status>>

\* file_back_buffer(cap)
FileBackBuffer(s) ==
    /\ Free(s)
    /\ \E f \in Fd \ open, n \in Name \ names :
          /\ Put(s, "fbuf", f, None, n)
          /\ open' = open \cup {f}
          /\ names' = names \cup {n}
    /\ UNCHANGED <<raw, mapped, status>>

\* Mutant: mmap(mmap&&) does not null the other pointer.
MovedKeepsPtr(o) == [o EXCEPT !.temp = None,
                              !.fd = IF o.kind = "fbuf" THEN None ELSE @]

\* What a move leaves: a mapping keeps the number of its descriptor, not its
\* pointer; a buffer has a null inner; a moved temp_file has no path.
Moved(o) == [o EXCEPT !.ptr = None, !.temp = None,
                      !.fd = IF o.kind = "fbuf" THEN None ELSE @]

\* The move constructors.
Move(s, t) ==
    /\ status = "running" /\ obj[s] # Nothing
    /\ Free(t)
    /\ obj' = [obj EXCEPT ![t] = obj[s], ![s] = Moved(obj[s])]
    /\ UNCHANGED <<raw, open, mapped, names, status>>

\* Does the object own something, that is, is its pointer not null?
Owns(o) == IF o.kind = "fbuf" THEN o.fd # None ELSE o.ptr # None

\* Mutant: ~temp_file() leaves the file.
DestroyKeepsFile(s) ==
    /\ status = "running" /\ obj[s] # Nothing
    /\ obj[s].kind = "fbuf" => Owns(obj[s])
    /\ IF Owns(obj[s])
       THEN /\ open' = open \ {obj[s].fd}
            /\ mapped' = mapped \ {obj[s].ptr}
       ELSE UNCHANGED <<open, mapped>>
    /\ obj' = [obj EXCEPT ![s] = Nothing]
    /\ UNCHANGED <<raw, names, status>>

\* The destructors: unmap_and_close or fclose, then ~temp_file.
Destroy(s) ==
    /\ status = "running" /\ obj[s] # Nothing
    /\ obj[s].kind = "fbuf" => Owns(obj[s])
    /\ IF Owns(obj[s])
       THEN /\ open' = open \ {obj[s].fd}
            /\ mapped' = mapped \ {obj[s].ptr}
            /\ names' = names \ {obj[s].temp}
       ELSE UNCHANGED <<open, mapped, names>>
    /\ obj' = [obj EXCEPT ![s] = Nothing]
    /\ UNCHANGED <<raw, status>>

-----------------------------------------------------------------------------
\* The process is gone: the kernel closes and unmaps, the files stay, those
\* that a failing constructor had already created among them.
Gone(how, created) ==
    /\ status = "running"
    /\ status' = how
    /\ obj' = [s \in Slot |-> Nothing]
    /\ raw' = {}
    /\ open' = {}
    /\ mapped' = {}
    /\ names' = names \cup created

\* A call fails: "Failed to map file", "Failed to open backing ...", or after
\* open() has created the file, "Failed to allocmap file".
Panic ==
    /\ \E s \in Slot : Free(s)
    /\ Gone("dead", {}) \/ \E n \in Name \ names : Gone("dead", {n})

\* ~file_back_buffer of a moved-from buffer reads through its null inner.
DestroyMovedBuffer(s) ==
    /\ obj[s].kind = "fbuf" /\ ~Owns(obj[s])
    /\ Gone("dead", {})

\* main returns; everything that lived on its stack has been destroyed.
Exit == (\A s \in Slot : Free(s)) /\ Gone("exited", {})

ClientOpen ==
    /\ status = "running"
    /\ \E f \in Fd \ open : raw' = raw \cup {f} /\ open' = open \cup {f}
    /\ UNCHANGED <<obj, mapped, names, status>>

ClientClose ==
    /\ status = "running"
    /\ \E f \in raw : raw' = raw \ {f} /\ open' = open \ {f}
    /\ UNCHANGED <<obj, mapped, names, status>>

-----------------------------------------------------------------------------
Construct(s) == OpenAndMap(s) \/ MapRawFd(s) \/ FromTemp(s) \/ FileBackBuffer(s)

Next ==
    \/ \E s \in Slot : Construct(s) \/ Destroy(s) \/ DestroyMovedBuffer(s)
    \/ \E s, t \in Slot : Move(s, t)
    \/ Panic \/ Exit \/ ClientOpen \/ ClientClose

Spec == Init /\ [][Next]_vars

-----------------------------------------------------------------------------
Owners == { s \in Slot : Owns(obj[s]) }

(***************************************************************************)
(* Every descriptor, mapping and temporary file has exactly one owner,      *)
(* whatever was moved where: nothing is closed twice, and nothing is left   *)
(* open that no destructor will close (map.h 93-105, fsvec.cpp 29-34).      *)
(***************************************************************************)
OwnedOnce == status = "running" =>
    /\ \A s, t \in Owners : s # t =>
          /\ obj[s].fd # obj[t].fd
          /\ obj[s].ptr # None => obj[s].ptr # obj[t].ptr
          /\ obj[s].temp # None => obj[s].temp # obj[t].temp
    /\ \A s \in Owners : obj[s].fd \in open \ raw
    /\ open = raw \cup { obj[s].fd : s \in Owners }
    /\ mapped = { obj[s].ptr : s \in Owners } \ {None}
    /\ names = { obj[s].temp : s \in Owners } \ {None}

(***************************************************************************)
(* A process that ends well leaves no temporary file; one that aborts or    *)
(* crashes may.                                                             *)
(***************************************************************************)
NothingLeft == status = "exited" => names = {}

-----------------------------------------------------------------------------
(* The inductive invariant behind both.                                     *)

\* What objects look like: the ones that own nothing have nothing to release.
Shape == \A s \in Slot :
    /\ obj[s].kind = "none" => obj[s] = Nothing
    /\ obj[s].kind = "fbuf" => obj[s].ptr = None
    /\ obj[s].kind \in {"mmap", "mvec", "fbuf"} /\ Owns(obj[s]) => obj[s].fd # None
    /\ ~Owns(obj[s]) => obj[s].ptr = None /\ obj[s].temp = None

IInv == TypeOK /\ Shape /\ OwnedOnce /\ NothingLeft

=============================================================================
