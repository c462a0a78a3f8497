------------------------------- MODULE FuseLib -------------------------------
(***************************************************************************)
(* The request handlers of the high-level library (fuse_lib_* of           *)
(* libfuse/lib/fuse.c), each run by one of several worker threads, between *)
(* the kernel and the file system under test.  A handler is a sequence of  *)
(* sections of f->lock and of calls into the file system; between any two  *)
(* of them the other threads may run, and every such point is a value of   *)
(* the thread's pc here:                                                   *)
(*                                                                         *)
(*   waiting       in f->lockq for its paths                               *)
(*   check, hide, hidecall, hidenode    the steps that hide an open file   *)
(*   call          about to call the file system with the path             *)
(*   update        the call has succeeded, the node table does not know    *)
(*   opened        open and create: about to count the open file           *)
(*   reply, cancel open and create: about to reply; the reply was refused  *)
(*   unlinkhidden  the last release of a hidden file                       *)
(*   freeentry, entry    lookup, mknod, link: free the path, then reply    *)
(*   free, unlock  about to free the path, before or after the reply       *)
(*   forget, forgetting  forget_node, and its wait in f->lockq             *)
(*                                                                         *)
(* "getattr" stands for every handler that only calls the file system with *)
(* the path of its node (getattr, setattr, access, readlink, read, write,  *)
(* fsync, statfs and the extended attributes), "mknod" for those that make *)
(* a name and look it up (mknod, mkdir, symlink).                          *)
(***************************************************************************)
EXTENDS NodeTable, PathLocks

CONSTANTS
    Threads,        \* the worker threads
    Names,          \* the names that the kernel uses (model values)
    MaxRequests,    \* bound on the requests the kernel sends
    MaxInterrupts   \* bound on the replies the kernel refuses

ASSUME FuseLibAssumption ==
    /\ MaxRequests \in Nat /\ MaxInterrupts \in Nat
    /\ MaxId >= 4 + MaxRequests
    /\ Nil \notin Names

VARIABLES
    node,       \* the node table
    ctr,        \* f->ctr: the last node id given out
    hidectr,    \* f->hidectr
    lockq,      \* f->lockq
    th,         \* the worker threads and their requests
    fs,         \* the file system under test: <<directory, name, object>>
    kref,       \* the kernel's lookup count of each node
    kopen,      \* the files the kernel has open, by node
    budget      \* requests and refusals that are left; was a create refused

vars == <<node, ctr, hidectr, lockq, th, fs, kref, kopen, budget>>

Idle == [pc |-> "idle", op |-> "none", dir |-> Nil, name |-> Nil, dir2 |-> Nil,
         name2 |-> Nil, wnode |-> Nil, wnode2 |-> Nil, path |-> <<>>,
         path2 |-> <<>>, locked |-> FALSE, locked2 |-> FALSE, err |-> "none",
         done |-> FALSE, ino |-> Nil, count |-> 0, newname |-> Nil,
         pins |-> {}, mutex |-> {}]

S0 == [node |-> node, th |-> th, err |-> "none"]

------------------------------------------------------------------------------
(* The file system under test.  Objects are numbers; 1 and 2 are the        *)
(* directories.  An operation succeeds or fails as the file system pleases, *)
(* but it succeeds only where a file system can.                            *)

Dirs == {1, 2}

RECURSIVE Walk(_, _)
Walk(obj, path) ==
    IF path = <<>> \/ obj = Nil THEN obj
    ELSE LET found == {e \in fs : e[1] = obj /\ e[2] = Head(path)}
         IN  Walk(IF found = {} THEN Nil ELSE (CHOOSE e \in found : TRUE)[3], Tail(path))

Resolve(path) == Walk(1, path)
Entry(path, obj) == <<Resolve(Front(path)), Last(path), obj>>
Unlinked(path) == fs \ {Entry(path, Resolve(path))}
IsEmpty(obj) == ~ \E e \in fs : e[1] = obj

Objects == ({e[3] : e \in fs} \cup {node[n].obj : n \in NodeIds}) \ {Nil}
FreshObject == Max(Objects \cup {1}) + 1

Creates(path) ==
    /\ Resolve(path) = Nil /\ Resolve(Front(path)) # Nil
    /\ fs' = fs \cup {Entry(path, FreshObject)}
Links(path, new) ==
    /\ Resolve(path) # Nil /\ Resolve(new) = Nil /\ Resolve(Front(new)) # Nil
    /\ fs' = fs \cup {Entry(new, Resolve(path))}
Removes(path) ==
    /\ Resolve(path) # Nil /\ IsEmpty(Resolve(path))
    /\ fs' = Unlinked(path)
Renames(old, new) ==
    /\ Resolve(old) # Nil /\ Resolve(Front(new)) # Nil
    /\ Resolve(new) # Nil => IsEmpty(Resolve(new))
    /\ fs' = (Unlinked(old) \ {Entry(new, Resolve(new))}) \cup {Entry(new, Resolve(old))}

------------------------------------------------------------------------------
(* The kernel.  It refers to nodes it has looked up and not forgotten, pins  *)
(* the nodes of a request until the reply, and holds the mutex of every      *)
(* directory whose names the request may change.                             *)

Known(n) == n = FUSE_ROOT_ID \/ kref[n] > 0
Attached(n) == n = FUSE_ROOT_ID \/ node[n].name # Nil
Child(dir, name) == lookup_node(node, dir, name)
IsDir(n) == node[n].obj \in Dirs
KnownFiles == {n \in NodeIds : Known(n) /\ ~IsDir(n)}
Directories == {n \in NodeIds : Known(n) /\ IsDir(n) /\ Attached(n)}
Pinned == UNION {th[t].pins : t \in Threads}
Mutexes == UNION {th[t].mutex : t \in Threads}
Exists(dir, name) == \E e \in fs : e[1] = node[dir].obj /\ e[2] = name

(***************************************************************************)
(* A thread takes a request and asks for its paths (get_path_common,       *)
(* get_path2): it has them, or they are gone, or it waits in the queue.    *)
(***************************************************************************)
AfterPath(e, err) ==
    CASE err = "none" -> [e EXCEPT !.pc = IF e.op \in {"unlink", "rename"}
                                          THEN "check" ELSE "call"]
      [] err # "none" /\ e.op = "release" -> [e EXCEPT !.pc = "call"]
      [] OTHER -> Idle

get_path(t, request) ==
    \E S \in {try_get_path2([S0 EXCEPT !.th[t] = request], t)} :
        LET again == S.err = "EAGAIN" IN
        /\ node' = S.node
        /\ lockq' = IF again THEN Append(lockq, t) ELSE lockq
        /\ th' = [S.th EXCEPT ![t] = IF again THEN [@ EXCEPT !.pc = "waiting"]
                                     ELSE AfterPath(@, S.err)]

Request(t, op, dir, name, dir2, name2, pins, mutex) ==
    /\ mutex \cap Mutexes = {}
    /\ \E e \in {[Idle EXCEPT !.op = op, !.dir = dir, !.name = name,
                                !.dir2 = dir2, !.name2 = name2, !.ino = dir,
                                !.pins = pins, !.mutex = mutex]} : get_path(t, e)
    /\ budget' = [budget EXCEPT !.requests = @ - 1]
    /\ UNCHANGED <<ctr, hidectr, fs, kref>>

\* Handlers that need the path of one node.
fuse_lib_getattr(t) ==
    \E n \in NodeIds : /\ Known(n)
                       /\ Request(t, "getattr", n, Nil, Nil, Nil, {n}, {})
                       /\ UNCHANGED kopen

fuse_lib_open(t) ==
    \E n \in KnownFiles : /\ Request(t, "open", n, Nil, Nil, Nil, {n}, {})
                          /\ UNCHANGED kopen

fuse_lib_release(t) ==
    \E n \in NodeIds : /\ kopen[n] > 0
                       /\ Request(t, "release", n, Nil, Nil, Nil, {n}, {})
                       /\ kopen' = [kopen EXCEPT ![n] = @ - 1]

\* Handlers that need the path of a name in a directory.
fuse_lib_lookup(t) ==
    \E n \in Directories, name \in Names :
        /\ Request(t, "lookup", n, name, Nil, Nil, {n}, {n})
        /\ UNCHANGED kopen

fuse_lib_mknod(t) ==
    \E n \in Directories, name \in Names, op \in {"mknod", "create"} :
        /\ ~Exists(n, name)
        /\ Request(t, op, n, name, Nil, Nil, {n}, {n})
        /\ UNCHANGED kopen

fuse_lib_unlink(t) ==
    \E n \in Directories, name \in Names :
        LET c == Child(n, name) IN
        /\ c # Nil /\ Known(c)
        /\ Request(t, IF IsDir(c) THEN "rmdir" ELSE "unlink", n, name, Nil, Nil,
                   {n, c}, {n, c})
        /\ UNCHANGED kopen

\* Handlers that need two paths.
fuse_lib_link(t) ==
    \E n \in KnownFiles, dir \in Directories, name \in Names :
        /\ ~Exists(dir, name)
        /\ Request(t, "link", n, Nil, dir, name, {n, dir}, {n, dir})
        /\ UNCHANGED kopen

fuse_lib_rename(t) ==
    \E old, new \in Directories, oldname, newname \in Names :
        LET c == Child(old, oldname)
            d == Child(new, newname)
            targets == {d} \ {Nil}
        IN
        /\ c # Nil /\ Known(c) /\ c # d
        /\ Exists(new, newname) => d # Nil /\ Known(d)
        /\ d # Nil => IsDir(c) = IsDir(d)
        /\ c \notin ToSet(Way(node, new)) /\ d \notin ToSet(Way(node, old))
        /\ old # new => ~ \E u \in Threads : th[u].op = "rename" /\ th[u].mutex # {}
                                             /\ th[u].dir # th[u].dir2
        /\ Request(t, "rename", old, oldname, new, newname,
                   {old, new, c} \cup targets, {old, new} \cup targets)
        /\ UNCHANGED kopen

\* The kernel drops a node nobody uses and sends its whole lookup count.
fuse_lib_forget(t) ==
    \E n \in NodeIds \ {FUSE_ROOT_ID} :
        /\ kref[n] > 0 /\ kopen[n] = 0 /\ n \notin Pinned
        /\ ~ \E k \in NodeIds : node[k].parent = n /\ kref[k] > 0
        /\ kref' = [kref EXCEPT ![n] = 0]
        /\ th' = [th EXCEPT ![t] = [Idle EXCEPT !.pc = "forget", !.op = "forget",
                                                !.ino = n, !.count = kref[n]]]
        /\ budget' = [budget EXCEPT !.requests = @ - 1]
        /\ UNCHANGED <<node, ctr, hidectr, lockq, fs, kopen>>

------------------------------------------------------------------------------
(* The steps of a handler.                                                  *)

At(t, pc) == th[t].pc = pc
Goto(t, pc) == th' = [th EXCEPT ![t].pc = pc]

\* Whether the call into the file system succeeds is for the file system.
Call(t, effect, then) ==
    \/ effect /\ Goto(t, then)
    \/ Goto(t, "free") /\ UNCHANGED fs

\* Mutant: the thread does not leave the queue.
wait_path_NoDequeue(t) ==
    /\ At(t, "waiting") /\ th[t].done
    /\ th' = [th EXCEPT ![t] = AfterPath([@ EXCEPT !.done = FALSE], @.err)]
    /\ UNCHANGED <<node, ctr, hidectr, lockq, fs, kref, kopen, budget>>

\* wait_path: the element is done; the thread leaves the queue.
wait_path(t) ==
    /\ At(t, "waiting") /\ th[t].done
    /\ lockq' = Remove(lockq, t)
    /\ th' = [th EXCEPT ![t] = AfterPath([@ EXCEPT !.done = FALSE], @.err)]
    /\ UNCHANGED <<node, ctr, hidectr, fs, kref, kopen, budget>>

\* The name whose file unlink removes or rename replaces.
VictimDir(t) == IF th[t].op = "rename" THEN th[t].dir2 ELSE th[t].dir
VictimName(t) == IF th[t].op = "rename" THEN th[t].name2 ELSE th[t].name
VictimPath(t) == IF th[t].op = "rename" THEN th[t].path2 ELSE th[t].path

is_open(t) ==
    LET c == Child(VictimDir(t), VictimName(t)) IN
    /\ At(t, "check")
    /\ Goto(t, IF c # Nil /\ node[c].open_count > 0 THEN "hide" ELSE "call")
    /\ UNCHANGED <<node, ctr, hidectr, lockq, fs, kref, kopen, budget>>

(***************************************************************************)
(* hide_node: a file that is open is not removed but renamed to a name     *)
(* made from a counter (a number here), first in the file system and then  *)
(* in the node table.  No name, or a failure: the request fails.           *)
(***************************************************************************)
hidden_name(t) ==
    LET gone == \E n \in ToSet(Way(node, VictimDir(t))) : node[n].name = Nil
        none == Child(VictimDir(t), VictimName(t)) = Nil
    IN
    /\ At(t, "hide")
    /\ hidectr' = IF none THEN hidectr ELSE hidectr + 1
    /\ th' = [th EXCEPT ![t].pc = IF none \/ gone THEN "free" ELSE "hidecall",
                        ![t].newname = NamesOf(node, VictimDir(t)) \o <<hidectr + 1>>]
    /\ UNCHANGED <<node, ctr, lockq, fs, kref, kopen, budget>>

hide_call(t) ==
    /\ At(t, "hidecall")
    /\ Call(t, Renames(VictimPath(t), th[t].newname), "hidenode")
    /\ UNCHANGED <<node, ctr, hidectr, lockq, kref, kopen, budget>>

hide_node(t) ==
    /\ At(t, "hidenode")
    /\ node' = rename_node(node, VictimDir(t), VictimName(t), VictimDir(t),
                           Last(th[t].newname), TRUE)
    /\ Goto(t, IF th[t].op = "rename" THEN "call" ELSE "free")
    /\ UNCHANGED <<ctr, hidectr, lockq, fs, kref, kopen, budget>>

\* The call of the operation itself, outside the mutex.
CallOperation(t) ==
    LET e == th[t] IN
    /\ At(t, "call")
    /\ CASE e.op = "getattr" -> Goto(t, "free") /\ UNCHANGED fs
         [] e.op = "release" -> Goto(t, "update") /\ UNCHANGED fs
         [] e.op = "lookup" ->
                Call(t, Resolve(e.path) # Nil /\ UNCHANGED fs, "update")
         [] e.op = "open" ->
                Call(t, Resolve(e.path) # Nil /\ UNCHANGED fs, "opened")
         [] e.op \in {"mknod", "create"} -> Call(t, Creates(e.path), "update")
         [] e.op = "link" -> Call(t, Links(e.path, e.path2), "update")
         [] e.op \in {"unlink", "rmdir"} -> Call(t, Removes(e.path), "update")
         [] e.op = "rename" -> Call(t, Renames(e.path, e.path2), "update")
    /\ UNCHANGED <<node, ctr, hidectr, lockq, kref, kopen, budget>>

(***************************************************************************)
(* lookup_path after the call: the name's attributes, then its node.  For  *)
(* lookup the call was the one for the attributes; mknod, create and link  *)
(* make it now, and it may fail.                                           *)
(***************************************************************************)
lookup_path(t) ==
    LET e == th[t]
        two == e.op = "link"
        dir == IF two THEN e.dir2 ELSE e.dir
        name == IF two THEN e.name2 ELSE e.name
        ino == FoundId(node, ctr + 1, dir, name)
        obj == Resolve(IF two THEN e.path2 ELSE e.path)
    IN
    /\ At(t, "update") /\ e.op \in {"lookup", "mknod", "create", "link"}
    /\ \/ /\ node' = find_node(node, ctr + 1, dir, name, obj)
          /\ ctr' = IF ino = ctr + 1 THEN ino ELSE ctr
          /\ th' = [th EXCEPT ![t].ino = ino,
                        ![t].pc = IF e.op = "create" THEN "opened" ELSE "freeentry"]
       \/ e.op # "lookup" /\ Goto(t, "free") /\ UNCHANGED <<node, ctr>>
    /\ UNCHANGED <<hidectr, lockq, fs, kref, kopen, budget>>

\* unlink, rmdir and rename tell the node table what they have done.
UpdateNames(t) ==
    LET e == th[t] IN
    /\ At(t, "update") /\ e.op \in {"unlink", "rmdir", "rename"}
    /\ node' = IF e.op = "rename"
               THEN rename_node(node, e.dir, e.name, e.dir2, e.name2, FALSE)
               ELSE remove_node(node, e.dir, e.name)
    /\ Goto(t, "free")
    /\ UNCHANGED <<ctr, hidectr, lockq, fs, kref, kopen, budget>>

\* open and create count the open file, then reply, then free the path.
CountOpen(t) ==
    /\ At(t, "opened")
    /\ node' = [node EXCEPT ![th[t].ino].open_count = @ + 1]
    /\ Goto(t, "reply")
    /\ UNCHANGED <<ctr, hidectr, lockq, fs, kref, kopen, budget>>

fuse_reply_open(t) ==
    LET e == th[t] IN
    /\ At(t, "reply")
    /\ \/ /\ kopen' = [kopen EXCEPT ![e.ino] = @ + 1]
          /\ kref' = [kref EXCEPT ![e.ino] = IF e.op = "create" THEN @ + 1 ELSE @]
          /\ th' = [th EXCEPT ![t].pc = "unlock", ![t].pins = {}, ![t].mutex = {}]
          /\ UNCHANGED budget
       \/ /\ budget.interrupts > 0
          /\ budget' = [budget EXCEPT !.interrupts = @ - 1,
                                      !.refusedCreate = @ \/ e.op = "create"]
          /\ th' = [th EXCEPT ![t].pc = "cancel", ![t].pins = {}, ![t].mutex = {}]
          /\ UNCHANGED <<kopen, kref>>
    /\ UNCHANGED <<node, ctr, hidectr, lockq, fs>>

(***************************************************************************)
(* fuse_do_release, for a release and for an open whose reply was refused: *)
(* the last one removes a hidden file, by the path it holds.               *)
(***************************************************************************)
AfterRelease(op) ==
    CASE op = "release" -> "free" [] op = "open" -> "unlock" [] op = "create" -> "forget"

\* Mutant: the count is looked at before it is decremented.
fuse_do_release_TooEarly(t) ==
    LET e == th[t]
        last == node[e.ino].is_hidden /\ node[e.ino].open_count = 0
    IN
    /\ At(t, "cancel") \/ (At(t, "update") /\ e.op = "release")
    /\ node' = [node EXCEPT ![e.ino].open_count = @ - 1,
                            ![e.ino].is_hidden = @ /\ ~last]
    /\ th' = [th EXCEPT ![t].pc = IF last /\ e.locked THEN "unlinkhidden"
                                  ELSE AfterRelease(e.op),
                        ![t].count = 1]
    /\ UNCHANGED <<ctr, hidectr, lockq, fs, kref, kopen, budget>>

fuse_do_release(t) ==
    LET e == th[t]
        last == node[e.ino].is_hidden /\ node[e.ino].open_count = 1
    IN
    /\ At(t, "cancel") \/ (At(t, "update") /\ e.op = "release")
    /\ node' = [node EXCEPT ![e.ino].open_count = @ - 1,
                            ![e.ino].is_hidden = @ /\ ~last]
    /\ th' = [th EXCEPT ![t].pc = IF last /\ e.locked THEN "unlinkhidden"
                                  ELSE AfterRelease(e.op),
                        ![t].count = 1]
    /\ UNCHANGED <<ctr, hidectr, lockq, fs, kref, kopen, budget>>

unlink_hidden(t) ==
    /\ At(t, "unlinkhidden")
    /\ Removes(th[t].path) \/ (Resolve(th[t].path) = Nil /\ UNCHANGED fs)
    /\ Goto(t, AfterRelease(th[t].op))
    /\ UNCHANGED <<node, ctr, hidectr, lockq, kref, kopen, budget>>

(***************************************************************************)
(* free_path, free_path_wrlock, free_path2: unlock, then let the queue try *)
(* again.  A release whose path was gone holds nothing and wakes nobody.   *)
(***************************************************************************)
\* Mutant: nobody tries the queue again.
free_path_NoWakeup(t) ==
    LET e == th[t]
        T == IF e.locked THEN queue_element_unlock(S0, t) ELSE S0
    IN
    /\ e.pc \in {"free", "unlock", "freeentry"}
    /\ node' = T.node
    /\ th' = [T.th EXCEPT ![t] = IF e.pc = "freeentry" THEN [@ EXCEPT !.pc = "entry"]
                                 ELSE Idle]
    /\ UNCHANGED <<ctr, hidectr, lockq, fs, kref, kopen, budget>>

free_path(t) ==
    /\ th[t].pc \in {"free", "unlock", "freeentry"}
    /\ \E S \in {IF th[t].locked THEN wake_up_queued(queue_element_unlock(S0, t), lockq)
                 ELSE S0} :
         /\ node' = S.node
         /\ th' = [S.th EXCEPT ![t] = IF th[t].pc = "freeentry"
                                      THEN [@ EXCEPT !.pc = "entry"] ELSE Idle]
    /\ UNCHANGED <<ctr, hidectr, lockq, fs, kref, kopen, budget>>

\* reply_entry: a refused reply takes the lookup back.
reply_entry(t) ==
    LET e == th[t] IN
    /\ At(t, "entry")
    /\ \/ /\ kref' = [kref EXCEPT ![e.ino] = @ + 1]
          /\ th' = [th EXCEPT ![t] = Idle]
          /\ UNCHANGED budget
       \/ /\ budget.interrupts > 0
          /\ budget' = [budget EXCEPT !.interrupts = @ - 1]
          /\ th' = [th EXCEPT ![t].pc = "forget", ![t].count = 1,
                              ![t].pins = {}, ![t].mutex = {}]
          /\ UNCHANGED kref
    /\ UNCHANGED <<node, ctr, hidectr, lockq, fs, kopen>>

(***************************************************************************)
(* forget_node: the last lookups of a node that is locked wait for it to   *)
(* be unlocked.  A thread that is signalled looks again.                   *)
(***************************************************************************)
\* Mutant: a forget does not wait.
forget_node_NoWait(t) ==
    LET e == th[t] IN
    /\ At(t, "forget")
    /\ node' = forget_lookups(node, e.ino, e.count)
    /\ th' = [th EXCEPT ![t] = IF e.op = "create" THEN [e EXCEPT !.pc = "unlock"]
                               ELSE Idle]
    /\ UNCHANGED <<ctr, hidectr, lockq, fs, kref, kopen, budget>>

forget_node(t) ==
    LET e == th[t]
        wait == node[e.ino].nlookup = e.count /\ node[e.ino].treelock # 0
    IN
    /\ At(t, "forget") \/ (At(t, "forgetting") /\ e.done)
    /\ IF wait
       THEN /\ th' = [th EXCEPT ![t].pc = "forgetting", ![t].done = FALSE]
            /\ lockq' = IF At(t, "forget") THEN Append(lockq, t) ELSE lockq
            /\ UNCHANGED node
       ELSE /\ node' = forget_lookups(node, e.ino, e.count)
            /\ th' = [th EXCEPT ![t] = IF e.op = "create" THEN [e EXCEPT !.pc = "unlock"]
                                       ELSE Idle]
            /\ lockq' = IF At(t, "forget") THEN lockq ELSE Remove(lockq, t)
    /\ UNCHANGED <<ctr, hidectr, fs, kref, kopen, budget>>

Handle(t) ==
    \/ wait_path(t)       \/ is_open(t)          \/ hidden_name(t)
    \/ hide_call(t)       \/ hide_node(t)        \/ CallOperation(t)
    \/ lookup_path(t)     \/ UpdateNames(t)      \/ CountOpen(t)
    \/ fuse_reply_open(t) \/ fuse_do_release(t)  \/ unlink_hidden(t)
    \/ free_path(t)       \/ reply_entry(t)      \/ forget_node(t)

Receive(t) ==
    /\ th[t].pc = "idle" /\ budget.requests > 0
    /\ \/ fuse_lib_getattr(t) \/ fuse_lib_open(t)   \/ fuse_lib_release(t)
       \/ fuse_lib_lookup(t)  \/ fuse_lib_mknod(t)  \/ fuse_lib_unlink(t)
       \/ fuse_lib_link(t)    \/ fuse_lib_rename(t) \/ fuse_lib_forget(t)

(***************************************************************************)
(* The library has been running: the kernel knows a directory, a file in   *)
(* it and a file in the root, and may have the files open.                 *)
(***************************************************************************)
Node(parent, name, obj, refs, opens) ==
    [NoNode EXCEPT !.parent = parent, !.name = name, !.obj = obj, !.nlookup = 1,
                   !.refctr = refs, !.open_count = opens]

Init ==
    \E dirname, other \in Names, opens \in 0..1 :
        /\ dirname # other
        /\ node = [n \in NodeIds |->
                     CASE n = 1 -> Node(Nil, Nil, 1, 3, 0)
                       [] n = 2 -> Node(1, dirname, 2, 2, 0)
                       [] n = 3 -> Node(2, dirname, 3, 1, opens)
                       [] n = 4 -> Node(1, other, 4, 1, opens)
                       [] OTHER -> NoNode]
        /\ fs = {<<1, dirname, 2>>, <<2, dirname, 3>>, <<1, other, 4>>}
        /\ kopen = [n \in NodeIds |-> IF n \in {3, 4} THEN opens ELSE 0]
        /\ kref = [n \in NodeIds |-> IF n \in 2..4 THEN 1 ELSE 0]
        /\ ctr = 4 /\ hidectr = 0 /\ lockq = <<>>
        /\ th = [t \in Threads |-> Idle]
        /\ budget = [requests |-> MaxRequests, interrupts |-> MaxInterrupts,
                     refusedCreate |-> FALSE]

AllDone ==
    /\ \A t \in Threads : th[t].pc = "idle"
    /\ budget.requests = 0
    /\ UNCHANGED vars

Next == (\E t \in Threads : Receive(t) \/ Handle(t)) \/ AllDone

Spec == Init /\ [][Next]_vars

------------------------------------------------------------------------------
(* Properties.                                                              *)

Children(n) == {k \in NodeIds : node[k].parent = n}

(***************************************************************************)
(* Type invariant.                                                         *)
(***************************************************************************)
TypeOK ==
    /\ ctr \in NodeIds /\ hidectr \in Nat
    /\ \A n \in NodeIds : /\ node[n].parent \in NodeIds \cup {Nil}
                          /\ {node[n].nlookup, node[n].refctr, node[n].open_count} \subseteq Nat
                          /\ kref[n] \in Nat /\ kopen[n] \in Nat
    /\ IsTree(node)
    /\ ToSet(lockq) \subseteq Threads /\ IsInjective(lockq)
    /\ \A t \in Threads : t \in ToSet(lockq) <=> th[t].pc \in {"waiting", "forgetting"}

(***************************************************************************)
(* Reference counts (unref_node, inc_nlookup, hash_name): a node's refctr  *)
(* is one for its lookups, if it has any, and one for each child, so a     *)
(* node is deleted exactly when neither is left; and no two nodes of a     *)
(* directory have the same name.                                           *)
(***************************************************************************)
ReferencesAreCounted ==
    /\ \A n \in NodeIds :
          node[n].refctr = Cardinality(Children(n)) + (IF node[n].nlookup > 0 THEN 1 ELSE 0)
    /\ \A n, k \in {m \in NodeIds : node[m].name # Nil} :
          node[n].name = node[k].name /\ node[n].parent = node[k].parent => n = k

(***************************************************************************)
(* Lock counts (try_get_path, unlock_path, wake_up_queued): a node's       *)
(* treelock is the number of locked paths that go through it, with or      *)
(* without the mark of a waiting writer, or it is the write lock of one    *)
(* thread and no path goes through it.  So every unlock finds the locks it *)
(* put there, however the tree has changed, and no lock is left behind.    *)
(***************************************************************************)
LocksAreAccountedFor == Accounts(node, th)

(***************************************************************************)
(* A node that a thread is going to look up by its id (get_node aborts if  *)
(* there is none) or that it points to is in the table until then, in      *)
(* particular between the reply of an open and the release of its path;    *)
(* and forget and release take away no more than there is.                 *)
(***************************************************************************)
NodesInUseStay ==
    /\ \A l \in Held(th) :
          \A n \in {HeldDir(th, l), HeldNode(th, l)} \ {Nil} : InTable(node, n)
    /\ \A t \in Threads :
        LET e == th[t] IN
        /\ e.pc \in {"waiting", "call", "update"} =>
              \A n \in {e.dir, e.dir2} \ {Nil} : InTable(node, n)
        /\ e.pc \in {"opened", "reply", "cancel", "entry"} => InTable(node, e.ino)
        /\ e.pc \in {"forget", "forgetting"} => node[e.ino].nlookup >= e.count
        /\ e.pc = "cancel" \/ (e.pc = "update" /\ e.op = "release") =>
              node[e.ino].open_count > 0

(***************************************************************************)
(* What the locks are for: when an operation of the file system is called, *)
(* the path it is given still leads to the object that the kernel meant,   *)
(* whatever the other threads have renamed or removed in the meantime; or, *)
(* for a hidden file whose last user is gone, to nothing.                  *)
(***************************************************************************)
PathLeadsToItsObject ==
    \A t \in Threads :
        LET e == th[t]
            Leads(path, dir, name) ==
                LET obj == Resolve(IF name = Nil THEN path ELSE Front(path))
                IN  obj = node[dir].obj \/ (obj = Nil /\ node[dir].name \in Nat)
        IN  e.pc \in {"call", "check", "hidecall", "unlinkhidden"} =>
              /\ e.locked => Leads(e.path, e.dir, e.name)
              /\ e.locked2 => Leads(e.path2, e.dir2, e.name2)
              /\ e.pc = "call" /\ e.wnode # Nil => Resolve(e.path) = node[e.wnode].obj

(***************************************************************************)
(* No lost wakeup and no deadlock: while a request waits in the queue, a   *)
(* thread that is not waiting holds locks, and will try the queue again    *)
(* when it frees them; or the waiting request is done already.             *)
(***************************************************************************)
WaitersWillBeWoken ==
    \A t \in ToSet(lockq) :
        \/ th[t].done
        \/ \E u \in Threads : th[u].locked /\ (u \notin ToSet(lockq) \/ th[u].done)

(***************************************************************************)
(* Hidden files (hide_node, fuse_do_release): a file under a hidden name   *)
(* is still open, or on its way to be marked or removed; when the last     *)
(* user is gone so is the file.                                            *)
(***************************************************************************)
HiddenFilesGo ==
    \A e \in fs : e[2] \in Nat =>
        \/ \E n \in NodeIds : node[n].obj = e[3] /\ node[n].is_hidden /\ node[n].open_count > 0
        \/ \E t \in Threads : th[t].pc \in {"hidenode", "unlinkhidden"}

(***************************************************************************)
(* The same as long as no create has been cancelled.  A create holds the   *)
(* path of the directory only, so the release that cancels it can come     *)
(* between the check and the mark of an unlink that hides the file.        *)
(***************************************************************************)
HiddenFilesGoUnlessCancelled == budget.refusedCreate \/ HiddenFilesGo
==============================================================================
