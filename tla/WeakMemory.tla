----------------------------- MODULE WeakMemory -----------------------------
(***************************************************************************)
(* The memory between one writing and one reading thread, as the C11/Rust   *)
(* orderings used by concurrent.rs and open-ot-shm define it (external: the *)
(* language's memory model, not code of the repository).                    *)
(*                                                                          *)
(* The writer's instructions are numbered in program order.  Each location  *)
(* keeps the set of its messages [at, val, rel]: at is the store's number,  *)
(* rel the number up to which a thread acquiring the message must also see  *)
(* the writer's stores.  A release store publishes everything up to itself; *)
(* a relaxed store only what precedes the writer's last release fence.      *)
(*                                                                          *)
(* The reader may take any message of a location that is not older than one *)
(* it has already read there (coherence) or is obliged to see.  seen is the *)
(* last store it must see; acquired collects the rel of relaxed loads until *)
(* an acquire fence makes them binding.  Because the writer never reads what*)
(* the reader writes, a reader that can always pick an old message covers   *)
(* every interleaving, so the writer may append a block of stores at once.  *)
(*                                                                          *)
(* Ordering = "x86" makes every store a release and every load an acquire,  *)
(* which is what total store order gives one writer and one reader.         *)
(***************************************************************************)
EXTENDS Integers, Sequences

CONSTANTS
    Location,      \* the shared locations
    Initial,       \* Initial[l]: the value of l before the first store
    Ordering       \* "c11" or "x86"

VARIABLES
    messages,   \* messages[l]: the stores to l
    stores,     \* writer: number of instructions so far
    fenced,     \* writer: number of its last release fence
    seen,       \* reader: the number up to which it is obliged to see
    acquired,   \* reader: what an acquire fence would oblige it to see
    last_read   \* reader: last_read[l] is the number of the store it last read

memVars == <<messages, stores, fenced, seen, acquired, last_read>>

MemInit ==
    /\ messages = [l \in Location |-> {[at |-> 0, val |-> Initial[l], rel |-> 0]}]
    /\ stores = 0
    /\ fenced = 0
    /\ seen = 0
    /\ acquired = 0
    /\ last_read = [l \in Location |-> 0]

-----------------------------------------------------------------------------
(* The writer executes a program: a sequence of instructions.               *)
Relaxed(l, v) == [op |-> "relaxed", loc |-> l, val |-> v]
Release(l, v) == [op |-> "release", loc |-> l, val |-> v]

\* A relaxed read-modify-write also continues the release sequence of the
\* message it replaces.
RelaxedRMW(l, v) == [op |-> "rmw", loc |-> l, val |-> v]
ReleaseFence == [op |-> "fence"]

\* The largest of a set of instruction numbers.
Latest(numbers) == CHOOSE n \in numbers : \A k \in numbers : n >= k

\* The number of the last release fence before instruction i of the program.
FenceBefore(program, i) ==
    LET fences == {j \in 1 .. (i - 1) : program[j].op = "fence"}
    IN IF fences = {} THEN fenced ELSE stores + Latest(fences)

LastMessage(l) == CHOOSE m \in messages[l] : \A n \in messages[l] : n.at <= m.at

\* What acquiring the message of instruction i obliges a thread to see.
Published(program, i) ==
    CASE Ordering = "x86" \/ program[i].op = "release" -> stores + i
      [] Ordering # "x86" /\ program[i].op = "relaxed" -> FenceBefore(program, i)
      [] OTHER -> Latest({FenceBefore(program, i), LastMessage(program[i].loc).rel})

Message(program, i) ==
    [at |-> stores + i, val |-> program[i].val, rel |-> Published(program, i)]

StoresTo(program, l) ==
    {i \in DOMAIN program : program[i].op # "fence" /\ program[i].loc = l}

Execute(program) ==
    /\ messages' = [l \in Location |->
                        messages[l] \cup {Message(program, i) : i \in StoresTo(program, l)}]
    /\ stores' = stores + Len(program)
    /\ fenced' = FenceBefore(program, Len(program) + 1)

-----------------------------------------------------------------------------
(* The reader.  A view is [seen, acquired, last_read].                      *)
View == [seen |-> seen, acquired |-> acquired, last_read |-> last_read]

Visible(view, l) ==
    {m \in messages[l] :
        /\ m.at >= view.last_read[l]
        /\ \A n \in messages[l] : n.at > m.at => n.at > view.seen}

AfterRelaxedLoad(view, l, m) ==
    [seen |-> IF Ordering = "x86" THEN Latest({view.seen, m.rel}) ELSE view.seen,
     acquired |-> Latest({view.acquired, m.rel}),
     last_read |-> [view.last_read EXCEPT ![l] = m.at]]

AfterAcquireFence(view) ==
    [view EXCEPT !.seen = Latest({@, view.acquired})]

\* An acquire load binds what its own message publishes, and nothing else.
AfterAcquireLoad(view, l, m) ==
    [AfterRelaxedLoad(view, l, m) EXCEPT !.seen = Latest({@, m.rel})]

Adopt(view) ==
    /\ seen' = view.seen
    /\ acquired' = view.acquired
    /\ last_read' = view.last_read

\* Stores become visible in the end: the reader's processor is brought up to
\* date with everything stored so far.
Propagate ==
    /\ seen < stores
    /\ seen' = stores
    /\ UNCHANGED <<messages, stores, fenced, acquired, last_read>>

=============================================================================
