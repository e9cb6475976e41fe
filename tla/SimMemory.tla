----------------------------- MODULE SimMemory -----------------------------
(***************************************************************************)
(* The memory of the simulator: what parser.c, edf.c, cbs.c and main.c     *)
(* allocate, link, unlink and free while Simulator goes on, then           *)
(* PrintResult and the cleanup of main.  A block of memory is named by     *)
(* what it was allocated for, so that no address is used twice.            *)
(***************************************************************************)
EXTENDS SimulatorProps, LinkedList, Vector

VARIABLES
    heap,       \* the blocks that are allocated
    serverVec,  \* queue->servers: pointers to the servers
    jobVec,     \* server->jobs, by server: pointers to waiting jobs
    lists,      \* the list nodes of the run events and of their heads
    invalid,    \* a freed block, or one beyond its end, has been used
    overrun,    \* the vectors whose array of sizes has been overrun
    result,     \* the counts of struct ParserResult
    phase,      \* where main is behind StartSimulation
    cleaned,    \* how many servers the cleanup of main has handled
    pos, save   \* the cursors of list_for_each_safe

memory == <<heap, serverVec, jobVec, lists, invalid, overrun, result, phase,
            cleaned, pos, save>>
mvars  == <<simvars, memory>>

(* The blocks. *)
Block(kind, a, b) == <<kind, a, b>>
NameOfVcpu(k)  == Block("vcpuName", k, 0)   \* virtualCpus[k].name
NameOfEvent(k) == Block("eventName", k, 0)  \* events[k].vCpuName
VirtualCpus    == Block("virtualCpus", 0, 0)
EventArray     == Block("events", 0, 0)
ServerVector   == Block("servers", 0, 0)
ServerCopy(j)  == Block("server", j, 0)
JobVector(j)   == Block("jobs", j, 0)
RunHead(j)     == Block("runTimes", j, 0)   \* server->runTimes
JobCopy(k)     == Block("job", k, 0)        \* of events[k]
RunNode(j, k)  == Block("runEvent", j, k)   \* the k-th of the server

(* parseFile: two arrays, and a name for each of their elements. *)
Parsed(r) ==
    {VirtualCpus, EventArray}
        \cup {NameOfVcpu(k) : k \in 1..r.virtualCpuCount}
        \cup {NameOfEvent(k) : k \in 1..r.eventCount}

NoNodes == [n \in {} |-> NULL]

MemInit ==
    /\ SimInit
    /\ result = [virtualCpuCount |-> Len(vcpus), eventCount |-> Len(events)]
    /\ heap = Parsed(result) \cup {ServerVector}
    /\ serverVec = create_vector
    /\ jobVec = << >>
    /\ lists = [next |-> NoNodes, prev |-> NoNodes]
    /\ invalid = FALSE
    /\ overrun = {}
    /\ phase = "simulate"
    /\ cleaned = 0
    /\ pos = NULL
    /\ save = NULL

-----------------------------------------------------------------------------
(* malloc of a list node: its pointers are not set. *)
NewNode(l, n) ==
    [next |-> [m \in DOMAIN l.next \cup {n} |->
                  IF m = n THEN UNSET ELSE l.next[m]],
     prev |-> [m \in DOMAIN l.prev \cup {n} |->
                  IF m = n THEN UNSET ELSE l.prev[m]]]

(* A step that uses blocks that are not allocated, or that breaks what it  *)
(* relies on otherwise, is noted.                                          *)
Uses(blocks, sane) ==
    invalid' = (invalid \/ ~(blocks \subseteq heap) \/ ~sane)

(* vector_add on the vector of this block writes a size.  Behind the end   *)
(* of its array it hits what the allocator has put there: that is noted,   *)
(* and the program is followed as far as it goes on undisturbed.           *)
SizeAdded(vec, block) ==
    overrun' = overrun \cup (IF SizeInBounds(vec) THEN {} ELSE {block})

Simulating == UNCHANGED <<result, phase, cleaned, pos, save>>

(* RegisterVCPU: an admitted vCPU gets a vector, a list and a server. *)
MemRegister ==
    /\ RegisterVCPU
    /\ IF servers' = servers
       THEN UNCHANGED <<heap, serverVec, jobVec, lists, invalid, overrun>>
       ELSE LET j == Len(servers')
            IN  /\ heap' = heap \cup {JobVector(j), RunHead(j), ServerCopy(j)}
                /\ jobVec' = Append(jobVec, create_vector)
                /\ lists' = INIT_LIST_HEAD(NewNode(lists, RunHead(j)),
                                           RunHead(j))
                /\ serverVec' = vector_add(serverVec, ServerCopy(j))
                /\ Uses({ServerVector}, AddInBounds(serverVec))
                /\ SizeAdded(serverVec, ServerVector)
    /\ Simulating

MemSort == Sort /\ UNCHANGED memory

(* Mutant: the events are linked in front. *)
InsertedFirst(l, n, head) == list_add(NewNode(l, n), n, head)

(* InsertRunEvent: a new node at the tail of the server's list. *)
RunEventAdded(l, n, head) == list_add_tail(NewNode(l, n), n, head)

(* What has been recorded about server j.  Of the servers of one name, the *)
(* first is given all the jobs.                                            *)
RunsOf(j) ==
    IF \E k \in 1..j - 1 : servers[k].cpu = servers[j].cpu THEN << >>
    ELSE runTimes[servers[j].cpu]

(* The node of the run event that is recorded next for server j.           *)
NextNode(j) == RunNode(j, Len(RunsOf(j)) + 1)

MemArrive ==
    /\ Arrive
    /\ LET j      == Min(Served(events[i + 1]))
           waits  == servers[j].state # IDLE
           copy   == JobCopy(i + 1)
       IN  /\ heap' = heap \cup {NextNode(j)}
                           \cup (IF waits THEN {copy} ELSE {})
           /\ jobVec' = IF waits
                        THEN [jobVec EXCEPT ![j] = vector_add(@, copy)]
                        ELSE jobVec
           /\ lists' = RunEventAdded(lists, NextNode(j), RunHead(j))
           /\ Uses({EventArray, ServerVector, ServerCopy(j), RunHead(j),
                    lists.prev[RunHead(j)]}
                     \cup (IF waits THEN {JobVector(j)} ELSE {}),
                   waits => AddInBounds(jobVec[j]))
           /\ IF waits THEN SizeAdded(jobVec[j], JobVector(j))
                       ELSE UNCHANGED overrun
    /\ UNCHANGED serverVec
    /\ Simulating

MemDrop      == DropEvent /\ UNCHANGED memory
MemIdle      == Idle /\ UNCHANGED memory
MemIdleAtEnd == IdleAtEnd /\ UNCHANGED memory

(* DoWork: the next job is read from its copy, then the copy is removed. *)
MemWork ==
    /\ Work
    /\ LET j     == Active
           takes == JobFinished(servers[j]) /\ jobVec[j].length > 0
           copy  == vector_get(jobVec[j], 0)
       IN  /\ heap' = (heap \cup {NextNode(j)})
                          \ (IF takes THEN {copy} ELSE {})
           /\ jobVec' = IF takes
                        THEN [jobVec EXCEPT ![j] = vector_remove(@, 0)]
                        ELSE jobVec
           /\ lists' = RunEventAdded(lists, NextNode(j), RunHead(j))
           /\ Uses({ServerVector, ServerCopy(j), JobVector(j), RunHead(j),
                    lists.prev[RunHead(j)]}
                     \cup (IF takes THEN {copy} ELSE {}), TRUE)
    /\ UNCHANGED <<serverVec, overrun>>
    /\ Simulating

-----------------------------------------------------------------------------
(* PrintResult: the chart of a vCPU.  An event that was recorded for a     *)
(* column already drawn is not shown.                                      *)
Sign(action) ==
    CASE action = "NewJob" -> "J" [] action = "JobEnd" -> "E" [] OTHER -> "="

Columns(chart, event) ==
    chart \o [t \in 1..event.time - Len(chart) |-> "_"] \o <<Sign(event.action)>>

(* Mutant: an event right behind the last column is taken for drawn. *)
DrawnBehind(chart, event) ==
    IF event.time > Len(chart) THEN Columns(chart, event) ELSE chart

Drawn(chart, event) ==
    IF event.time >= Len(chart) THEN Columns(chart, event) ELSE chart

(* list_for_each: the events in the order of the nodes. *)
Chart(j) == FoldLeft(Drawn, << >>, RunsOf(j))

PrintResult ==
    /\ phase = "simulate"
    /\ at = "done"
    /\ phase' = "jobs"
    /\ Uses({ServerVector} \cup ElementSet(serverVec) \cup DOMAIN lists.next,
            TRUE)
    /\ UNCHANGED <<simvars, heap, serverVec, jobVec, lists, overrun, result,
                   cleaned, pos, save>>

-----------------------------------------------------------------------------
(* The cleanup of main.  What a wild pointer points to is not known, and   *)
(* nothing is said about a program that has used one.                      *)
Follow(l, n) == IF n \in DOMAIN l.next THEN l.next[n] ELSE UNSET
CleanUp(from) ==
    /\ phase = from
    /\ ~invalid
    /\ UNCHANGED <<simvars, serverVec, overrun, result>>

(* Mutant: the elements of a vector are not freed. *)
OnlyVector(vec, block) == {block}

(* destroy_vector frees every element, then the vector. *)
Destroyed(vec, block) == ElementSet(vec) \cup {block}
EachOnce(vec) == Cardinality(ElementSet(vec)) = vec.length

(* The server whose turn it is. *)
Turn == cleaned + 1

FreeJobs ==
    /\ CleanUp("jobs")
    /\ cleaned < serverVec.length
    /\ LET blocks == Destroyed(jobVec[Turn], JobVector(Turn))
           first  == lists.next[RunHead(Turn)]
       IN  /\ heap' = heap \ blocks
           /\ Uses(blocks \cup {ServerVector, ServerCopy(Turn), RunHead(Turn), first},
                   EachOnce(jobVec[Turn]))
           /\ pos' = first
           /\ save' = Follow(lists, first)
    /\ phase' = "nodes"
    /\ UNCHANGED <<jobVec, lists, cleaned>>

(* Mutant: the traversal is not the safe one. *)
NextFromNode(l) == Follow(l, pos)

(* The step of list_for_each_safe: pos = save, whatever has become of pos. *)
NextSaved(l) == save

FreeNode ==
    /\ CleanUp("nodes")
    /\ pos # RunHead(Turn)
    /\ heap' = heap \ {pos}
    /\ lists' = list_del(lists, pos)
    /\ pos' = NextSaved(lists')
    /\ save' = Follow(lists', pos')
    /\ Uses({pos, pos', lists.next[pos], lists.prev[pos]}, LinkedIn(lists, pos))
    /\ UNCHANGED <<jobVec, phase, cleaned>>

FreeHead ==
    /\ CleanUp("nodes")
    /\ pos = RunHead(Turn)
    /\ heap' = heap \ {pos}
    /\ Uses({pos, ServerCopy(Turn)}, TRUE)
    /\ cleaned' = cleaned + 1
    /\ phase' = "jobs"
    /\ UNCHANGED <<jobVec, lists, pos, save>>

(* freeResult. *)
FreeResult ==
    /\ CleanUp("jobs")
    /\ cleaned = serverVec.length
    /\ heap' = heap \ Parsed(result)
    /\ Uses(Parsed(result), TRUE)
    /\ phase' = "servers"
    /\ UNCHANGED <<jobVec, lists, cleaned, pos, save>>

DestroyServers ==
    /\ CleanUp("servers")
    /\ heap' = heap \ Destroyed(serverVec, ServerVector)
    /\ Uses(Destroyed(serverVec, ServerVector), EachOnce(serverVec))
    /\ phase' = "exit"
    /\ UNCHANGED <<jobVec, lists, cleaned, pos, save>>

-----------------------------------------------------------------------------
MemNext ==
    \/ MemRegister
    \/ MemSort
    \/ MemArrive
    \/ MemDrop
    \/ MemIdle
    \/ MemIdleAtEnd
    \/ MemWork
    \/ PrintResult
    \/ FreeJobs
    \/ FreeNode
    \/ FreeHead
    \/ FreeResult
    \/ DestroyServers

MemSpec == MemInit /\ [][MemNext]_mvars /\ WF_mvars(MemNext)

-----------------------------------------------------------------------------
(* No step uses a block that has been freed or never allocated, writes     *)
(* behind the end of the data of a vector, or frees a block twice.  (The   *)
(* sizes are another matter, see SizesOverrun.)                            *)
AccessesValid == ~invalid

(* "malloc(sizeof(int)*BASE_CAP)" for an array of size_t: how many sizes   *)
(* it has room for.                                                        *)
SizesRoom == (BASE_CAP * SIZEOF_INT) \div SIZEOF_SIZE_T

(* Exactly when the array of the sizes is overrun: on a build on which a   *)
(* size_t is wider than an int, by the first element more than it has room *)
(* for, since that comes before the vector grows; on the others never,     *)
(* because it grows in time.  A waiting job is in the vector, the job that *)
(* is worked on is not.                                                    *)
SizesOverrun ==
    /\ SIZEOF_SIZE_T <= SIZEOF_INT => overrun = {}
    /\ SIZEOF_SIZE_T > SIZEOF_INT =>
          /\ ServerVector \in overrun <=> Len(servers) > SizesRoom
          /\ \A j \in DOMAIN servers :
                /\ Len(servers[j].jobs) > SizesRoom => JobVector(j) \in overrun
                /\ JobVector(j) \in overrun =>
                      Cardinality({k \in 1..i : events[k].vCpuName = servers[j].cpu})
                        > SizesRoom + 1

(* The memory holds what the simulation is about: the vector of a server   *)
(* its waiting jobs in order, and its list, forwards and backwards, what   *)
(* has been recorded about it.                                             *)
MemoryMatches ==
    phase = "simulate" =>
        /\ serverVec.length = Len(servers)
        /\ \A j \in DOMAIN servers :
              LET q    == Elements(jobVec[j])
                  n    == Len(RunsOf(j))
              IN  /\ vector_get(serverVec, j - 1) = ServerCopy(j)
                  /\ Len(q) = Len(servers[j].jobs)
                  /\ \A k \in DOMAIN q :
                        \E e \in 1..i :
                            /\ q[k] = JobCopy(e)
                            /\ servers[j].jobs[k] =
                                   events[e].requiredProcessingTime
                  /\ Represents(lists, RunHead(j), [k \in 1..n |-> RunNode(j, k)])

(* When main returns, everything it has allocated has been freed.          *)
NothingLeaked == phase = "exit" => heap = {}

(* The legend of PrintResult, against what has been recorded: an arrival   *)
(* is always shown, and hides the work done in the same unit; otherwise    *)
(* the column says whether a job has ended, or been worked on, or neither. *)
ChartShowsRun ==
    at = "done" =>
        \A j \in DOMAIN servers :
            \A t \in DOMAIN Chart(j) :
                LET Was(acts) == \E k \in DOMAIN RunsOf(j) :
                                    /\ RunsOf(j)[k].action \in acts
                                    /\ RunsOf(j)[k].time = t - 1
                IN  Chart(j)[t] = CASE Was({"NewJob"}) -> "J"
                                    [] ~Was({"NewJob"}) /\ Was({"JobEnd"}) -> "E"
                                    [] ~Was({"NewJob"}) /\ Was({"Work"}) -> "="
                                    [] OTHER -> "_"

(* The idle branch goes round for ever: the last event, if there is one at *)
(* all, was for a vCPU that has been refused or is unknown.                *)
IdlesForever ==
    /\ at = "overrun"
    /\ events # << >> => Served(events[count]) = {}

(* "All events are processed now we need to wait for all jobs to be        *)
(* completed": the simulation ends, and so do the drawing and the cleanup, *)
(* unless there is no event or the last one is for no registered vCPU.     *)
Exits == <>(phase = "exit" \/ IdlesForever)
=============================================================================
