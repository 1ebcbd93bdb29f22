------------------------------ MODULE AsyncWriter ------------------------------
(****************************************************************************)
(* AsyncDbWriter (async-writer.ts): the queue of metadata jobs, the budget  *)
(* that payloads are reserved and published against, and the two-phase      *)
(* shutdown; with the job that RequestRecorder.persistOrdered queues for    *)
(* every request, which saves the request row and only then publishes the   *)
(* payload.  The payload writer is there as what it promises,               *)
(* PayloadLedger, under its own name for a request's payload: the request.  *)
(*                                                                          *)
(* An action runs from one await to the next.  A tick of the queue ends     *)
(* after 50 jobs or 250 ms, which is left open: it may end after any job.   *)
(****************************************************************************)
EXTENDS Integers, Sequences, FiniteSets

CONSTANTS
    Request,  \* the requests that are recorded
    Batch,    \* the shutdown job of the recorder
    Idle,     \* no job runs
    QueueCap, \* METADATA_QUEUE_CAP
    JobCap,   \* PAYLOAD_QUEUE_HARD_CAP
    BytesCap, \* PAYLOAD_BYTES_CAP
    EntryMax, \* MAX_PAYLOAD_ENTRY_BYTES
    Sizes     \* sizes of payloads, estimated and stored

ASSUME Caps ==
    /\ {QueueCap, JobCap, BytesCap, EntryMax} \subseteq Nat \ {0}
    /\ Sizes \subseteq Nat \ {0}
    /\ Batch \notin Request /\ Idle \notin Request \cup {Batch}

VARIABLES
    job,       \* per job: "none", "queued", "running", "done" or "refused"
    token,     \* per request: the bytes its job has reserved, 0 for none
    size,      \* per request: the size of its payload as published
    queue, running, \* metadataQueue, and the job that was taken from it
    ticking,   \* runningPromise: a tick is under way
    rows,      \* requests whose row has been saved
    reservedBytes, reservedCount, inFlightBytes, inFlightCount,
    dropped, settled, \* payloads counted as dropped; as committed, expired, abandoned
    closing, disposed, \* closingForDispose, disposed
    created,   \* the payload writer exists
    offered,   \* requests whose payload was to be stored
    outcome, accepting, stage \* the payload writer

accounting == <<reservedBytes, reservedCount, inFlightBytes, inFlightCount,
                dropped, settled>>
writer == <<outcome, accepting, stage>>
vars == <<job, token, size, queue, running, ticking, rows, accounting, closing,
          disposed, created, offered, writer>>

Writer == INSTANCE PayloadLedger WITH Payload <- Request

Job == Request \cup {Batch}

TypeOK ==
    /\ job \in [Job -> {"none", "queued", "running", "done", "refused"}]
    /\ token \in [Request -> Sizes \cup {0}]
    /\ size \in [Request -> Sizes \cup {0}]
    /\ queue \in Seq(Job) /\ Len(queue) <= QueueCap + 1
    /\ running \in Job \cup {Idle}
    /\ {ticking, closing, disposed, created} \subseteq BOOLEAN
    /\ rows \subseteq Request /\ offered \subseteq Request
    /\ {reservedBytes, reservedCount, inFlightBytes, inFlightCount, dropped,
        settled} \subseteq Nat
    /\ Writer!TypeOK

Init ==
    /\ job = [j \in Job |-> "none"]
    /\ token = [r \in Request |-> 0]
    /\ size = [r \in Request |-> 0]
    /\ queue = <<>> /\ running = Idle /\ ticking = FALSE
    /\ rows = {} /\ offered = {}
    /\ reservedBytes = 0 /\ reservedCount = 0
    /\ inFlightBytes = 0 /\ inFlightCount = 0
    /\ dropped = 0 /\ settled = 0
    /\ closing = FALSE /\ disposed = FALSE
    /\ created = FALSE
    /\ Writer!Init

-----------------------------------------------------------------------------
(* The budget *)

\* The bytes of the payloads of S, where f gives the size of each, one by one:
\* their total is the number of elements.
Bytes(f, S) == UNION {{r} \X (1..f[r]) : r \in S}
Total(f, S) == Cardinality(Bytes(f, S))

canAcceptPayload(b) ==
    /\ ~disposed /\ ~closing
    /\ b <= EntryMax
    /\ reservedCount + inFlightCount < JobCap
    /\ reservedBytes + inFlightBytes + b <= BytesCap
    /\ created => accepting

\* A request's payload is given a reservation of b bytes.
Reserve(r, b) ==
    /\ token' = [token EXCEPT ![r] = b]
    /\ reservedBytes' = reservedBytes + b
    /\ reservedCount' = reservedCount + 1
    /\ UNCHANGED <<inFlightBytes, inFlightCount, dropped, settled>>

\* Mutant: the payload is counted as dropped, its reservation kept.
DropWithoutRelease(r) ==
    /\ dropped' = IF token[r] = 0 THEN dropped ELSE dropped + 1
    /\ UNCHANGED <<token, reservedBytes, reservedCount, inFlightBytes,
                   inFlightCount, settled>>

\* The reservation of r, if it has one, is released and the payload counted as
\* dropped.
ReleaseAndDrop(r) ==
    /\ token' = [token EXCEPT ![r] = 0]
    /\ reservedBytes' = reservedBytes - token[r]
    /\ IF token[r] = 0 THEN UNCHANGED <<reservedCount, dropped>>
       ELSE reservedCount' = reservedCount - 1 /\ dropped' = dropped + 1
    /\ UNCHANGED <<inFlightBytes, inFlightCount, settled>>

\* A payload for which there was no reservation is counted as dropped.
JustDrop ==
    /\ dropped' = dropped + 1
    /\ UNCHANGED <<token, reservedBytes, reservedCount, inFlightBytes,
                   inFlightCount, settled>>

\* recheck of enqueuePayload, once the reservation of r has been consumed
RoomFor(r, b) ==
    /\ b <= EntryMax
    /\ ~disposed
    /\ inFlightCount < JobCap
    /\ reservedBytes - token[r] + inFlightBytes + b <= BytesCap

\* The reservation's place is taken by the exact size, and the writer, created
\* when it is first needed, has the payload.
HandToWriter(r, b) ==
    /\ RoomFor(r, b)
    /\ token' = [token EXCEPT ![r] = 0]
    /\ size' = [size EXCEPT ![r] = b]
    /\ reservedBytes' = reservedBytes - token[r]
    /\ reservedCount' = reservedCount - 1
    /\ inFlightBytes' = inFlightBytes + b
    /\ inFlightCount' = inFlightCount + 1
    /\ created' = TRUE
    /\ Writer!Publish(r)
    /\ UNCHANGED <<dropped, settled>>

\* enqueuePayload: dropped is what finds no room, what finds no factory for a
\* writer, and what the writer refuses or throws at before it has registered it.
EnqueuePayload(r, b) ==
    \/ HandToWriter(r, b)
    \/ /\ ReleaseAndDrop(r)
       /\ \/ created' = created
          \/ RoomFor(r, b) /\ created' = TRUE
       /\ UNCHANGED <<size, writer>>

-----------------------------------------------------------------------------
(* The metadata queue *)

\* enqueue refuses at capacity
canAcceptMetadata == Len(queue) < QueueCap

\* enqueue of the job j, for which there is room: a tick that is not under way
\* starts and takes the first job at once.
Enqueue(j) ==
    LET q == Append(queue, j)
    IN IF ticking
       THEN /\ queue' = q
            /\ job' = [job EXCEPT ![j] = "queued"]
            /\ UNCHANGED <<running, ticking>>
       ELSE /\ queue' = Tail(q)
            /\ running' = Head(q)
            /\ ticking' = TRUE
            /\ job' = [job EXCEPT ![j] = "queued", ![Head(q)] = "running"]

\* persistOrdered, for a request whose payload is to be stored or not: the
\* payload's budget is reserved, the job is queued.  When framing the payload
\* fails, or the queue is full, what was reserved has been given back in the
\* same step.
Record(r, b) ==
    /\ job[r] = "none"
    /\ UNCHANGED <<size, rows, closing, disposed, created, writer>>
    /\ IF canAcceptMetadata
       THEN /\ Enqueue(r)
            /\ \/ /\ b = 0
                  /\ UNCHANGED <<token, offered, accounting>>
               \/ /\ b # 0 /\ canAcceptPayload(b)
                  /\ Reserve(r, b)
                  /\ offered' = offered \cup {r}
               \/ /\ b # 0
                  /\ JustDrop
                  /\ offered' = offered \cup {r}
       ELSE /\ job' = [job EXCEPT ![r] = "refused"]
            /\ UNCHANGED <<queue, running, ticking>>
            /\ \/ b = 0 /\ UNCHANGED <<token, offered, accounting>>
               \/ b # 0 /\ JustDrop /\ offered' = offered \cup {r}

\* enqueueShutdownBatch: exempt from the cap
EnqueueShutdownBatch ==
    /\ job[Batch] = "none"
    /\ IF disposed
       THEN /\ job' = [job EXCEPT ![Batch] = "refused"]
            /\ UNCHANGED <<queue, running, ticking>>
       ELSE Enqueue(Batch)
    /\ UNCHANGED <<token, size, rows, accounting, closing, disposed, created,
                   offered, writer>>

JobDone ==
    /\ running' = Idle
    /\ job' = [job EXCEPT ![running] = "done"]

\* Mutant: the payload is published whether or not the row was saved.
PublishesAnyway ==
    /\ running \in Request
    /\ running \notin rows
    /\ \/ rows' = rows \cup {running}
       \/ rows' = rows
    /\ IF token[running] # 0
       THEN \E b \in Sizes : EnqueuePayload(running, b)
       ELSE UNCHANGED <<token, size, created, accounting, writer>>
    /\ JobDone
    /\ UNCHANGED <<queue, ticking, closing, disposed, offered>>

\* The job's writes to the database: of the row, and of what else is kept of
\* the request.  Without the row there is no payload.
SaveRequest ==
    /\ running \in Request
    /\ running \notin rows
    /\ \/ /\ rows' = rows \cup {running}
          /\ IF token[running] = 0 THEN JobDone ELSE UNCHANGED <<job, running>>
          /\ UNCHANGED <<token, accounting>>
       \/ /\ ReleaseAndDrop(running)
          /\ JobDone
          /\ UNCHANGED rows
    /\ UNCHANGED <<size, queue, ticking, closing, disposed, created, offered, writer>>

\* The payload is encoded, which may fail, and published.
PublishPayload ==
    /\ running \in rows
    /\ token[running] # 0
    /\ \/ \E b \in Sizes : EnqueuePayload(running, b)
       \/ ReleaseAndDrop(running) /\ UNCHANGED <<size, created, writer>>
    /\ JobDone
    /\ UNCHANGED <<queue, ticking, rows, closing, disposed, offered>>

\* The shutdown job settles what the recorder still owns.
RunBatch ==
    /\ running = Batch
    /\ JobDone
    /\ UNCHANGED <<token, size, queue, ticking, rows, accounting, closing,
                   disposed, created, offered, writer>>

\* runTick, between two jobs: the next one, or the end of the tick.
TakeJob ==
    /\ ticking /\ running = Idle
    /\ queue # <<>>
    /\ running' = Head(queue)
    /\ queue' = Tail(queue)
    /\ job' = [job EXCEPT ![Head(queue)] = "running"]
    /\ UNCHANGED <<token, size, ticking, rows, accounting, closing, disposed,
                   created, offered, writer>>
EndTick ==
    /\ ticking /\ running = Idle
    /\ ticking' = FALSE
    /\ UNCHANGED <<job, token, size, queue, running, rows, accounting, closing,
                   disposed, created, offered, writer>>

\* A tick is started by the interval, until dispose, and by the drain.
Kick ==
    /\ ~ticking
    /\ queue # <<>>
    /\ ticking' = TRUE
    /\ running' = Head(queue)
    /\ queue' = Tail(queue)
    /\ job' = [job EXCEPT ![Head(queue)] = "running"]
    /\ UNCHANGED <<token, size, rows, accounting, closing, disposed, created,
                   offered, writer>>

\* Mutant: the drain does not kick the queue.
KickUnlessClosing == ~closing /\ Kick

\* Once the drain has ended neither of the two is left.
KickQueue == ~disposed /\ Kick

-----------------------------------------------------------------------------
(* The payload writer, and disposal *)

\* onPayloadSettled, for all that the writer's step settles
CountSettled ==
    LET S == {r \in Request : outcome[r] = "held" /\ outcome'[r] # "held"}
        lost == {r \in S : outcome'[r] = "dropped"}
    IN /\ inFlightBytes' = inFlightBytes - Total(size, S)
       /\ inFlightCount' = inFlightCount - Cardinality(S)
       /\ dropped' = dropped + Cardinality(lost)
       /\ settled' = settled + Cardinality(S \ lost)
       /\ UNCHANGED <<reservedBytes, reservedCount>>

\* Acks settle payloads; the writer's admission opens and closes.
WriterSettles ==
    /\ created
    /\ \E S \in SUBSET Writer!Held : Writer!Settle(S)
    /\ CountSettled
    /\ UNCHANGED <<job, token, size, queue, running, ticking, rows, closing,
                   disposed, created, offered>>

\* dispose, up to its first await: no new reservations, no interval.
Dispose ==
    /\ ~closing
    /\ closing' = TRUE
    /\ UNCHANGED <<job, token, size, queue, running, ticking, rows, accounting,
                   disposed, created, offered, writer>>

\* Mutant: the job that runs is not waited for.
DrainDoneEarly ==
    /\ closing /\ ~disposed
    /\ queue = <<>>
    /\ disposed' = TRUE
    /\ IF created THEN Writer!BeginClose ELSE UNCHANGED writer
    /\ UNCHANGED <<job, token, size, queue, running, ticking, rows, accounting,
                   closing, created, offered>>

\* The drain is over when the queue is empty and no tick is under way: nothing
\* is published any more, and the payload writer is told to flush and close.
DrainDone ==
    /\ closing /\ ~disposed
    /\ queue = <<>> /\ ~ticking
    /\ disposed' = TRUE
    /\ IF created THEN Writer!BeginClose ELSE UNCHANGED writer
    /\ UNCHANGED <<job, token, size, queue, running, ticking, rows, accounting,
                   closing, created, offered>>

WriterClosed ==
    /\ stage = "closing"
    /\ Writer!Close
    /\ CountSettled
    /\ UNCHANGED <<job, token, size, queue, running, ticking, rows, closing,
                   disposed, created, offered>>

-----------------------------------------------------------------------------
Next ==
    \/ \E r \in Request, b \in Sizes \cup {0} : Record(r, b)
    \/ EnqueueShutdownBatch \/ SaveRequest \/ PublishPayload \/ RunBatch
    \/ TakeJob \/ EndTick \/ KickQueue
    \/ WriterSettles \/ Dispose \/ DrainDone \/ WriterClosed

\* Database calls return, and the interval and the drain kick the queue.  The
\* payload writer gets no fairness: it may never settle an entry, and its
\* disposal may never end (PayloadWriter's run payload_wedged).
Fairness ==
    /\ WF_vars(SaveRequest) /\ WF_vars(PublishPayload) /\ WF_vars(RunBatch)
    /\ WF_vars(TakeJob \/ EndTick) /\ WF_vars(KickQueue)
    /\ WF_vars(DrainDone)

Spec == Init /\ [][Next]_vars /\ Fairness

-----------------------------------------------------------------------------
(* Properties *)

\* The budget's counters say what is really held, the reservations of the jobs
\* that are queued or run and the payloads in the writer's hands; every payload
\* that was to be stored is counted in one place; and neither cap is ever
\* exceeded, although a payload may be larger when it is published than when it
\* was reserved.
BudgetIsExact ==
    LET holding == {r \in Request : token[r] # 0}
        held == Writer!Held
    IN /\ TypeOK
       /\ reservedCount = Cardinality(holding)
       /\ reservedBytes = Total(token, holding)
       /\ inFlightCount = Cardinality(held)
       /\ inFlightBytes = Total(size, held)
       /\ \A r \in holding : job[r] \in {"queued", "running"}
       /\ Cardinality(offered)
              = reservedCount + inFlightCount + dropped + settled
       /\ reservedCount + inFlightCount <= JobCap
       /\ reservedBytes + inFlightBytes <= BytesCap

\* The payload writer, a second connection, is only given payloads whose
\* request row was saved before.  Retention may delete the row afterwards; the
\* worker then reports the entry as dropped for good, one of the outcomes of
\* WriterSettles.
PublishedHasRow == \A r \in Request : outcome[r] # "none" => r \in rows

\* Once publishing is refused, no job is left that has something to publish;
\* and when the payload writer has closed, nothing is in flight.
DisposedLosesNothing ==
    /\ disposed => reservedCount = 0
    /\ stage = "closed" => inFlightCount = 0

\* A job that was accepted before the drain ended is run.
AcceptedJobsRun ==
    \A j \in Job : (job[j] = "queued" /\ ~disposed) ~> job[j] = "done"

\* The drain of dispose comes to its end, whatever is still queued, running or
\* being recorded when it begins and although the payload writer may never
\* answer.  dispose then waits for the payload writer, whose own end is the
\* subject of PayloadWriter's DisposalEnds.
DrainEnds == closing ~> disposed
=============================================================================
