---------------------------- MODULE ContentImport ----------------------------
(***************************************************************************)
(* The import of contents, every morning: BatchScheduler runs the job      *)
(* contentImportJob for films, series and matches in turn, each time with  *)
(* new parameters, so never as a restart of the run before. Each run has   *)
(* three steps that read items from a source and hand them to the writer   *)
(* in chunks; a chunk is a transaction of Catalog, next to those of the    *)
(* users.                                                                  *)
(***************************************************************************)
EXTENDS Catalog, Sequences

CONSTANTS
    Sources,    \* what TMDB and TheSportsDB offer, day by day
    ChunkSize,
    MaxFaults,  \* calls, chunks and days that go wrong
    Guests,     \* the requests that are run next to the import; the others are
                \* run where there is none
    MaxChunks   \* chunks that are ever written: their requests are 1..MaxChunks

\* An item as the processors make it from a film, a series or a match.
Entries == [key : Keys, title : Titles, names : SUBSET Names]

ASSUME ImportAssumption ==
    /\ Sources \in Seq([movies : Seq(Seq(Entries)), series : Seq(Seq(Entries)),
                        teams : Seq(Seq(Entries))])
    /\ ChunkSize \in Nat \ {0} /\ MaxFaults \in Nat /\ MaxChunks \in Nat
    /\ 1..MaxChunks \subseteq Requests /\ Guests \subseteq Requests \ 1..MaxChunks

VARIABLES
    day,      \* of Sources; 0 before the first
    run,      \* which of Types the job runs for; 0 when all are done
    step,     \* which of its steps is at work
    reader,   \* of that step
    chunk,    \* items read and not yet written
    chunks,   \* chunks written so far, the present one included
    faults    \* the days of calls without an answer, chunks that were not written
              \* and crashes, one by one

job  == <<day, run, step, reader, chunk, chunks, faults>>
allVars == <<vars, job>>

Types == <<"MOVIE", "DRAMA", "SPORTS">>
Steps == <<"tmdbMovieStep", "tmdbTvStep", "sportsDbStep">>

\* page: the next page, or team, to ask for; ended: read() has returned null.
Readers == [page : Nat, total : Nat, buffer : Seq(Entries), ended : BOOLEAN]

JobTypeOK ==
    /\ TypeOK
    /\ day \in 0..Len(Sources)
    /\ run \in 0..3 /\ step \in 1..3
    /\ reader \in Readers
    /\ chunk \in Seq(Entries) /\ Len(chunk) <= ChunkSize
    /\ chunks \in 0..MaxChunks
    /\ faults \in Seq(1..day) /\ Len(faults) <= MaxFaults
    /\ \A r \in (chunks + 1)..MaxChunks : pc[r] = "new"

Opened(total) == [page |-> 1, total |-> total, buffer |-> <<>>, ended |-> FALSE]

JobInit ==
    /\ Init
    /\ day = 0 /\ run = 0 /\ step = 1
    /\ reader = Opened(1)
    /\ chunk = <<>> /\ chunks = 0
    /\ faults = <<>>

Sports == Steps[step] = "sportsDbStep"

\* The two TMDB steps have one reader, which goes by the type of the run.
Pages ==
    IF Sports THEN Sources[day].teams
    ELSE IF Types[run] = "DRAMA" THEN Sources[day].series ELSE Sources[day].movies

-----------------------------------------------------------------------------
(* Reading.                                                                 *)

Writing == chunks > 0 /\ pc[chunks] = "open"

Reading == run # 0 /\ ~reader.ended /\ Len(chunk) < ChunkSize

ReadFromBuffer ==
    /\ Reading /\ reader.buffer # <<>>
    /\ chunk' = Append(chunk, Head(reader.buffer))
    /\ reader' = [reader EXCEPT !.buffer = Tail(@)]
    /\ UNCHANGED <<vars, day, run, step, chunks, faults>>

\* A page, or a team, without items ends the reading like the last one.
Received(items, total) ==
    [page |-> reader.page + 1, total |-> total, buffer |-> items, ended |-> items = <<>>]

\* Mutation: the number of pages that the answer tells is not kept.
FetchOnePage ==
    /\ Reading /\ ~Sports /\ reader.buffer = <<>> /\ reader.page <= reader.total
    /\ LET items == IF reader.page > Len(Pages) THEN <<>> ELSE Pages[reader.page]
       IN  reader' = Received(items, reader.total)
    /\ UNCHANGED <<vars, day, run, step, chunk, chunks, faults>>

\* Each answer tells how many pages there are.
FetchPage ==
    /\ Reading /\ ~Sports /\ reader.buffer = <<>> /\ reader.page <= reader.total
    /\ LET items == IF reader.page > Len(Pages) THEN <<>> ELSE Pages[reader.page]
       IN  reader' = Received(items, Len(Pages))
    /\ UNCHANGED <<vars, day, run, step, chunk, chunks, faults>>

FetchTeam ==
    /\ Reading /\ Sports /\ reader.buffer = <<>> /\ reader.page <= reader.total
    /\ reader' = Received(Pages[reader.page], reader.total)
    /\ UNCHANGED <<vars, day, run, step, chunk, chunks, faults>>

Fault == Len(faults) < MaxFaults /\ faults' = Append(faults, day)

\* A call throws or has no body: the error is logged, the step ends as if the
\* source had no more.
CallFails ==
    /\ Reading /\ reader.buffer = <<>> /\ reader.page <= reader.total
    /\ reader' = [reader EXCEPT !.ended = TRUE]
    /\ Fault
    /\ UNCHANGED <<vars, day, run, step, chunk, chunks>>

NoMore ==
    /\ Reading /\ reader.buffer = <<>> /\ reader.page > reader.total
    /\ reader' = [reader EXCEPT !.ended = TRUE]
    /\ UNCHANGED <<vars, day, run, step, chunk, chunks, faults>>

-----------------------------------------------------------------------------
(* Writing.                                                                 *)

ChunkFull == run # 0 /\ (Len(chunk) = ChunkSize \/ reader.ended)

\* In a run for matches the processor drops what the TMDB steps read.
Processed ==
    IF Types[run] = "SPORTS" /\ ~Sports THEN {} ELSE {chunk[i] : i \in 1..Len(chunk)}

\* Of two items with one key the later one is written over the earlier, and the
\* tags of both are added.
AsChunk ==
    [k \in {e.key : e \in Processed} |->
        LET last == CHOOSE i \in 1..Len(chunk) :
                        /\ chunk[i].key = k
                        /\ \A j \in i + 1 .. Len(chunk) : chunk[j].key # k
        IN  [title |-> chunk[last].title,
             names |-> UNION {e.names : e \in {f \in Processed : f.key = k}}]]

Write ==
    /\ ChunkFull /\ ~Writing /\ Processed # {}
    /\ chunks < MaxChunks
    /\ WriteChunk(chunks + 1, AsChunk)
    /\ chunks' = chunks + 1
    /\ chunk' = <<>>
    /\ UNCHANGED <<setting, day, run, step, reader, faults>>

\* Nothing to write, or nothing left after the last chunk was written.
Skip ==
    /\ ChunkFull /\ ~Writing /\ Processed = {} /\ chunk # <<>>
    /\ chunk' = <<>>
    /\ UNCHANGED <<vars, day, run, step, reader, chunks, faults>>

Commits ==
    /\ Writing
    /\ CommitImport(chunks)
    /\ UNCHANGED <<setting, job>>

-----------------------------------------------------------------------------
(* Steps, runs and days.                                                    *)

StartRun(n) ==
    /\ run' = n /\ step' = 1
    /\ reader' = Opened(1)
    /\ chunk' = <<>>

NextRun == StartRun(IF run = 3 THEN 0 ELSE run + 1)

\* A failed chunk fails its step, and with it the run; the scheduler goes on
\* with the next one.
ChunkFails ==
    /\ Writing
    /\ Fail(chunks)
    /\ NextRun
    /\ Fault
    /\ UNCHANGED <<setting, day, chunks>>

StepEnds ==
    /\ run # 0 /\ reader.ended /\ chunk = <<>> /\ ~Writing
    /\ IF step = 3 THEN NextRun
       ELSE /\ step' = step + 1
            /\ reader' = Opened(IF step = 2 THEN Len(Sources[day].teams) ELSE 1)
            /\ UNCHANGED <<run, chunk>>
    /\ UNCHANGED <<vars, day, chunks, faults>>

\* The server stops: what is left of today is not made up for.
Crash ==
    /\ run # 0
    /\ IF Writing THEN Fail(chunks) ELSE UNCHANGED <<tables, pc, tx>>
    /\ StartRun(0)
    /\ Fault
    /\ UNCHANGED <<setting, day, chunks>>

NextDay ==
    /\ setting.import
    /\ run = 0 /\ day < Len(Sources)
    /\ day' = day + 1
    /\ StartRun(1)
    /\ UNCHANGED <<vars, chunks, faults>>

-----------------------------------------------------------------------------

Request(r) ==
    /\ StartReview(r) \/ StartAdmin(r) \/ Finish(r) \/ Fail(r)
    /\ UNCHANGED <<setting, job>>

Job ==
    \/ NextDay \/ StepEnds \/ Crash
    \/ ReadFromBuffer \/ FetchPage \/ FetchTeam \/ CallFails \/ NoMore
    \/ Write \/ Skip \/ Commits \/ ChunkFails

Free == IF setting.import THEN Guests ELSE Requests \ (Guests \cup 1..MaxChunks)

JobNext == Job \/ \E r \in Free : Request(r)

JobSpec == JobInit /\ [][JobNext]_allVars

-----------------------------------------------------------------------------
(* Correctness.                                                             *)

Offered(pages) == UNION {{pages[i][j] : j \in 1..Len(pages[i])} : i \in 1..Len(pages)}

OfferedOn(d) ==
    Offered(Sources[d].movies) \cup Offered(Sources[d].series) \cup Offered(Sources[d].teams)

Sound == \A i \in 1..Len(faults) : faults[i] # day

\* No page is empty and every team has a match to report (one without ends the
\* reading), and no number is that of a film and of a series, which share their
\* external ids.
Plain(d) ==
    /\ \A i \in 1..Len(Sources[d].movies) : Sources[d].movies[i] # <<>>
    /\ \A i \in 1..Len(Sources[d].series) : Sources[d].series[i] # <<>>
    /\ \A i \in 1..Len(Sources[d].teams) : Sources[d].teams[i] # <<>>
    /\ \A e, f \in OfferedOn(d) : e.key = f.key => e = f

\* After a day of answered calls and written chunks everything that was offered
\* is stored as it was offered, if requests do not overlap the chunks and no
\* administrator interferes.
ImportComplete ==
    ~setting.overlap /\ ~setting.admin /\ run = 0 /\ day > 0 /\ Sound /\ Plain(day) =>
        \A e \in OfferedOn(day) :
            \E c \in Contents :
                /\ content[c] # None
                /\ content[c].key = e.key /\ content[c].title = e.title
                /\ e.names \subseteq TagsOf(c)

\* The types hold, and what one request stores fits what the others do: a review
\* has its content, a key has one content, a user one review of it.
CatalogInv == JobTypeOK /\ ReviewsHaveContent /\ KeyOnce
=============================================================================
