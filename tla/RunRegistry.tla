----------------------------- MODULE RunRegistry ----------------------------
(***************************************************************************)
(* CreateWellRun of internal/service: a run is registered under a business *)
(* code, and registering a code again is meant to return its run.          *)
(*                                                                         *)
(* The lookup by code and the insert are two SQL statements with no lock   *)
(* around them; the code column is UNIQUE. Any error of the lookup, not    *)
(* only a missing row, makes the call go on to the insert.                 *)
(***************************************************************************)
EXTENDS Naturals, Sequences

CONSTANTS
    Creators,        \* goroutines, each serving one creation at a time
    Requests,        \* [code, well, units] of creation requests
    Units,           \* the <<temperature, pressure>> units EncodeUnit knows
    MaxRuns          \* bound: no creation begins once this many are registered

VARIABLES
    rows,       \* well_runs: code, well and units of the runs, by id
    creates     \* the creation each creator serves

vars == <<rows, creates>>

Idle == [pc |-> "idle"]

Init == rows = <<>> /\ creates = [c \in Creators |-> Idle]

Set(c, call) == creates' = [creates EXCEPT ![c] = call]

\* The answer to a creation: the id of a run, 0 for an error, and whether a
\* statement of the call failed by itself.
Reply(c, id, fault) ==
    Set(c, [pc |-> "reply", request |-> creates[c].request, id |-> id, fault |-> fault])

\* Units that are not known are refused before anything is read.
CreateBegin(c, request) ==
    /\ creates[c] = Idle
    /\ Len(rows) < MaxRuns
    /\ request.units \in Units
    /\ Set(c, [pc |-> "lookup", request |-> request])
    /\ UNCHANGED rows

\* Look the code up; a run that has it is the answer.
GetWellRunByCode(c) ==
    LET request == creates[c].request
        found   == {i \in DOMAIN rows : rows[i].code = request.code}
    IN  /\ creates[c].pc = "lookup"
        /\ \/ \E i \in found : Reply(c, i, FALSE)
           \/ found = {} /\ Set(c, [pc |-> "insert", request |-> request])
        /\ UNCHANGED rows

\* Variant: the code column is not UNIQUE.
InsertWellRun_NoUnique(c) ==
    /\ creates[c].pc = "insert"
    /\ rows' = Append(rows, creates[c].request)
    /\ Reply(c, Len(rows) + 1, FALSE)

\* Variant: INSERT OR IGNORE, answered with the id of the last insertion.
InsertWellRun_Ignores(c) ==
    LET request == creates[c].request
        taken   == \E i \in DOMAIN rows : rows[i].code = request.code
    IN  /\ creates[c].pc = "insert"
        /\ \/ taken /\ Reply(c, Len(rows), FALSE) /\ UNCHANGED rows
           \/ ~taken /\ Reply(c, Len(rows) + 1, FALSE) /\ rows' = Append(rows, request)

\* Variant: INSERT OR REPLACE, a run that has the code gets the new attributes.
InsertWellRun_Replaces(c) ==
    LET request == creates[c].request
        taken   == {i \in DOMAIN rows : rows[i].code = request.code}
    IN  /\ creates[c].pc = "insert"
        /\ \/ \E i \in taken : Reply(c, i, FALSE) /\ rows' = [rows EXCEPT ![i] = request]
           \/ taken = {} /\ Reply(c, Len(rows) + 1, FALSE) /\ rows' = Append(rows, request)

\* Insert the run, which fails when its code has been taken meanwhile.
InsertWellRun(c) ==
    LET request == creates[c].request
        taken   == \E i \in DOMAIN rows : rows[i].code = request.code
    IN  /\ creates[c].pc = "insert"
        /\ \/ taken /\ Reply(c, 0, FALSE) /\ UNCHANGED rows
           \/ ~taken /\ Reply(c, Len(rows) + 1, FALSE) /\ rows' = Append(rows, request)

Done(c) ==
    /\ creates[c].pc = "reply"
    /\ Set(c, Idle)
    /\ UNCHANGED rows

\* A statement fails: a failed lookup counts as a code that is not there.
Fail(c) ==
    /\ \/ /\ creates[c].pc = "lookup"
          /\ Set(c, [pc |-> "insert", request |-> creates[c].request])
       \/ creates[c].pc = "insert" /\ Reply(c, 0, TRUE)
    /\ UNCHANGED rows

\* The process stops and restarts on the same database.
Crash ==
    /\ creates' = [c \in Creators |-> Idle]
    /\ UNCHANGED rows

Begin(c) == \E request \in Requests : CreateBegin(c, request)

\* The next step of a creation in flight.
Continue(c) == GetWellRunByCode(c) \/ InsertWellRun(c) \/ Done(c)

-----------------------------------------------------------------------------
(* Properties *)

\* Two creations of one code may both miss it in their lookups, yet a code
\* never gets two runs.
OneRunPerCode ==
    \A i, j \in DOMAIN rows : rows[i].code = rows[j].code => i = j

\* Whatever happened since its lookup, a creation that answers with a run does
\* so with the run of the code it was asked for; it answers with an error of
\* its own, when no statement fails, only for a code that has a run.
CreationAnswers ==
    \A c \in Creators :
        creates[c].pc = "reply" =>
            LET reply == creates[c]
                found == {i \in DOMAIN rows : rows[i].code = reply.request.code}
            IN  \/ reply.id \in found
                \/ reply.id = 0 /\ (reply.fault \/ found # {})

\* "Idempotent: return existing run if code already claimed" (CreateWellRun): a
\* creation whose statements do not fail by themselves answers with a run.
CreationIdempotent ==
    \A c \in Creators :
        creates[c].pc = "reply" /\ ~creates[c].fault => creates[c].id # 0
=============================================================================
