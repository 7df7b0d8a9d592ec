--------------------------- MODULE MigrationReport ---------------------------
(***************************************************************************)
(* The report of a migrate-vm run: the workflow of MigrateVm, with the     *)
(* records its steps write and what the report makes of those it collects. *)
(*                                                                         *)
(* The engine hands the report the versions the steps of the run wrote, so *)
(* that what another run writes in between does not show.                  *)
(***************************************************************************)
EXTENDS MigrateVm

CONSTANT Null   \* no report yet

VARIABLES
    written,    \* per guest, the records of its last run, by the step that wrote them
    report      \* per guest, the report of its last run

reportVars == <<vars, written, report>>

Ended == {"succeeded", "cleaned", "uncleaned"}

\* What a step puts on record that the report is about.
Record(g, s) ==
    CASE s = "inspect" -> [mac |-> g]
      [] s = "stream-disk" -> [verified |-> TRUE]
      [] s = "create-vm" -> [name |-> g]
      [] s = "attach-nic" -> [mac |-> latest.spec]
      [] s = "prep-net-agent" -> [applied |-> TRUE]
      [] s = "prep-net-offline" -> [applied |-> TRUE]
      [] s = "verify-reach" -> [reachable |-> step'[g][s] = "succeeded"]
Recording == {"inspect", "stream-disk", "create-vm", "attach-nic", "prep-net-agent",
              "prep-net-offline", "verify-reach"}

\* verify polls until its deadline, writes what it found and only then throws.
Turns(g, s, outcome) == step[g][s] # outcome /\ step'[g][s] = outcome
Writes(g, polled) ==
    {s \in Recording : Turns(g, s, "succeeded")}
      \cup {s \in {"verify-reach"} : polled /\ Turns(g, s, "failed")}

Collected(g) == [s \in {t \in DOMAIN written[g] : step[g][t] = "succeeded"} |-> written[g][s]]

macPreserved(c) == {"inspect", "attach-nic"} \subseteq DOMAIN c /\ c["inspect"].mac = c["attach-nic"].mac
netMethod(c) ==
    CASE "prep-net-agent" \in DOMAIN c -> "agent"
      [] "prep-net-agent" \notin DOMAIN c /\ "prep-net-offline" \in DOMAIN c -> "offline"
      [] OTHER -> "none applied"
reachable(c) ==
    IF "verify-reach" \notin DOMAIN c THEN "not checked"
    ELSE IF c["verify-reach"].reachable THEN "yes" ELSE "no"

Warnings(c) ==
    {w \in {"MAC differs", "bytes", "not reachable"} :
        \/ w = "MAC differs" /\ ~macPreserved(c)
        \/ w = "bytes" /\ "stream-disk" \in DOMAIN c /\ ~c["stream-disk"].verified
        \/ w = "not reachable" /\ reachable(c) = "no"}

renderMigrationSummary(c) ==
    [macPreserved |-> macPreserved(c), networkPrep |-> netMethod(c), reachable |-> reachable(c),
     source |-> "left stopped", warnings |-> Warnings(c)]

-----------------------------------------------------------------------------
NoRecords == [s \in {} |-> Null]

ReportInit ==
    /\ Init
    /\ written = [g \in Guests |-> NoRecords]
    /\ report = [g \in Guests |-> Null]

Starts(g) == runs'[g] # runs[g]
Ends(g) == status[g] \notin Ended /\ status'[g] \in Ended

Recorded(polled) ==
    written' = [g \in Guests |->
        IF Starts(g) THEN NoRecords
        ELSE [s \in DOMAIN written[g] \cup Writes(g, polled) |->
                IF s \in DOMAIN written[g] THEN written[g][s] ELSE Record(g, s)]]

Reported ==
    report' = [g \in Guests |->
        IF Starts(g) THEN Null
        ELSE IF Ends(g) THEN renderMigrationSummary(Collected(g)) ELSE report[g]]

ReportNext == Next /\ Reported /\ \E polled \in BOOLEAN : Recorded(polled)

ReportSpec == ReportInit /\ [][ReportNext]_reportVars

-----------------------------------------------------------------------------
\* Only steps that have records wrote some, and a report is of a run that is over.
ReportTypeOK ==
    /\ \A g \in Guests : DOMAIN written[g] \subseteq Recording
    /\ \A g \in Guests : report[g] # Null => status[g] \in Ended

Clean(r) == r.reachable = "yes" /\ r.warnings = {}

\* A report that finds nothing wrong is of a migration that is complete: the target has
\* the MAC of the source and a whole copy of its disk as the source left it, whatever was
\* tried, undone and carried out late before.
CleanReportTrue ==
    []ReportTypeOK /\
    [][\A g \in Guests :
         (Ends(g) /\ Clean(report'[g])) =>
            \E i \in DOMAIN vms' :
                /\ vms'[i].name = g /\ {Nic(g), Disk(g)} \subseteq vms'[i].devices
                /\ Faithful(g, g)']_reportVars

=============================================================================
