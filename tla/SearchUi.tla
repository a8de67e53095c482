------------------------------ MODULE SearchUi ------------------------------
(***************************************************************************)
(* The Vicinae extension (sqsearch-files.tsx) in front of `sqsearch query`.*)
(* What the user types is rendered first and sent by an effect; output     *)
(* lines are handled as they come; a timer copies the results collected to *)
(* the list that is shown.  History and its sorting are left out: shown is *)
(* the concatenation of both sections.                                     *)
(***************************************************************************)
EXTENDS QueryProcess

CONSTANTS
  Blank,         (* the empty search text                                  *)
  default_count,
  MaxTyped,      (* bound: changes of the search text and the count        *)
  MaxCount       (* bound: no more results are asked for beyond it         *)

ASSUME UiAssumption == Blank \in Text /\ default_count \in Nat /\ MaxTyped \in Nat

VARIABLES
  search_text, count, loading,  (* React state                             *)
  effects,    (* what the effects of the last render have yet to see: a    *)
              (* new text, only a new count, or nothing                    *)
  query_ref, active_query_ref,  (* lines; NoLine is ''                     *)
  results,    (* result_ref.current: the ids in the order they came        *)
  dirty,      (* result_ref.current.dirty                                  *)
  ui_results,
  typed

queryRefs == <<query_ref, active_query_ref>>
stateVars == <<search_text, count, loading, effects, typed>>
resultVars == <<results, dirty, ui_results>>
uiVars == <<queryRefs, stateVars, resultVars>>
vars == <<processVars, uiVars>>

Init ==
  /\ ProcessInit
  /\ search_text = Blank /\ count = default_count /\ loading = TRUE /\ effects = "none"
  /\ query_ref = NoLine /\ active_query_ref = NoLine
  /\ results = <<>> /\ dirty = TRUE /\ ui_results = <<>>
  /\ typed = 0

-----------------------------------------------------------------------------
(* set_query, set_count and the end of loading re-render; React runs the   *)
(* effects of a render before it renders again.                            *)
Type(t) ==
  /\ ~gone /\ effects = "none" /\ typed < MaxTyped /\ t # search_text
  /\ search_text' = t /\ effects' = "text" /\ typed' = typed + 1
  /\ UNCHANGED <<processVars, queryRefs, count, loading, resultVars>>

MoreResults ==
  /\ ~gone /\ effects = "none" /\ typed < MaxTyped
  /\ ui_results # <<>> /\ 2 * count <= MaxCount
  /\ count' = 2 * count /\ effects' = "count" /\ typed' = typed + 1
  /\ UNCHANGED <<processVars, queryRefs, search_text, loading, resultVars>>

Loaded ==
  /\ ~gone /\ loading /\ effects = "none"
  /\ loading' = FALSE /\ effects' = "count"
  /\ UNCHANGED <<processVars, queryRefs, search_text, count, typed, resultVars>>

SendQuery ==
  /\ query_ref' = [count |-> count, text |-> search_text]
  /\ Write(query_ref')
  /\ UNCHANGED <<eof, held, told, exited, threadVars, gone, queue, interrupted, out>>

(* The query effect, then the one that resets count for a new text (which  *)
(* renders again if it changes it).                                        *)
RunEffects ==
  /\ ~gone /\ effects # "none"
  /\ IF loading THEN UNCHANGED <<results, dirty>> ELSE results' = <<>> /\ dirty' = TRUE
  /\ IF loading \/ search_text = Blank THEN UNCHANGED <<processVars, query_ref>> ELSE SendQuery
  /\ IF effects = "text" /\ count # default_count
     THEN count' = default_count /\ effects' = "count"
     ELSE effects' = "none" /\ UNCHANGED count
  /\ UNCHANGED <<active_query_ref, search_text, loading, typed, ui_results>>

-----------------------------------------------------------------------------
(* sync: by the timer and at every End.                                    *)
Sync == ui_results' = IF dirty THEN results ELSE ui_results

Tick ==
  /\ ~gone /\ dirty
  /\ Sync /\ dirty' = FALSE
  /\ UNCHANGED <<processVars, queryRefs, stateVars, results>>

\* Mutant of Accepts: every row is taken for one of the current query.
AcceptsAll == TRUE

Accepts == active_query_ref = query_ref

\* Mutant of HandleItem: a row that comes while the list is clean stays unshown.
ItemStaysClean(line) ==
  /\ results' = IF Accepts THEN Append(results, line.id) ELSE results
  /\ UNCHANGED <<active_query_ref, dirty, ui_results>>

HandleItem(line) ==
  /\ IF Accepts THEN results' = Append(results, line.id) /\ dirty' = TRUE
     ELSE UNCHANGED <<results, dirty>>
  /\ UNCHANGED <<active_query_ref, ui_results>>

(* on_line                                                                 *)
HandleLine ==
  /\ ~gone /\ Consumed
  /\ LET line == Head(out)
     IN  \/ /\ line.type = "Begin"
            /\ active_query_ref' = line.line
            /\ UNCHANGED resultVars
         \/ /\ line.type = "End"
            /\ active_query_ref' = NoLine
            /\ Sync /\ dirty' = FALSE /\ UNCHANGED results
         \/ line.type = "Error" /\ UNCHANGED <<active_query_ref, resultVars>>
         \/ line.type = "Item" /\ HandleItem(line)
  /\ UNCHANGED <<query_ref, stateVars>>

(* The launcher dies, and with it both pipes.                              *)
UiDies ==
  /\ CloseBoth
  /\ search_text' = Blank /\ count' = default_count /\ loading' = TRUE /\ effects' = "none"
  /\ query_ref' = NoLine /\ active_query_ref' = NoLine
  /\ results' = <<>> /\ dirty' = TRUE /\ ui_results' = <<>>
  /\ typed' = 0

MainSteps == MainThread /\ UNCHANGED uiVars
QuerySteps == QueryThread /\ UNCHANGED uiVars

(* Everything typed has been sent, answered, read and shown.               *)
Settled ==
  /\ effects = "none" /\ ~loading /\ ~dirty
  /\ input = <<>> /\ held = NoLine /\ queue = <<>> /\ thread = "waits" /\ out = <<>>

(* Only the user, if anybody, can do something now.                        *)
Rest ==
  /\ Settled \/ (thread = "dead" /\ (exited \/ ~gone))
  /\ UNCHANGED vars

Next ==
  \/ \E t \in Text : Type(t)
  \/ MoreResults
  \/ Loaded
  \/ RunEffects
  \/ Tick
  \/ HandleLine
  \/ MainSteps
  \/ QuerySteps
  \/ UiDies
  \/ Rest

(* The threads and the event loop go on running.  The user need not type,  *)
(* and the launcher need not die.                                          *)
Fairness ==
  /\ WF_vars(MainSteps) /\ WF_vars(QuerySteps)
  /\ WF_vars(Loaded) /\ WF_vars(RunEffects) /\ WF_vars(Tick) /\ WF_vars(HandleLine)

Spec == Init /\ [][Next]_vars /\ Fairness

-----------------------------------------------------------------------------
(* Properties *)

Service == INSTANCE QueryService WITH
  asked <- queue \o (IF held = NoLine THEN <<>> ELSE <<held>>) \o input,
  given <- printed, alive <- thread # "dead"

UiTypeOK ==
  /\ input \in Seq(Service!Line) /\ queue \in Seq(Service!Line)
  /\ held \in Service!Line \cup {NoLine} /\ cur \in Service!Line \cup {NoLine}
  /\ query_ref \in Service!Line \cup {NoLine}
  /\ thread \in {"waits", "begun", "runs", "ends", "dead"}
  /\ printed \in 0 .. Len(RowsOf[IF cur = NoLine THEN Blank ELSE cur.text])
  /\ search_text \in Text /\ typed \in 0 .. MaxTyped

(* The process implements QueryService: answers are bracketed and in order,*)
(* and no interleaving of read_line, interrupt, send and the statement     *)
(* cuts the answer to a line short unless a later line waits.              *)
ImplementsService == Service!Spec

Shown(s) == {s[i] : i \in DOMAIN s}
AnswerTo(line) == Shown(Service!Answer(line))

(* The rows collected are rows of the query they are collected for, though *)
(* older answers still arrive after the query has changed.                 *)
OwnResults == results # <<>> => Shown(results) \subseteq AnswerTo(query_ref)

(* However the user types, goes back to an earlier text and asks for more, *)
(* once all is handled the list is the answer to the text in the search    *)
(* bar (as a set: see the README on a text that is typed again).           *)
ShowsAnswer ==
  search_text # Blank => Shown(ui_results) = AnswerTo([count |-> count, text |-> search_text])
SettledShowsAnswer == Settled => ShowsAnswer

(* It is handled: the list gets there and stays, unless the process has    *)
(* met a row it cannot print or the launcher has died.                     *)
Settles == <>[]((Settled /\ ShowsAnswer) \/ thread = "dead" \/ gone)

(* A dead launcher leaves no process behind: the end of input is not       *)
(* noticed as such, but the query thread panics when it prints.            *)
GoneWithUi == gone ~> exited
=============================================================================
