------------------------ MODULE MCMemoryConsolidation ------------------------
(* Instances of MemoryConsolidation for TLC. *)
EXTENDS MemoryConsolidation, TLC

CONSTANTS c1, a1, a2, t1, t2, r1, r2

\* A conversation of the project, of its owner and of somebody it may be
\* shared with.
TogetherConv == (t1 :> c1) @@ (t2 :> c1)
TogetherActor == (t1 :> a1) @@ (t2 :> a2)

\* Executions differ only in their names: of two idle ones the first is taken,
\* which loses nothing and, unlike a symmetry set, is sound for liveness.
FirstFirst ==
  runs[r1].pc = "idle" /\ runs[r2].pc = "idle" => runs'[r2].pc = "idle"

\* That a completing transaction has begun matters to nobody before another
\* one begins or it gets its locks.  It begins only then, unless a turn that
\* began later is to overtake it, which loses nothing either.
Waits(t) ==
  /\ turns[t] \in {"open", "lapsed"} /\ upTo[t] # {}
  /\ \A u \in Turn : turns[u] = "done" => upTo[u] \subseteq upTo[t]
BeginsLate ==
  (\E t \in Turn : Waits(t)) =>
    \E t \in Turn : upTo'[t] # upTo[t] \/ (turns'[t] = "done" /\ turns[t] # "done")

\* A step that writes nothing but a file's status, which no property reads, or
\* that is about the execution's own job alone, comes at once, unless the
\* execution dies or its job is claimed by another.
AtOnce ==
  LET due == {r \in Runner : runs[r].pc \in {"refresh", "check", "report", "hook"}} IN
  due # {} => \E r \in due : runs'[r] # runs[r] \/ jobs'[runs[r].job] # jobs[runs[r].job]

\* Nobody resets or edits the file of the one who only reads.  It learns nothing
\* here: while the project is shared no turn may, and while it is not its owner
\* cannot read the conversation.
OthersAlone == files'[a2].epoch = files[a2].epoch /\ drafts'[a2] = drafts[a2]

LearningSpec == Init /\ [][Next /\ FirstFirst /\ BeginsLate /\ AtOnce /\ OthersAlone]_vars /\ Fairness
=============================================================================
