----------------------------- MODULE Moderation -----------------------------
(***************************************************************************)
(* What the content pool promises whoever writes for it, with no request,  *)
(* shell, lock or terminal in sight: how a prompt, a line and a campaign   *)
(* row may change, each in one step.  Pool and Terminal implement it.      *)
(***************************************************************************)
EXTENDS Naturals

CONSTANTS Users, Prompts, Bots, Indices, None

Rows  == Users \X Prompts
Lines == Rows \cup Bots

VARIABLES
  prompt,    \* prompt[p]: absent, live, retired or gone
  line,      \* line[l]: what has become of a line, absent before it is there
  filed,     \* filed[b]: the prompt of bot line b
  decision,  \* decision[r]: on a campaign row, none before it is there
  reviews,   \* reviews[r]: the reviews on record of campaign row r
  cleared,   \* the lines that a reviewer has approved at some time
  round      \* round[i]: its prompt, bot line and decoys

vars == <<prompt, line, filed, decision, reviews, cleared, round>>

Init ==
  /\ prompt \in [Prompts -> {"absent", "live"}]
  /\ line \in [Lines -> {"absent", "pending"}]
  /\ filed \in [Bots -> Prompts \cup {None}]
  /\ decision \in [Rows -> {"none", "pending"}]
  /\ reviews = [r \in Rows |-> 0]
  /\ cleared = {}
  /\ round = [i \in Indices |-> [prompt |-> None, bot |-> None, decoys |-> {}]]

-----------------------------------------------------------------------------
Create(p) ==
  /\ prompt[p] = "absent" /\ prompt' = [prompt EXCEPT ![p] = "live"]
  /\ UNCHANGED <<line, filed, decision, reviews, cleared, round>>

Retire(p) ==
  /\ prompt[p] = "live" /\ prompt' = [prompt EXCEPT ![p] = "retired"]
  /\ UNCHANGED <<line, filed, decision, reviews, cleared, round>>

\* A prompt goes only if nothing is about it.
Delete(p) ==
  /\ prompt[p] \in {"live", "retired"}
  /\ \A i \in Indices : round[i].prompt # p
  /\ \A u \in Users : line[<<u, p>>] = "absent" /\ decision[<<u, p>>] = "none"
  /\ \A b \in Bots : filed[b] # p
  /\ prompt' = [prompt EXCEPT ![p] = "gone"]
  /\ UNCHANGED <<line, filed, decision, reviews, cleared, round>>

\* A player writes a line; the first one stays.
Submit(r) ==
  /\ line[r] = "absent" /\ prompt[r[2]] # "gone"
  /\ line' = [line EXCEPT ![r] = "pending"]
  /\ UNCHANGED <<prompt, filed, decision, reviews, cleared, round>>

\* A reviewer accepts a new bot line.
Accept(b, p) ==
  /\ line[b] = "absent" /\ prompt[p] # "gone"
  /\ line' = [line EXCEPT ![b] = "approved"]
  /\ filed' = [filed EXCEPT ![b] = p]
  /\ cleared' = cleared \cup {b}
  /\ UNCHANGED <<prompt, decision, reviews, round>>

\* A reviewer decides on a line, and may do so again.
Judge(l, verdict) ==
  /\ line[l] # "absent"
  /\ line' = [line EXCEPT ![l] = verdict]
  /\ cleared' = IF verdict = "approved" THEN cleared \cup {l} ELSE cleared
  /\ UNCHANGED <<prompt, filed, decision, reviews, round>>

\* A campaign row comes in and is decided on once: approved, it becomes a line
\* in the same step.
Arrive(r) ==
  /\ decision[r] = "none" /\ prompt[r[2]] # "gone"
  /\ decision' = [decision EXCEPT ![r] = "pending"]
  /\ UNCHANGED <<prompt, line, filed, reviews, cleared, round>>

Decide(r, verdict) ==
  /\ decision[r] = "pending"
  /\ decision' = [decision EXCEPT ![r] = verdict]
  /\ reviews' = [reviews EXCEPT ![r] = 1]
  /\ IF verdict = "approved"
     THEN /\ line[r] = "absent" /\ line' = [line EXCEPT ![r] = "approved"]
          /\ cleared' = cleared \cup {r}
     ELSE UNCHANGED <<line, cleared>>
  /\ UNCHANGED <<prompt, filed, round>>

\* A round takes a prompt, and lines that were approved.
Place(i, p) ==
  /\ prompt[p] # "gone"
  /\ round' = [round EXCEPT ![i].prompt = p]
  /\ UNCHANGED <<prompt, line, filed, decision, reviews, cleared>>

Fill(i, b, decoys) ==
  /\ b \in cleared /\ decoys \subseteq cleared
  /\ round' = [round EXCEPT ![i].bot = b, ![i].decoys = decoys]
  /\ UNCHANGED <<prompt, line, filed, decision, reviews, cleared>>

Next ==
  \/ \E p \in Prompts : Create(p) \/ Retire(p) \/ Delete(p)
  \/ \E r \in Rows : \/ Submit(r) \/ Arrive(r)
                     \/ \E verdict \in {"approved", "rejected"} : Decide(r, verdict)
  \/ \E b \in Bots, p \in Prompts : Accept(b, p)
  \/ \E l \in Lines, verdict \in {"approved", "rejected", "retired"} : Judge(l, verdict)
  \/ \E i \in Indices : \/ \E p \in Prompts : Place(i, p)
                        \/ \E b \in Bots, decoys \in SUBSET Rows : Fill(i, b, decoys)

Spec == Init /\ [][Next]_vars
=============================================================================
