----------------------------- MODULE MCAutomation -----------------------------
(* Small instances of Automation for TLC: the events of one record, or the        *)
(* follow-ups of one lead.  What the story is not about stays as it began; a rule  *)
(* that is off stands for one whose conditions do not hold, which is treated alike.*)
EXTENDS Automation, TLC

VARIABLE story

About == IF story = "events" THEN Records ELSE Leads

MCInit ==
  /\ Init
  /\ story \in {"events", "follow-ups"}
  /\ story = "events" => \A l \in Leads : due[l] = 0

\* A new task takes the first id that is free.
FirstFree == CHOOSE id \in FreshIds : TRUE

MCNext ==
  /\ Next
  /\ \A p \in Presets : rule'[p] # rule[p] => \E s \in About : PresetOf(s) = p
  /\ \A s \in Sources \ About : /\ s \in eligible'
                                /\ record'[s] = record[s]
  /\ matching' = Sources
  /\ story = "follow-ups" => losses' = 0
  /\ \A r \in Records \ About : change'[r] = change[r]
  /\ story = "events" => /\ due' = due /\ today' = today
                         /\ \A t \in tasks' : t.open
  /\ \A t \in tasks' : t.id \in FreshIds => t.id = FirstFree
  /\ UNCHANGED story
MCSpec == MCInit /\ [][MCNext]_<<vars, story>>
MCFairSpec == MCSpec /\ Fairness
=============================================================================
