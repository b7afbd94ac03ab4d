--------------------------- MODULE MCTaskDataset ---------------------------
(* Eight rows on four images.  The image of the first and third is broken   *)
(* (the fourth states the problem of the first again and takes its place),  *)
(* the selectors of the second are invalid but not those of the last, on    *)
(* the same image, the fifth is too long for SDPO and the sixth is no valid *)
(* row.  The probe of the seventh may time out.                             *)
EXTENDS TaskDataset

Row(valid, id, image, identity, family, long, fault, rft, sdpo) ==
    [valid |-> valid, id |-> id, image |-> image, identity |-> identity,
     family |-> family, long |-> long, fault |-> fault,
     rftRank |-> rft, sdpoRank |-> sdpo]

EightRows ==
    <<Row(TRUE,  "t1", "A", "k1", "lex",  FALSE, "runner_unavailable", 1, 2),
      Row(TRUE,  "t2", "B", "k2", "lex",  FALSE, "selector_invalid",   5, 1),
      Row(TRUE,  "t3", "A", "k3", "parse", FALSE, "runner_unavailable", 6, 5),
      Row(TRUE,  "t4", "C", "k1", "lex",  FALSE, "",                   4, 4),
      Row(TRUE,  "t5", "C", "k5", "parse", TRUE,  "",                   2, 3),
      Row(FALSE, "t6", "C", "k6", "parse", FALSE, "",                   0, 0),
      Row(TRUE,  "t7", "D", "k7", "lex",  FALSE, "",                   3, 6),
      Row(TRUE,  "t8", "B", "k8", "lex",  FALSE, "",                   7, 7)>>

FewTimeOut == {7}

\* A fixed count, a fraction, and nothing held out.
ThreeSplits ==
    {[count |-> 1, percent |-> 40, minRows |-> 1],
     [count |-> 0, percent |-> 40, minRows |-> 1],
     [count |-> 0, percent |-> 0,  minRows |-> 0]}

ByFamily == [strategy |-> "instance_id_family", default |-> "unbanded",
             families |-> [lex |-> "near_impossible", parse |-> "easy"]]
\* A rollout probe of the train partition, or of all tasks but unfinished:
\* its labels are those of four tasks.
Probe(partition, complete, required) ==
    [strategy |-> "rollout_probe", default |-> "unbanded",
     acceptPartial |-> TRUE, required |-> required,
     cache |-> [damaged |-> FALSE, complete |-> complete,
                partition |-> partition, start |-> 0, limit |-> None,
                expected |-> 4, poolSize |-> 4,
                bands |-> [t2 |-> "easy", t4 |-> "near_impossible",
                           t5 |-> "learnable", t7 |-> "easy"]]]

FourBandings ==
    {ByFamily, Probe("train", TRUE, FALSE), Probe("all", FALSE, TRUE),
     Probe("all", TRUE, TRUE)}

\* The loop and the preload jobs read what the preflight writes and nothing
\* of each other, so a behaviour has one kind of them only.
OneKindOfReader ==
    sessions = 0 \/ \A p \in Preloaders : job[p].pc = "off"

Jobs == Permutations(Preloaders)
=============================================================================
