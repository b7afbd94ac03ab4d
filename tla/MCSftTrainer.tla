---------------------------- MODULE MCSftTrainer ----------------------------
(* Two ranks on rows of five kinds: two turns, the tool repeating the first *)
(* and the second repeating what the first says; one turn after a blank     *)
(* one; a long row, over the budget; one the model began with the tag of a  *)
(* tool, which leaves no assistant turn; and a thought that says nothing,   *)
(* of which a template that leaves thoughts out leaves nothing.             *)
EXTENDS SftTrainer

Model(think, say) == [by |-> "model", think |-> think, say |-> say]

Tool(say) == [by |-> "tool", think |-> <<>>, say |-> <<ToolTag>> \o say]

FiveHistories ==
    <<<<Model(<<"t">>, <<"a", "b">>), Tool(<<"a", "b">>), Model(<<>>, <<"a", "b">>)>>,
      <<Model(<<>>, <<>>), Model(<<"u">>, <<"a">>)>>,
      <<Model(<<>>, <<"a">>), Tool(<<"c", "c", "c", "c", "c", "c", "c", "c", "c">>),
        Model(<<>>, <<"a">>)>>,
      <<Model(<<>>, <<ToolTag, "a">>)>>,
      <<Model(<<"t">>, <<>>)>>>>

Problem == <<"p", "a">>

\* Their texts are such as the theorem on the loss is about.
ASSUME TextsAssumption == TextsStandApart
=============================================================================
