------------------------------- MODULE MCIntake -------------------------------
(* Instances of Intake: a project whose spec gains a field and a type that is *)
(* not well formed, and whose tree loses a leaf.  The log of purchase orders  *)
(* (lpos) is outside state/.                                                  *)
EXTENDS Intake, TLC

CONSTANTS quotes, lpos, first, second, both, one, quote, lpo

MCSchema ==
  first :> (quote :> ("amount" :> "int"))
  @@ second :> (quote :> ("amount" :> "float" @@ "note" :> "str") @@ lpo :> ("ref" :> "str"))
MCNodes ==
  both :> ("/" :> None @@ "/q" :> quotes @@ "/l" :> lpos)
  @@ one :> ("/" :> None @@ "/l" :> lpos)
MCLeaves == both :> <<quotes, lpos>> @@ one :> <<lpos>>
MCAbout == quote :> quotes @@ lpo :> lpos

Ask(data, rooted, text) ==
  [path |-> "/q", type |-> quote, data |-> data, rooted |-> rooted, text |-> text]
MCRequests ==
  {Ask("amount" :> "int", TRUE, "plain"),
   Ask("amount" :> "int" @@ "note" :> "str", TRUE, "plain"),
   Ask("amount" :> "bool", TRUE, "plain"),
   Ask("amount" :> "int", TRUE, "long")}
BadSource == {Ask("amount" :> "int", FALSE, "plain")}
=============================================================================
