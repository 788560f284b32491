-------------------------- MODULE MCDispatchWorker --------------------------
(* Two workers, and two transcripts of one address that pass the gate, as  *)
(* the parser reads them: a dispatch in either order, one with more to it. *)
EXTENDS DispatchWorkerProperties, ParseTranscript

CONSTANTS w1, w2

MCText ==
  <<<<Token("unit", "1"), Token("channel", "1"), Token("nature", "1"),
      Token("address", "street"), Stop, Token("unit", "2"), Token("channel", "2")>>,
    <<Token("nature", "1"), Token("address", "street"), Token("unit", "2"),
      Token("channel", "2")>>>>

MCAddressOf == <<"street", "street">>

ASSUME TranscriptsParse ==
  /\ GatePasses = {t \in Transcript : ParseTranscript(MCText[t], TRUE).ok}
  /\ \A t \in GatePasses : AddressOf[t] = ParseTranscript(MCText[t], TRUE).address
=============================================================================
