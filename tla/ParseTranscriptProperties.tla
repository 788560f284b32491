--------------------- MODULE ParseTranscriptProperties ---------------------
(***************************************************************************)
(* What the parser makes of a recording as it grows.  It begins empty, or  *)
(* with one dispatch and other speech before it, and then anything may be  *)
(* said.  The tokens named 1 and 2 belong to the dispatch, those named 3   *)
(* to other speech.  A stop keeps the dispatch apart from what comes       *)
(* before and after it, since the address patterns run on over words.      *)
(***************************************************************************)
EXTENDS ParseTranscript

CONSTANTS
  MaxBefore,  \* bound: tokens said before the dispatch
  MaxSaid     \* bound: tokens said after a recording's beginning, for each kind

Order == {"none", "channel first", "address first"}

ASSUME SpeechBoundsAssumption == MaxBefore \in Nat /\ MaxSaid \in [Order -> Nat]

VARIABLES
  text,   \* the transcript
  meant,  \* what its dispatch says
  said    \* tokens said since it began

speechVars == <<text, meant, said>>

Other == {Token(kind, "3") : kind \in {"unit", "nature", "address"}} \union {Word}
Speech == Other \union {Token("channel", "3"), Token("unit", "1"), Stop}

\* The units of a dispatch, said with a few words in between at most.
UnitsSaid ==
  {<<Token("unit", "1")>>} \union
  {<<Token("unit", "1")>> \o [k \in 1..n |-> Word] \o <<Token("unit", "2")>> :
     n \in 0..GroupGap}

Pauses == {<<>>, <<Stop>>, <<Word>>}
Channel == Token("channel", "1")

\* The order units, channel, nature, address; the channel may be said twice.
ChannelFirst ==
  {units \o <<Channel>> \o again \o pause \o <<Token("nature", "1")>>
     \o before \o <<Token("address", "1")>> :
   units \in UnitsSaid, again \in {<<>>, <<Channel>>, <<Stop, Channel>>},
   pause \in Pauses, before \in Pauses}

\* The order nature, address, units, channel.
AddressFirst ==
  {<<Token("nature", "1")>> \o pause \o <<Token("address", "1")>> \o units \o <<Channel>> :
   units \in UnitsSaid, pause \in Pauses}

Nothing == [order |-> "none"]
Meaning(order, dispatch) ==
  [order |-> order,
   fields |-> Parsed(Names(dispatch, At(dispatch, "unit", 1, Len(dispatch))), "1", "1", "1")]

Before == {<<>>} \union {Append(s, Stop) : s \in UNION {[1..n -> Other] : n \in 0..MaxBefore}}

SpeechInit ==
  /\ said = 0
  /\ \/ /\ text = <<>>
        /\ meant = Nothing
     \/ \E before \in Before, dispatch \in ChannelFirst :
          /\ text = before \o dispatch
          /\ meant = Meaning("channel first", dispatch)
     \/ \E dispatch \in AddressFirst :
          /\ text = dispatch
          /\ meant = Meaning("address first", dispatch)

Say(t) ==
  /\ said < MaxSaid[meant.order]
  /\ meant # Nothing /\ said = 0 => t = Stop
  /\ said' = said + 1
  /\ text' = Append(text, t)
  /\ UNCHANGED meant

SpeechNext == \E t \in Speech : Say(t)

SpeechSpec == SpeechInit /\ [][SpeechNext]_speechVars

-----------------------------------------------------------------------------
(***************************************************************************)
(* The first dispatch is taken whole and alone: no unit of the speech      *)
(* before it, no field of the calls after it (openspec                     *)
(* parser-quality-fixes, "use one dispatch segment"), wherever the         *)
(* recording ends.  Speech before it does not name its units: a unit named *)
(* before is no match any more, and the walk back from the channel would   *)
(* start from its first naming.                                            *)
(***************************************************************************)
FirstDispatchExtracted ==
  meant.order = "channel first" => ParseTranscript(text, TRUE) = meant.fields

(***************************************************************************)
(* openspec/changes/parser-quality-fixes, specs/                           *)
(* sdr-dispatch-incident-promotion/spec.md:5: the parser "SHALL NOT        *)
(* combine fields from later distinct dispatches in the same transcript".  *)
(* It does when the first dispatch is in the order                         *)
(* parseAddressBeforeChannelSegment is made for: the channel-first attempt *)
(* is made before it, and finds the address of the second.                 *)
(***************************************************************************)
NeverCombined ==
  LET parsed == ParseTranscript(text, TRUE) IN
  meant.order = "address first" /\ parsed.ok => parsed = meant.fields

(***************************************************************************)
(* A recording of any kind that passes the channel-first attempt says what *)
(* it says, however it goes on after a stop: calls that follow the first   *)
(* complete one are ignored (openspec parser-quality-fixes, proposal.md).  *)
(* What began with no dispatch, or in the other order, is complete at      *)
(* last too, with its fields from wherever they were found: the unit after *)
(* its address (extendSegmentToTrailingUnit), the nature and the address   *)
(* of a second call.                                                       *)
(***************************************************************************)
Complete == NextChannel(text, 1) # 0 /\ ParseChannelFirstSegment(text, NextChannel(text, 1)).ok
Paused == text # <<>> /\ text[Len(text)] = Stop

LaterSpeechIgnored ==
  [][Complete /\ Paused => ParseTranscript(text', TRUE) = ParseTranscript(text, TRUE)]_speechVars
=============================================================================
