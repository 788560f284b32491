-------------------------- MODULE ParseTranscript --------------------------
(***************************************************************************)
(* ParseTranscript of internal/dispatch/parser: what a transcript of one   *)
(* or more radio dispatches is taken to say.  A text is a sequence of      *)
(* tokens, the matches of the parser's patterns: a unit, a CDEC channel, a *)
(* known nature, an address, a stop ("." or ";"), or any other word.  The  *)
(* distances the code measures in words or characters are counted in       *)
(* tokens.  A position is an index of the text, and 0 is no match.         *)
(***************************************************************************)
EXTENDS Naturals, Sequences, FiniteSetsExt

CONSTANTS
  GroupGap,  \* words between two units of one group: 4
  Reach      \* how far after the address a unit may follow: 100 characters

ASSUME DistancesAssumption == GroupGap \in Nat /\ Reach \in Nat

Kind == {"unit", "channel", "nature", "address", "word", "stop"}
Token(kind, name) == [kind |-> kind, name |-> name]
Word == Token("word", "")
Stop == Token("stop", "")

Rejected(reason) == [ok |-> FALSE, reason |-> reason]
Parsed(units, channel, nature, address) ==
  [ok |-> TRUE, reason |-> "", units |-> units, channel |-> channel,
   nature |-> nature, address |-> address]

-----------------------------------------------------------------------------
At(text, kind, from, to) == {i \in from..to : i \in DOMAIN text /\ text[i].kind = kind}
FirstOf(S) == IF S = {} THEN 0 ELSE Min(S)
Names(text, S) == {text[i].name : i \in S}

\* findUnitMatches: a unit named again is no match.
UnitMatches(text, from, to) ==
  {i \in At(text, "unit", from, to) :
     \A j \in At(text, "unit", from, i - 1) : text[j].name # text[i].name}

\* Markers that follow each other, stops in between or not, are one channel.
ChannelSequenceEnd(text, c) ==
  Max({j \in At(text, "channel", c, Len(text)) :
         \A k \in c..j : text[k].kind \in {"channel", "stop"}})

\* The first match that is whole between the two positions.  A pattern of
\* intersections may begin in words said before the address, the channel's own
\* included; such a match is not told apart from the address here.
FindAddress(text, from, to) == FirstOf(At(text, "address", from, to))
NextChannel(text, from) == FirstOf(At(text, "channel", from, Len(text)))

\* Mutated: a stop does not end the group.
SameGroupAcrossStops(text, i, j) == j - i - 1 <= GroupGap

SameGroup(text, i, j) ==
  /\ \A k \in (i + 1)..(j - 1) : text[k].kind # "stop"
  /\ j - i - 1 <= GroupGap

\* The group of units before the channel, walking back from the last one.
DispatchSegmentStart(text, c) ==
  LET P == UnitMatches(text, 1, c - 1)
      after(i) == Min({j \in P : j > i})
  IN IF P = {} THEN c
     ELSE Min({i \in P : \A k \in P :
                 k >= i /\ k # Max(P) => SameGroup(text, k, after(k))})

\* Mutated: of the units after the address the last is taken.
TrailingUnitLast(text, a) ==
  LET next == NextChannel(text, a + 1)
      limit == IF next # 0 /\ next <= a + Reach THEN next - 1 ELSE a + Reach
      S == UnitMatches(text, a + 1, limit)
  IN IF S = {} THEN 0 ELSE Max(S)

\* extendSegmentToTrailingUnit: a unit soon after the address, and before
\* the next channel.
TrailingUnit(text, a) ==
  LET next == NextChannel(text, a + 1)
      limit == IF next # 0 /\ next <= a + Reach THEN next - 1 ELSE a + Reach
  IN FirstOf(UnitMatches(text, a + 1, limit))

KnownNature(text, from, to) ==
  LET n == FirstOf(At(text, "nature", from, to)) IN
  IF n = 0 THEN "" ELSE text[n].name

\* extractNature: what is said after the channel, up to the first stop.
ExtractNature(text, e, a) ==
  LET said == {i \in (e + 1)..(a - 1) : text[i].kind # "stop"}
      first == FirstOf(said)
      stop == FirstOf(At(text, "stop", first, a - 1))
      last == IF stop = 0 THEN a - 1 ELSE stop - 1
      known == KnownNature(text, first, last)
  IN CASE said = {} -> ""
       [] said # {} /\ known # "" -> known
       [] OTHER -> "Dispatch Call"

-----------------------------------------------------------------------------
ParseChannelFirstSegment(text, c) ==
  LET e == ChannelSequenceEnd(text, c)
      a == FindAddress(text, e + 1, Len(text))
      found == a # 0 /\ NextChannel(text, e + 1) \notin 1..(a - 1)
      segment == UnitMatches(text, DispatchSegmentStart(text, c), a)
      trailing == TrailingUnit(text, a)
      units == IF segment = {} /\ trailing # 0 THEN {trailing} ELSE segment
      nature == ExtractNature(text, e, a)
  IN CASE ~found -> Rejected("missing_address")
       [] found /\ units = {} -> Rejected("missing_unit")
       [] found /\ units # {} /\ nature = "" -> Rejected("missing_nature")
       [] OTHER -> Parsed(Names(text, units), text[c].name, nature, text[a].name)

ParseAddressBeforeChannelSegment(text, c) ==
  LET e == ChannelSequenceEnd(text, c)
      a == FindAddress(text, 1, c - 1)
      units == UnitMatches(text, a + 1, e)
      nature == KnownNature(text, 1, a - 1)
  IN CASE a = 0 -> Rejected("missing_address")
       [] a # 0 /\ units = {} -> Rejected("missing_unit")
       [] a # 0 /\ units # {} /\ nature = "" -> Rejected("missing_nature")
       [] OTHER -> Parsed(Names(text, units), text[c].name, nature, text[a].name)

\* The gate: confident is verification_confidence >= 0.80.
ParseTranscript(text, confident) ==
  LET c == NextChannel(text, 1)
      segment == ParseChannelFirstSegment(text, c)
  IN CASE ~confident -> Rejected("low_confidence")
       [] confident /\ c = 0 -> Rejected("missing_cdec")
       [] confident /\ c # 0 /\ segment.reason = "missing_address"
            -> ParseAddressBeforeChannelSegment(text, c)
       [] OTHER -> segment
=============================================================================
