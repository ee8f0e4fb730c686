------------------------------ MODULE ChunkScan ------------------------------
(***************************************************************************)
(* The structural scan of qjson_parse (src/scan), by the vector scanners   *)
(* of avx2.rs and neon.rs: chunks of W bytes as bit masks, with one bit    *)
(* carried for a backslash run and one for an open string, the rest of the *)
(* text byte by byte, then the brackets.  The two differ in how they get   *)
(* the masks only.  A text is a sequence of bytes; byte p is text[p + 1].  *)
(***************************************************************************)
EXTENDS Integers, FiniteSetsExt, SequencesExt

CONSTANTS
    W,          \* bytes in a chunk: 64 in the code
    JumpMin,    \* bytes that must remain for a jump: 4096 in the code
    None

ASSUME ScanAssumption ==
    W \in Nat \ {0} /\ W % 2 = 0 /\ JumpMin \in Nat /\ JumpMin >= W /\ None \notin Nat

Quote == "\""
Backslash == "\\"
Openers == {"{", "["}
Brackets == Openers \cup {"}", "]"}
Structurals == Brackets \cup {":", ",", Quote}

VARIABLES
    text,       \* buf
    phase,      \* "idle", "scan", "open", "failed": no document, in qjson_parse, its outcome
    i,          \* next byte of the scan
    in_string,  \* the last chunk ended inside a string
    bs_carry,   \* {0}: ... and its last byte escapes the first of the next
    indices     \* offsets emitted

scanVars == <<text, phase, i, in_string, bs_carry, indices>>

ByteAt(t, p) == IF p < Len(t) THEN t[p + 1] ELSE None

-----------------------------------------------------------------------------
(* Masks: sets of lanes, lane 0 the lowest bit.                             *)

Lanes == 0..W - 1
Even == {k \in Lanes : k % 2 = 0}
Odd == Lanes \ Even

Shifted(m) == {k + 1 : k \in m} \cap Lanes

\* Two masks added as numbers: a carry into lane k comes from the lane below that
\* makes one, through lanes that pass it on.
Carried(m, n, k) == \E j \in 0..k - 1 : j \in m \cap n /\ j + 1..k - 1 \subseteq m \cup n
WrappingAdd(m, n) == {k \in Lanes : ((k \in m) # (k \in n)) # Carried(m, n, k)}

TrailingOnes(m) == Min((0..W) \ m)
TrailingRun(m) == W - 1 - Max({-1} \cup (Lanes \ m))

LanesOf(t, at, S) == {k \in Lanes : t[at + k + 1] \in S}

\* A slip the runs rule out: the byte after a run that continues one from the
\* last chunk is left as it is.
EscapeMaskForgets(bs, pc) ==
    LET starts == bs \ (Shifted(bs) \cup pc)
        ends(par) == WrappingAdd(bs, starts \cap par) \ bs
    IN  (ends(Even) \cap Odd) \cup (ends(Odd) \cap Even) \cup pc

\* find_escape_mask_with_carry: the bytes preceded by an odd run of backslashes.
\* Adding the start of a run to its mask carries out at the byte after the run.
EscapeMask(bs, pc) ==
    LET starts == bs \ (Shifted(bs) \cup pc)
        ends(par) == WrappingAdd(bs, starts \cap par) \ bs
        led == IF pc # {} /\ 0 \in bs THEN {TrailingOnes(bs)} \cap Lanes \cap Even ELSE {}
    IN  (ends(Even) \cap Odd) \cup (ends(Odd) \cap Even) \cup pc \cup led

EscapeCarry(bs, pc) ==
    IF bs = Lanes THEN pc ELSE IF TrailingRun(bs) % 2 = 1 THEN {0} ELSE {}

\* Prefix XOR of the quotes (a carry-less product with all ones), flipped when
\* the chunk began inside a string.
InsideMask(quotes, open) ==
    {k \in Lanes : (Cardinality({q \in quotes : q <= k}) % 2 = 1) # open}

\* emit_bits: the lowest bit first.
Emit(m, base) ==
    [n \in 1..Cardinality(m) |-> base + CHOOSE k \in m : Cardinality({h \in m : h <= k}) = n]

-----------------------------------------------------------------------------
(* The scan.                                                                *)

HasChunk == phase = "scan" /\ i + W <= Len(text)

\* quote_or_backslash_mask: nothing to look at in the chunk.
Plain(at) == LanesOf(text, at, {Quote, Backslash}) = {}

\* The quote or backslash that memchr2 finds in the chunks left.
ScanEnd == Len(text) - (Len(text) % W)
Found(from) == {p \in from..ScanEnd - 1 : text[p + 1] \in {Quote, Backslash}}

\* On to the chunk that holds it, or to the end of the last chunk.
JumpFrom(from) ==
    CASE from + JumpMin > Len(text) -> from
      [] from + JumpMin <= Len(text) /\ Found(from) = {} -> ScanEnd
      [] OTHER -> Min(Found(from)) - ((Min(Found(from)) - from) % W)

SkipChunk ==
    /\ HasChunk /\ in_string /\ Plain(i)
    /\ bs_carry' = {}
    /\ i' = JumpFrom(i + W)
    /\ UNCHANGED <<text, phase, in_string, indices>>

ScanChunk ==
    /\ HasChunk
    /\ in_string => ~Plain(i)
    /\ LET bs == LanesOf(text, i, {Backslash})
           quotes == LanesOf(text, i, {Quote}) \ EscapeMask(bs, bs_carry)
           inside == InsideMask(quotes, in_string)
           kept == (LanesOf(text, i, Structurals) \ inside) \cup quotes
       IN  /\ bs_carry' = EscapeCarry(bs, bs_carry)
           /\ in_string' = (W - 1 \in inside)
           /\ indices' = indices \o Emit(kept, i)
    /\ i' = i + W
    /\ UNCHANGED <<text, phase>>

-----------------------------------------------------------------------------
(* Byte by byte.  A byte after a backslash inside a string is passed over.  *)

Lexer(open, escaped) == [open |-> open, escaped |-> escaped, out |-> <<>>]
LexByte(s, b, p) ==
    CASE s.escaped -> [s EXCEPT !.escaped = FALSE]
      [] ~s.escaped /\ s.open /\ b = Backslash -> [s EXCEPT !.escaped = TRUE]
      [] ~s.escaped /\ b = Quote -> [s EXCEPT !.open = ~s.open, !.out = Append(@, p)]
      [] OTHER -> IF ~s.open /\ b \in Structurals THEN [s EXCEPT !.out = Append(@, p)] ELSE s

\* The lexer over the bytes of t from..upto - 1.
Lex(t, s, from, upto) ==
    LET at[p \in from..upto] == IF p = from THEN s ELSE LexByte(at[p - 1], t[p], p - 1)
    IN  at[upto]

\* scan_emit_resume, given the state the chunks ended in.
EmitResume(t, start, open) == Lex(t, Lexer(open, FALSE), start, Len(t))

\* The brackets: a stack of openers, and the offset of the first closer that
\* does not match.
Match == ("}" :> "{") @@ ("]" :> "[")
Unmatched == [stack |-> <<>>, err |-> None]
MatchByte(s, b, p) ==
    CASE s.err # None \/ b \notin Brackets -> s
      [] s.err = None /\ b \in Openers -> [s EXCEPT !.stack = Append(s.stack, b)]
      [] OTHER -> IF s.stack # <<>> /\ Last(s.stack) = Match[b]
                  THEN [s EXCEPT !.stack = Front(s.stack)] ELSE [s EXCEPT !.err = p]
MatchError(t, s) ==
    IF s.err # None THEN s.err ELSE IF s.stack # <<>> THEN Len(t) ELSE None

\* validate_brackets, over the offsets emitted.
ValidateOffset(t, s, p) ==
    CASE t[p + 1] = Quote -> [s EXCEPT !.open = ~s.open]
      [] t[p + 1] # Quote /\ s.open -> s
      [] OTHER -> [s EXCEPT !.match = MatchByte(s.match, t[p + 1], p)]
BracketError(t, out) ==
    LET at[n \in 0..Len(out)] ==
            IF n = 0 THEN [open |-> FALSE, match |-> Unmatched] ELSE ValidateOffset(t, at[n - 1], out[n])
    IN  MatchError(t, at[Len(out)].match)

\* A slip the runs rule out: the escape carried out of the last chunk is dropped.
TailStartsAt(at, open, carry) == at

TailStart(at, open, carry) == IF open /\ carry # {} THEN at + 1 ELSE at

\* What the bytes after the last chunk add, and what the scan returns.
TailLex ==
    IF i < Len(text) THEN EmitResume(text, TailStart(i, in_string, bs_carry), in_string)
    ELSE Lexer(in_string, FALSE)
Scanned == indices \o TailLex.out
ScanError == IF TailLex.open THEN Len(text) ELSE BracketError(text, Scanned)
AtTail == phase = "scan" /\ i + W > Len(text)

\* scan_and_validate, the scanner of other processors, in one pass.
ScanByte(s, b, p) ==
    IF s.match.err # None THEN s
    ELSE [lex |-> LexByte(s.lex, b, p),
          match |-> IF s.lex.open THEN s.match ELSE MatchByte(s.match, b, p)]
ScanAndValidate(t) ==
    LET at[p \in 0..Len(t)] ==
            IF p = 0 THEN [lex |-> Lexer(FALSE, FALSE), match |-> Unmatched] ELSE ScanByte(at[p - 1], t[p], p - 1)
        end == at[Len(t)]
    IN  [out |-> end.lex.out,
         err |-> IF end.match.err = None /\ end.lex.open THEN Len(t) ELSE MatchError(t, end.match)]

-----------------------------------------------------------------------------
(* Properties.                                                              *)

LexedTo(p) == Lex(text, Lexer(FALSE, FALSE), 0, p)

\* No backslash outside a string, where only the vector scanners take it for an
\* escape.
EscapesInStrings ==
    \A p \in 1..Len(text) : text[p] = Backslash => LexedTo(p - 1).open

\* Between chunks the two carried bits and the offsets emitted are what a byte by
\* byte scan has come to, whatever runs of backslashes and strings the chunk ends
\* cut, and wherever a jump has landed.
BoundaryAgrees ==
    phase = "scan" /\ EscapesInStrings =>
        [open |-> in_string, escaped |-> bs_carry # {}, out |-> indices] = LexedTo(i)

\* A bracket that does not match, before a string that never ends: the single pass
\* reports the bracket, the vector scanners the end of the text.
MismatchInOpenText(t, s) == s.err # None /\ s.err < Len(t) /\ Lex(t, Lexer(FALSE, FALSE), 0, Len(t)).open

\* Every processor's scanner takes the same texts, with the same offsets, and refuses
\* the same; those it refuses it refuses at the same place, but for the texts in
\* which a mismatch comes before a string that never ends (no text of
\* tests/scanner_crosscheck.rs, whose strings all end, is one).
ScannersAgree ==
    AtTail /\ EscapesInStrings =>
        LET s == ScanAndValidate(text)
        IN  /\ s.err = None <=> ScanError = None
            /\ s.err = None => Scanned = s.out
            /\ s.err # None /\ ~MismatchInOpenText(text, s) => ScanError = s.err
=============================================================================
