------------------------------- MODULE Mangle -------------------------------
(***************************************************************************)
(* jac_mangle_function_name of src/symbol.c: the name of a function with   *)
(* the types of its arguments, written piece by piece into a buffer on the *)
(* stack.  What snprintf cuts off, and what a byte cannot count, is what   *)
(* two overloads can no longer be told apart by.                           *)
(***************************************************************************)
EXTENDS Integers, SequencesExt

CONSTANTS
  Char,        \* the characters
  Signatures,  \* records [identifier, args] of texts: sequences of characters
  Limit,       \* 128: the size snprintf is given
  Buffer,      \* 1024: the size of `mangled'
  Radix,       \* 10: what %lu counts in
  Wrap         \* 256: the values of a uint8_t

\* An argument: the stars in the source, the kind parse_type gives it, and its token.
Types    == {"CUSTOM", "UINT8", "INT32"}
Argument == [stars : Nat, kind : Types, token : Seq(Char)]

Digit == <<"0", "1", "2", "3", "4", "5", "6", "7", "8", "9">>

\* The tokenizer makes words of what does not start with a digit, and has one
\* keyword for each type.
IsWord(text) == text # <<>> /\ \A k \in DOMAIN Digit : text[1] # Digit[k]
keywords     == [UINT8 |-> <<"u", "8">>, INT32 |-> <<"i", "3", "2">>]

ASSUME CharAssumption ==
  /\ \A k \in DOMAIN Digit : Digit[k] \in Char
  /\ {"_", "N", "P", "C", "i"} \subseteq Char
ASSUME MangleAssumption ==
  /\ Limit \in Nat /\ Limit > 0 /\ Buffer \in Nat
  /\ Radix \in 2 .. 10 /\ Wrap \in Nat \ {0}
  /\ Signatures \subseteq [identifier : Seq(Char), args : Seq(Argument)]
  /\ \A sig \in Signatures :
       /\ IsWord(sig.identifier)
       /\ \A k \in DOMAIN sig.args :
            LET a == sig.args[k]
            IN  IF a.kind = "CUSTOM" THEN IsWord(a.token) ELSE a.token = keywords[a.kind]

VARIABLES
  signature,  \* the parameters
  arg,        \* the argument the loop is at
  mangled,    \* the buffer: the text a reader finds up to the first NUL, whether
              \* that is one snprintf has put, `end', and the bytes reached so far
  out         \* what is returned, and the size it was allocated with; or how it ends

vars == <<signature, arg, mangled, out>>

Working == [holds |-> "nothing"]
Overrun == [holds |-> "overrun"]
Name(text, size) == [holds |-> "name", text |-> text, size |-> size]

\* "%lu" of a positive number
Decimal(length) ==
  LET decimal[n \in Nat] ==
        IF n = 0 THEN <<>> ELSE Append(decimal[n \div Radix], Digit[(n % Radix) + 1])
  IN  decimal[length]

\* Mutant of Counted: the length is left out.
Counted_NameOnly(text) == text

\* "%lu%s" of a token's length and text
Counted(text) == Decimal(Len(text)) \o text

type_coding == [UINT8 |-> "C", INT32 |-> "i"]

\* parse_type counts the stars in a byte
indirection(a) == a.stars % Wrap

Larger(a, b)  == IF a > b THEN a ELSE b
Smaller(a, b) == IF a < b THEN a ELSE b

\* Characters stored one by one behind `end'
Put(m, text) ==
  [text |-> IF m.cut THEN m.text ELSE m.text \o text, cut |-> m.cut,
   end |-> m.end + Len(text), reached |-> Larger(m.reached, m.end + Len(text))]

\* Mutant of snprintf: it returns what it has written.
snprintf_Written(m, text) ==
  LET written == Smaller(Len(text), Limit - 1)
  IN  [text |-> IF m.cut THEN m.text ELSE m.text \o SubSeq(text, 1, written),
       cut |-> m.cut, end |-> m.end + written,
       reached |-> Larger(m.reached, m.end + written + 1)]

\* end += snprintf(end, 128, ...): at most 127 characters and a NUL, and the result
\* is what it would have written
snprintf(m, text) ==
  LET written == Smaller(Len(text), Limit - 1)
  IN  [text |-> IF m.cut THEN m.text ELSE m.text \o SubSeq(text, 1, written),
       cut |-> m.cut \/ written < Len(text), end |-> m.end + Len(text),
       reached |-> Larger(m.reached, m.end + written + 1)]

Stars(a) == [k \in 1 .. indirection(a) |-> "P"]

Init ==
  /\ signature \in Signatures
  /\ arg = 0
  /\ mangled = [text |-> <<>>, cut |-> FALSE, end |-> 0, reached |-> 0]
  /\ out = Working

\* What is written behind the buffer is undefined: followed no further.
Write(m) ==
  /\ mangled' = m
  /\ out' = IF m.reached > Buffer THEN Overrun ELSE Working

MangleIdentifier ==
  /\ out = Working /\ arg = 0
  /\ Write(snprintf(Put(mangled, <<"_", "N">>), Counted(signature.identifier)))
  /\ arg' = 1
  /\ UNCHANGED signature

MangleArgument ==
  /\ out = Working /\ arg \in 1 .. Len(signature.args)
  /\ LET a    == signature.args[arg]
         base == Put(mangled, Stars(a))
     IN  Write(IF a.kind = "CUSTOM" THEN snprintf(base, Counted(a.token))
               ELSE Put(base, <<type_coding[a.kind]>>))
  /\ arg' = arg + 1
  /\ UNCHANGED signature

\* Mutant of Finish: malloc is given the length of the text.
Finish_NoNul ==
  /\ out = Working /\ arg > Len(signature.args)
  /\ mangled' = [mangled EXCEPT !.reached = Larger(@, mangled.end + 1)]
  /\ out' = IF mangled.end + 1 > Buffer THEN Overrun ELSE Name(mangled.text, mangled.end)
  /\ UNCHANGED <<signature, arg>>

\* *end = '\0', malloc(end - mangled), strcpy
Finish ==
  /\ out = Working /\ arg > Len(signature.args)
  /\ mangled' = [mangled EXCEPT !.reached = Larger(@, mangled.end + 1)]
  /\ out' = IF mangled.end + 1 > Buffer THEN Overrun ELSE Name(mangled.text, mangled.end + 1)
  /\ UNCHANGED <<signature, arg>>

Next == MangleIdentifier \/ MangleArgument \/ Finish

Spec == Init /\ [][Next]_vars

-----------------------------------------------------------------------------
(***************************************************************************)
(* Properties.                                                             *)
(***************************************************************************)

TypeOK ==
  /\ arg \in Nat
  /\ Len(mangled.text) \in Nat /\ mangled.cut \in BOOLEAN
  /\ mangled.end \in Nat /\ mangled.reached \in Nat
  /\ out.holds \in {"nothing", "name"} => mangled.reached <= Buffer

\* strcpy fits into what was allocated for it, a cut name too: `end' is never short
\* of the text, and is beyond it exactly if snprintf has cut (end - mangled).
CopyFits ==
  /\ Len(mangled.text) <= mangled.end
  /\ mangled.cut <=> Len(mangled.text) < mangled.end
  /\ out.holds = "name" => Len(out.text) + 1 <= out.size

\* The encoding as it is meant: nothing cut, nothing out of bounds.
Encoded(a) ==
  Stars(a) \o (IF a.kind = "CUSTOM" THEN Counted(a.token) ELSE <<type_coding[a.kind]>>)

Encoding(sig) ==
  <<"_", "N">> \o Counted(sig.identifier)
    \o FlattenSeq([k \in DOMAIN sig.args |-> Encoded(sig.args[k])])

LongPiece(sig) ==
  \/ Len(Counted(sig.identifier)) >= Limit
  \/ \E k \in DOMAIN sig.args : /\ sig.args[k].kind = "CUSTOM"
                                /\ Len(Counted(sig.args[k].token)) >= Limit

\* The name is the encoding, or a beginning of it that ends in the first identifier
\* or type that was too long for snprintf (src/symbol.c:19 and 34); and the buffer is
\* overrun exactly if the encoding and its NUL are longer than it is.
NameIsTheEncoding ==
  LET encoding == Encoding(signature)
  IN  /\ out.holds = "name" => /\ IsPrefix(out.text, encoding)
                               /\ out.text = encoding <=> ~LongPiece(signature)
                               /\ Len(encoding) < Buffer
      /\ out.holds = "overrun" => Len(encoding) >= Buffer

\* Two headers are one for the compiler if they differ in nothing but a multiple of
\* 256 stars.
SameSignature(sig, other) ==
  LET plain(s) == [identifier |-> s.identifier,
                   args |-> [k \in DOMAIN s.args |-> <<indirection(s.args[k]), s.args[k].token>>]]
  IN  plain(sig) = plain(other)

\* No two overloads get one name, unless one of them was cut: what the pieces are
\* joined to can be taken apart in one way only (strcmp of check_function_header).
OverloadsDiffer ==
  out.holds = "name" /\ ~mangled.cut =>
    \A other \in Signatures : Encoding(other) = out.text => SameSignature(other, signature)
=============================================================================
