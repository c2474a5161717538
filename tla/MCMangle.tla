------------------------------ MODULE MCMangle ------------------------------
(***************************************************************************)
(* Mangle on names of one to four characters, some of them looking like    *)
(* codes, with up to two arguments; numbers are binary, snprintf takes 6   *)
(* characters and the buffer 14.                                           *)
(***************************************************************************)
EXTENDS Mangle

MCChar == {Digit[k] : k \in DOMAIN Digit} \cup {"_", "N", "P", "C", "a", "i", "u"}

Names == {<<"i">>, <<"C">>, <<"a">>, <<"P", "i">>, <<"i", "C">>, <<"a", "1">>,
          <<"a", "1", "a">>, <<"C", "C", "i">>, <<"a", "a", "a", "a">>}

TypeNames == {<<"i">>, <<"P">>, <<"a", "i">>, <<"a", "1", "i">>, <<"a", "1", "1", "P">>}

Args ==
  [stars : 0 .. 3, kind : {"UINT8"}, token : {<<"u", "8">>}]
  \cup [stars : {0, 2}, kind : {"INT32"}, token : {<<"i", "3", "2">>}]
  \cup [stars : {0, 1}, kind : {"CUSTOM"}, token : TypeNames]

MCSignatures ==
  [identifier : Names, args : {<<>>} \cup {<<a>> : a \in Args} \cup {<<a, b>> : a, b \in Args}]
=============================================================================
