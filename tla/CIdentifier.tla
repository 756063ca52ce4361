---------------------------- MODULE CIdentifier ----------------------------
(***************************************************************************)
(* The pure half of NameTransformer::normalize_identifier_inner: the C     *)
(* name it proposes for a Rust name, before it makes the proposal unique.  *)
(*                                                                         *)
(* A name is a sequence of tokens.  The tokens the code looks for are      *)
(* "tag-", "::1::", "::", "_", the digits and the reserved words; any      *)
(* other token stands for a run of letters, except the ones of Illegal,    *)
(* the characters of Rust paths that C does not allow in an identifier.    *)
(***************************************************************************)
EXTENDS Integers, Sequences, SequencesExt, TLC

Illegal == {"<", ">", "-", "&", "[", "]", ";", " "}

Digits == {ToString(d) : d \in 0 .. 9}

(* The reserved names the code knows, each replaced by itself and "_".     *)
Reserved == {"case", "default"}

(* Is c one of the characters replaced by an underscore?  "::" is two.     *)
Underscored(c) ==
    CASE c \in Illegal             -> <<"_">>
      [] c \in {"::", "::1::"}     -> <<"_", "_">>
      [] OTHER                     -> <<c>>

(* name.replace(non-C character, "_").                                     *)
ValidChars(s) == FlattenSeq([i \in DOMAIN s |-> Underscored(s[i])])

(* A mutant: a leading digit stays.                                        *)
LeadingDigitKept(s) == s

(* If the first character is a number, prefix with underscore.             *)
NoLeadingDigit(s) ==
    IF s # <<>> /\ Head(s) \in Digits THEN <<"_">> \o s ELSE s

(* A name that ends with a reserved word has every occurrence of that word *)
(* replaced by the word and an underscore.                                 *)
Unreserved(s) ==
    IF s # <<>> /\ Last(s) \in Reserved
    THEN FlattenSeq([i \in DOMAIN s |->
            IF s[i] = Last(s) THEN <<s[i], "_">> ELSE <<s[i]>>])
    ELSE s

fix_name(s) == Unreserved(NoLeadingDigit(ValidChars(s)))

(* The position of the "::1::" between a function and its variable, or 0.  *)
Separator(s) ==
    IF \E i \in DOMAIN s : s[i] = "::1::"
    THEN CHOOSE i \in DOMAIN s : s[i] = "::1::"
    ELSE 0

(* Keep the prefix "tag-", fix the two sides of "::1::" separately and     *)
(* join them with "::".                                                    *)
CName(s) ==
    LET tagged == s # <<>> /\ Head(s) = "tag-"
        name   == IF tagged THEN Tail(s) ELSE s
        sep    == Separator(name)
        fixed  == IF sep = 0 THEN fix_name(name)
                  ELSE fix_name(SubSeq(name, 1, sep - 1)) \o <<"::">>
                         \o fix_name(SubSeq(name, sep + 1, Len(name)))
    IN  IF tagged THEN <<"tag-">> \o fixed ELSE fixed

(* format!("{}_{}", result, suffix).                                       *)
WithNumber(s, k) == s \o <<"_", ToString(k)>>

(* A name C accepts where the code promises one: after the prefix "tag-",  *)
(* each side of "::" is made of C characters, starts with no digit and     *)
(* does not end in a reserved word.                                        *)
ValidPart(s) ==
    /\ \A i \in DOMAIN s : s[i] \notin Illegal \cup {"::", "::1::", "tag-"}
    /\ s # <<>> => Head(s) \notin Digits /\ Last(s) \notin Reserved

ValidC(s) ==
    LET name == IF s # <<>> /\ Head(s) = "tag-" THEN Tail(s) ELSE s
    IN  \/ ValidPart(name)
        \/ \E i \in DOMAIN name : /\ name[i] = "::"
                                  /\ ValidPart(SubSeq(name, 1, i - 1))
                                  /\ ValidPart(SubSeq(name, i + 1, Len(name)))
=============================================================================
