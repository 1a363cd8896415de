---------------------------- MODULE Identifiers ----------------------------
(***************************************************************************)
(* Addresses and mobile numbers as people type them, and the two places    *)
(* that must read them alike: the look-up of an account, in SQL and then   *)
(* in TypeScript, and the limiter that counts attempts.  A text is a       *)
(* sequence of characters.                                                 *)
(*                                                                         *)
(* Definitions whose name ends in "Slip" are no part of the model: each is *)
(* the definition below it with one plausible mistake.                     *)
(***************************************************************************)
EXTENDS Naturals, Sequences, SequencesExt, FiniteSetsExt

CONSTANTS
    Digits, At, Space,
    Separators,            \* what CLEAN_PHONE_SQL replaces by nothing
    Lower,                 \* the characters that have a lower case
    PHONE_KEY_LENGTH, MIN_DIGITS,
    Absent,                \* null, undefined
    Characters, MaxLength, \* the texts that are looked at
    Values                 \* and the values of a field

ASSUME IdentifierAssumption ==
    /\ Digits \subseteq Characters /\ Space \notin Digits
    /\ At \notin Digits \cup {Space}
    /\ Digits \cap Separators = {}
    /\ \A c \in DOMAIN Lower : {c, Lower[c]} \cap (Digits \cup {At, Space}) = {}
    /\ MIN_DIGITS \in Nat /\ PHONE_KEY_LENGTH \in Nat /\ MIN_DIGITS <= PHONE_KEY_LENGTH
    /\ MaxLength \in Nat
    /\ Values \subseteq Seq(Characters)
    /\ Absent \notin Seq(Characters)

VARIABLE text              \* what somebody has typed so far

TextInit == text = <<>>

Type ==
    /\ Len(text) < MaxLength
    /\ \E c \in Characters : text' = Append(text, c)

TextSpec == TextInit /\ [][Type]_text

-----------------------------------------------------------------------------
(* utils/phone.ts *)

(* What is left of t without the characters that are not in a set. *)
kept(t, chars) ==
    LET upTo[i \in 0..Len(t)] ==
          IF i = 0 THEN <<>>
          ELSE IF t[i] \in chars THEN Append(upTo[i - 1], t[i]) ELSE upTo[i - 1]
    IN  upTo[Len(t)]

digits(t) == kept(t, Digits)

Right(t, n) == SubSeq(t, IF Len(t) > n THEN Len(t) - n + 1 ELSE 1, Len(t))

normalizePhone(t) ==
    IF Len(digits(t)) < MIN_DIGITS THEN Absent
    ELSE Right(digits(t), PHONE_KEY_LENGTH)

looksLikeEmail(t) == At \in ToSet(t)

-----------------------------------------------------------------------------
(* UserRepository *)

(* One separator is forgotten. *)
cleanPhoneSlip(t) ==
    kept(t, ToSet(t) \ (Separators \ {CHOOSE s \in Separators : s # Space}))

cleanPhone(t) == kept(t, ToSet(t) \ Separators)

(* The WHERE clause, and the filter over what it returns. *)
foundByPhone(stored, typed) ==
    LET key == normalizePhone(typed)
    IN  /\ key # Absent
        /\ stored # <<>> /\ Right(cleanPhone(stored), PHONE_KEY_LENGTH) = key
        /\ normalizePhone(stored) = key

-----------------------------------------------------------------------------
(* AuthController and rateLimiter, on the fields of a body. *)

trim(t) ==
    LET inner == {i \in DOMAIN t : t[i] # Space}
    IN  IF inner = {} THEN <<>> ELSE SubSeq(t, Min(inner), Max(inner))

toLowerCase(t) ==
    [i \in DOMAIN t |-> IF t[i] \in DOMAIN Lower THEN Lower[t[i]] ELSE t[i]]

(* The first field that is a text and not blank. *)
firstOf(body, fields) ==
    LET given == {i \in DOMAIN fields : /\ body[fields[i]] # Absent
                                        /\ trim(body[fields[i]]) # <<>>}
    IN  IF given = {} THEN Absent ELSE trim(body[fields[Min(given)]])

loginIdentifier(body) == firstOf(body, <<"identifier", "email", "phone">>)

(* The fields in another order. *)
accountFieldsSlip == <<"email", "phone", "identifier">>

accountFields == <<"identifier", "email", "phone">>

accountKey(body) ==
    LET t == firstOf(body, accountFields)
    IN  IF t = Absent THEN Absent
        ELSE IF looksLikeEmail(t) \/ normalizePhone(t) = Absent
        THEN toLowerCase(t)
        ELSE normalizePhone(t)

-----------------------------------------------------------------------------
(* What is meant by the same number: enough digits, and the same ones from *)
(* the right, as far as the key goes.                                      *)
SameNumber(a, b) ==
    LET d == digits(a)  e == digits(b)
    IN  /\ Len(d) >= MIN_DIGITS /\ Len(e) >= MIN_DIGITS
        /\ \A i \in 0..PHONE_KEY_LENGTH - 1 :
             /\ i < Len(d) <=> i < Len(e)
             /\ i < Len(d) => d[Len(d) - i] = e[Len(e) - i]

(* The same address up to case, or the same number, or the same nonsense. *)
SameIdentifier(a, b) ==
    /\ looksLikeEmail(a) <=> looksLikeEmail(b)
    /\ \/ ~looksLikeEmail(a) /\ SameNumber(a, b)
       \/ toLowerCase(trim(a)) = toLowerCase(trim(b))

Fields == {"identifier", "email", "phone"}
Bodies == [Fields -> Values \cup {Absent}]
Just(value) == [f \in Fields |-> IF f = "identifier" THEN value ELSE Absent]

(* Numbers without formatting. *)
PlainNumbers == SeqOf(Digits, MaxLength)

(* The look-up finds an account by a number exactly if it is the same      *)
(* number as the one stored, however it was written when it was stored, as *)
(* long as it has no separators but those the SQL removes                  *)
(* (UserRepository.findAllByPhone).                                        *)
NumbersAgree ==
    text # <<>> /\ ToSet(text) \subseteq Digits \cup Separators =>
        \A typed \in PlainNumbers : foundByPhone(text, typed) <=> SameNumber(text, typed)

(* Two logins are counted together exactly if they try the same account by *)
(* the same identifier, whichever fields of the body they put it in        *)
(* (accountKey of rateLimiter against loginIdentifier of AuthController).  *)
CountedWhereItTries ==
    trim(text) # <<>> =>
        \A body \in Bodies :
            loginIdentifier(body) # Absent =>
                (accountKey(body) = accountKey(Just(text))
                 <=> SameIdentifier(loginIdentifier(body), text))
=============================================================================
