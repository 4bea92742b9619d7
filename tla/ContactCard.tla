---------------------------- MODULE ContactCard ----------------------------
(***************************************************************************)
(* The payload of a contact card (conformance/check_contact_card.py): a    *)
(* ContactCard proto or, at exactly KEY_LEN bytes, the bare intake key of  *)
(* a build before the card.                                                *)
(***************************************************************************)
EXTENDS ProtoWire

CONSTANT KEY_LEN    \* bytes of an intake key and of an account address (32)

ASSUME CardAssumption == KEY_LEN \in Nat \ {0}

(* A card: absent fields are empty, an absent generation is 0. *)
Card(key, addr, gen) ==
    [intake_key |-> key, account_address |-> addr, intake_generation |-> gen]

KEY == [k \in 1 .. KEY_LEN |-> 15 + k]
ADDR == [k \in 1 .. KEY_LEN |-> 159 + k]

(* The bytes of a key whose length is n instead. *)
OfLength(n) == [k \in 1 .. n |-> 15 + k]

-----------------------------------------------------------------------------
(* The writer.                                                              *)
field(tag, value) == <<tag, Len(value)>> \o value
varint_field(tag, value) == <<tag>> \o varint(value)

Payload(c) ==
    (IF c.intake_key = <<>> THEN <<>> ELSE field(10, c.intake_key))
    \o (IF c.account_address = <<>> THEN <<>> ELSE field(18, c.account_address))
    \o (IF c.intake_generation = 0 THEN <<>> ELSE varint_field(24, c.intake_generation))

-----------------------------------------------------------------------------
(* The reader.                                                              *)
(* Mutant: the bare key is told by not being shorter than a key. *)
IsBareLoosely(p) == Len(p) >= KEY_LEN /\ Len(p) < KEY_LEN + 3

IsBare(p) == Len(p) = KEY_LEN

(* The value of a field: the last one counts, one of another length is not  *)
(* an error but ignored.                                                    *)
ValueOf(fields, number, absent) ==
    LET at == {k \in DOMAIN fields : fields[k].number = number}
    IN  IF at = {} THEN absent
        ELSE fields[CHOOSE k \in at : \A j \in at : j <= k].value

KeyIn(fields, number) ==
    LET v == ValueOf(fields, number, <<>>) IN IF Len(v) = KEY_LEN THEN v ELSE <<>>

ReadCard(p) ==
    IF IsBare(p) THEN Card(p, <<>>, 0)
    ELSE LET fields == Decode(p)
         IN  Card(KeyIn(fields, 1), KeyIn(fields, 2), ValueOf(fields, 3, 0))

-----------------------------------------------------------------------------
(* The vectors.                                                             *)
CardCases == {
    [payload |-> Payload(Card(KEY, ADDR, 0)), reads |-> Card(KEY, ADDR, 0)],
    [payload |-> Payload(Card(KEY, ADDR, 300)), reads |-> Card(KEY, ADDR, 300)],
    [payload |-> Payload(Card(<<>>, ADDR, 0)), reads |-> Card(<<>>, ADDR, 0)],
    [payload |-> Payload(Card(KEY, <<>>, 0)), reads |-> Card(KEY, <<>>, 0)],
    [payload |-> KEY, reads |-> Card(KEY, <<>>, 0)] }

=============================================================================
