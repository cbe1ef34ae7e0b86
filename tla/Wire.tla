-------------------------------- MODULE Wire --------------------------------
(***************************************************************************)
(* The wire format: requests and answers as payloads of bytes, and the     *)
(* frames that carry them.  An Option is a sequence of at most one value;  *)
(* a Result is a record whose fault is "none" or the name of a             *)
(* ProtocolFault.  Names are ASCII, so any other byte in a string is       *)
(* InvalidUtf8.                                                            *)
(***************************************************************************)
EXTENDS Integers, Sequences

CONSTANTS MAX_MESSAGE_SIZE,   \* longest payload
          STRING_MAX          \* longest string, u16::MAX

ASSUME WireAssumption ==
    /\ MAX_MESSAGE_SIZE \in Nat /\ STRING_MAX \in Nat
    /\ MAX_MESSAGE_SIZE < STRING_MAX /\ STRING_MAX < 256 * 256

LENGTH_PREFIX_BYTES == 4
PROTOCOL_VERSION == 1
TAG_CREATE_INTERLOCK == 1
TAG_ATTACH_INTERLOCK == 2
TAG_CREATED  == 129
TAG_ATTACHED == 130
TAG_ERROR    == 136

Byte == 0 .. 255

Ok(v)    == [fault |-> "none", value |-> v]
Fault(f) == [fault |-> f, value |-> <<>>]
Failed(r) == r.fault # "none"

(* to_le_bytes of an integer of n bytes, and from_le_bytes: what is left of *)
(* x without its first k bytes, and the number in the last k bytes.         *)
to_le_bytes(x, n) ==
    LET left[k \in 0 .. n] == IF k = 0 THEN x ELSE left[k - 1] \div 256
    IN  [i \in 1 .. n |-> left[i - 1] % 256]

from_le_bytes(b) ==
    LET last[k \in 0 .. Len(b)] ==
            IF k = 0 THEN 0 ELSE b[Len(b) - k + 1] + 256 * last[k - 1]
    IN  last[Len(b)]

(* data[pos..] and data[pos..pos+n], with Rust's indices from 0. *)
From(data, pos)     == SubSeq(data, pos + 1, Len(data))
Slice(data, pos, n) == SubSeq(data, pos + 1, pos + n)

(***************************************************************************)
(* Requests and answers.                                                   *)
(***************************************************************************)
CreateInterlock(name, tier, watched_name, watched_word, interval_ns, conditions) ==
    [tag |-> TAG_CREATE_INTERLOCK, name |-> name, tier |-> tier,
     watched_name |-> watched_name, watched_word |-> watched_word,
     interval_ns |-> interval_ns, conditions |-> conditions]

AttachInterlock(name) ==
    [CreateInterlock(name, 0, <<>>, <<>>, <<>>, <<>>) EXCEPT !.tag = TAG_ATTACH_INTERLOCK]

(* What the client's methods ask for: an attach, or a create with the      *)
(* fields of its tier and no others.                                       *)
Text == Seq(0 .. 127)
u64  == {x \in Nat : ((x \div 65536) \div 65536) \div 65536 < 65536}
None == {<<>>}
Some(S) == [1 .. 1 -> S]

Shape(tag, tiers, watched_names, watched_words, intervals, conditions) ==
    [tag : {tag}, name : Text, tier : tiers, watched_name : watched_names,
     watched_word : watched_words, interval_ns : intervals, conditions : conditions]

Requests ==
    Shape(TAG_ATTACH_INTERLOCK, {0}, None, None, None, None)
        \cup Shape(TAG_CREATE_INTERLOCK, {0, 2}, None, None, None, None)
        \cup Shape(TAG_CREATE_INTERLOCK, {1}, Some(Text), Some(Byte), None, None)
        \cup Shape(TAG_CREATE_INTERLOCK, {3}, None, None, Some(u64), None)
        \cup Shape(TAG_CREATE_INTERLOCK, {4}, None, None, None, Some(Seq(Text \X Byte \X u64)))

Created(id)          == [tag |-> TAG_CREATED, id |-> id, code |-> 0, message |-> <<>>]
Attached(id)         == [tag |-> TAG_ATTACHED, id |-> id, code |-> 0, message |-> <<>>]
Error(code, message) == [tag |-> TAG_ERROR, id |-> 0, code |-> code, message |-> message]

ERR_INTERLOCK_REAPED    == 1
ERR_INTERLOCK_NOT_FOUND == 2
ERR_ALLOCATION_FAILED   == 3
ERR_INVALID_REQUEST     == 4

expected_fd_count(resp) == IF resp.tag = TAG_ERROR THEN 0 ELSE 1

(***************************************************************************)
(* Encoding.                                                               *)
(***************************************************************************)
encode_string(s) == to_le_bytes(Len(s), 2) \o s

(* The length prefix and the payload, unless it is too large. *)
Frame(payload) ==
    IF Len(payload) > MAX_MESSAGE_SIZE THEN Fault("FrameTooLarge")
    ELSE Ok(to_le_bytes(Len(payload), LENGTH_PREFIX_BYTES) \o payload)

encode_conditions(conds) ==
    LET part[k \in 0 .. Len(conds)] ==
            IF k = 0 THEN <<>>
            ELSE part[k - 1] \o encode_string(conds[k][1]) \o <<conds[k][2]>>
                             \o to_le_bytes(conds[k][3], 8)
    IN  to_le_bytes(Len(conds) % (256 * 256), 2) \o part[Len(conds)]

(* What a tier adds to the name and the tier byte. *)
encode_tier(req) ==
    CASE req.tier = 1 /\ req.watched_word # <<>> ->
            (IF req.watched_name = <<>> THEN <<>> ELSE encode_string(req.watched_name[1]))
                \o req.watched_word
      [] req.tier = 3 /\ req.interval_ns # <<>> -> to_le_bytes(req.interval_ns[1], 8)
      [] req.tier = 4 /\ req.conditions # <<>>  -> encode_conditions(req.conditions[1])
      [] OTHER -> <<>>

Strings(req) ==
    {req.name} \cup {req.watched_name[i] : i \in DOMAIN req.watched_name}
        \cup UNION {{req.conditions[i][k][1] : k \in DOMAIN req.conditions[i]} :
                    i \in DOMAIN req.conditions}

(* Mutant: the size of the payload is not tested. *)
encode_request_NoLimit(req) ==
    LET head == <<PROTOCOL_VERSION, req.tag>> \o encode_string(req.name)
        payload == IF req.tag = TAG_ATTACH_INTERLOCK THEN head
                   ELSE head \o <<req.tier>> \o encode_tier(req)
    IN  Ok(to_le_bytes(Len(payload), LENGTH_PREFIX_BYTES) \o payload)

encode_request(req) ==
    LET head == <<PROTOCOL_VERSION, req.tag>> \o encode_string(req.name)
        long == \E s \in Strings(req) : Len(s) > STRING_MAX
        attach == req.tag = TAG_ATTACH_INTERLOCK
    IN  CASE long -> Fault("FrameTooLarge")
          [] ~long /\ attach -> Frame(head)
          [] ~long /\ ~attach /\ req.tier = 1 /\ req.watched_word = <<>> -> Fault("Truncated")
          [] OTHER -> Frame(head \o <<req.tier>> \o encode_tier(req))

encode_response(resp) ==
    IF Len(resp.message) > STRING_MAX THEN Fault("FrameTooLarge")
    ELSE Frame(<<PROTOCOL_VERSION, resp.tag>>
               \o IF resp.tag = TAG_ERROR THEN <<resp.code>> \o encode_string(resp.message)
                                          ELSE to_le_bytes(resp.id, 8))

(***************************************************************************)
(* Decoding of a payload.                                                  *)
(***************************************************************************)
decode_string(data) ==
    IF Len(data) < 2 \/ Len(data) < 2 + from_le_bytes(Slice(data, 0, 2)) THEN Fault("Truncated")
    ELSE LET s == Slice(data, 2, from_le_bytes(Slice(data, 0, 2)))
         IN  IF \E i \in DOMAIN s : s[i] > 127 THEN Fault("InvalidUtf8") ELSE Ok(s)

(* A string and one more byte, from pos on; and where that byte is. *)
decode_string_then(rest, pos) ==
    LET s == decode_string(From(rest, pos))
    IN  IF ~Failed(s) /\ pos + 2 + Len(s.value) >= Len(rest) THEN Fault("Truncated") ELSE s

(* The count, then the conditions; after a name, `width` bytes to the next. *)
conditions_from(rest, start, width) ==
    LET count == from_le_bytes(Slice(rest, start, 2))
        cond[k \in 0 .. count] ==
            [pos \in Nat |->
                IF k = 0 THEN Ok(<<>>)
                ELSE LET s == decode_string_then(rest, pos)
                         at == pos + 2 + Len(s.value)
                         others == cond[k - 1][at + width]
                     IN  CASE Failed(s) -> s
                           [] ~Failed(s) /\ Len(rest) < at + 9 -> Fault("Truncated")
                           [] ~Failed(s) /\ Len(rest) >= at + 9 /\ Failed(others) -> others
                           [] OTHER ->
                                Ok(<< <<s.value, rest[at + 1],
                                        from_le_bytes(Slice(rest, at + 1, 8))>> >> \o others.value)]
    IN  IF Len(rest) < start + 2 THEN Fault("Truncated") ELSE cond[count][start + 2]

(* Mutant: a condition ends before the last byte of its threshold. *)
decode_conditions_Short(rest, start) == conditions_from(rest, start, 8)

decode_conditions(rest, start) == conditions_from(rest, start, 9)

(* The fields a tier adds, from pos on: a create request with those set. *)
decode_tier(rest, name, tier, pos) ==
    LET watched == decode_string_then(rest, pos)
        conds   == decode_conditions(rest, pos)
    IN  CASE tier = 1 -> IF Failed(watched) THEN watched
                         ELSE Ok(CreateInterlock(name, 1, <<watched.value>>,
                                     <<rest[pos + 2 + Len(watched.value) + 1]>>, <<>>, <<>>))
          [] tier = 3 -> IF Len(rest) < pos + 8 THEN Fault("Truncated")
                         ELSE Ok(CreateInterlock(name, 3, <<>>, <<>>,
                                     <<from_le_bytes(Slice(rest, pos, 8))>>, <<>>))
          [] tier = 4 -> IF Failed(conds) THEN conds
                         ELSE Ok(CreateInterlock(name, 4, <<>>, <<>>, <<>>, <<conds.value>>))
          [] OTHER    -> Ok(CreateInterlock(name, tier, <<>>, <<>>, <<>>, <<>>))

decode_request(data) ==
    LET rest == From(data, 2)
        name == decode_string(rest)
        named == decode_string_then(rest, 0)
        pos  == 2 + Len(name.value)
    IN  CASE Len(data) < 2 -> Fault("Truncated")
          [] Len(data) >= 2 /\ data[1] # PROTOCOL_VERSION -> Fault("UnsupportedVersion")
          [] Len(data) >= 2 /\ data[1] = PROTOCOL_VERSION ->
                CASE data[2] = TAG_CREATE_INTERLOCK ->
                        IF Failed(named) THEN named
                        ELSE decode_tier(rest, name.value, rest[pos + 1], pos + 1)
                  [] data[2] = TAG_ATTACH_INTERLOCK ->
                        IF Failed(name) THEN name ELSE Ok(AttachInterlock(name.value))
                  [] OTHER -> Fault("UnknownTag")

decode_response(data) ==
    LET rest == From(data, 2)
        text == decode_string(From(rest, 1))
        id   == from_le_bytes(Slice(rest, 0, 8))
    IN  CASE Len(data) < 2 -> Fault("Truncated")
          [] Len(data) >= 2 /\ data[1] # PROTOCOL_VERSION -> Fault("UnsupportedVersion")
          [] Len(data) >= 2 /\ data[1] = PROTOCOL_VERSION ->
                CASE data[2] \in {TAG_CREATED, TAG_ATTACHED} ->
                        IF Len(rest) < 8 THEN Fault("Truncated")
                        ELSE IF data[2] = TAG_CREATED THEN Ok(Created(id)) ELSE Ok(Attached(id))
                  [] data[2] = TAG_ERROR ->
                        IF Len(rest) = 0 THEN Fault("Truncated")
                        ELSE IF Len(rest) = 1 THEN Ok(Error(rest[1], <<>>))
                        ELSE IF Failed(text) THEN text ELSE Ok(Error(rest[1], text.value))
                  [] OTHER -> Fault("UnknownTag")
=============================================================================
