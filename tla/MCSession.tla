----------------------------- MODULE MCSession -----------------------------
(* Session with names at the limits: with a limit of 32 bytes, 28 is the   *)
(* longest name of an attach, and 24 the longest whose "not found" can be  *)
(* told.                                                                   *)
EXTENDS Session

Name(n) == [i \in 1 .. n |-> 97]

Create(r) == [method |-> "create", request |-> r]
Attach(m, name) == [method |-> m, request |-> AttachInterlock(name)]

Everything ==
    {Attach(m, Name(n)) : m \in {"attach_interlock"}, n \in {0, 1, 24, 25, 28, 29, 41}}
    \cup {Attach(m, CLOCK) : m \in {"attach_interlock", "attach_wait_counter"}}
    \cup {Create(CreateInterlock(Name(n), t, <<>>, <<>>, <<>>, <<>>)) :
             t \in {0, 2}, n \in {1, 27, 28}}
    \cup {Create(CreateInterlock(Name(1), 1, <<Name(n)>>, <<w>>, <<>>, <<>>)) :
             w \in {0, 1}, n \in {0, 1, 23, 24}}
    \cup {Create(CreateInterlock(Name(n), 3, <<>>, <<>>, <<i>>, <<>>)) :
             n \in {1, 19, 20}, i \in {0, 255, 70000}}
    \cup {Create(CreateInterlock(Name(1), 4, <<>>, <<>>, <<>>, <<conds>>)) :
             conds \in {<<>>, << <<Name(2), 1, 300>> >>, << <<Name(1), 0, 1>>, <<CLOCK, 1, 256>> >>}}

Short == {Attach("attach_wait_counter", Name(1)),
          Create(CreateInterlock(Name(1), 0, <<>>, <<>>, <<>>, <<>>))}

AskSeq == <<Everything, Short>>
TextBytes == <<73, 58, 32>>
=============================================================================
