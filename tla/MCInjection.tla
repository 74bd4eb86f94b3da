---------------------------- MODULE MCInjection ----------------------------
(***************************************************************************)
(* Values for TLC: bytes of two bits; lists that name messages, one of    *)
(* them with a number beyond uint32_t, name none, end early or are empty;  *)
(* packets of even and odd length, among them one whose words are all zero. *)
(***************************************************************************)
EXTENDS Injection

\* 6 is message 2 modulo a NumberBase of 4.
SmallLists == {<< >>, <<-1>>, <<6>>, <<1, Junk, 2>>, <<Junk>>}

FewLists == {<<-1>>, <<2>>}

SmallPayloads == {<<0>>, <<3, 2>>}

OnePayload == {<<1>>}
=============================================================================
