--------------------------- MODULE MCLegacyRouter ---------------------------
(* LegacyRouter with a text-only vLLM of one slot before the vision llama.  *)
EXTENDS LegacyRouter

MCCap == <<1, 1>>
MCVllm == {1}

NoAuth == [scheme |-> "none", token |-> ""]
Bearer(token) == [scheme |-> "Bearer", token |-> token]
Text == [type |-> "text", source |-> "", image |-> FALSE]
Picture == [type |-> "", source |-> "", image |-> TRUE]
Body(ids, objects) == [ids |-> <<ids>>, metadata |-> <<{}>>, objects |-> objects]

Plain == [path |-> "proxy", key |-> {"key"}, auth |-> NoAuth, headers |-> <<{}>>, body |-> {}]

\* One session, told in a header beside a placeholder, by a token or in the
\* body, with or without a picture; requests without a session that carry the
\* key only; one without a key; and one the router answers itself.
MCMessage ==
    {Plain,
     [Plain EXCEPT !.path = "models"],
     [Plain EXCEPT !.key = {"other"}],
     [Plain EXCEPT !.key = {}, !.auth = Bearer("key"), !.body = {Body({}, {Text, Picture})}],
     [Plain EXCEPT !.auth = Bearer("s"), !.headers = <<{"none"}, {}>>],
     [Plain EXCEPT !.headers = <<{"test"}, {"s"}>>, !.body = {Body({"other"}, {Picture})}],
     [Plain EXCEPT !.body = {Body({"s"}, {Text})}]}
=============================================================================
