------------------------------ MODULE MCFraming -------------------------------
\* Small instances of Framing: strings are 1 to 3 bytes with their zero, and the
\* sizes of streams and buffers are scaled down with them.
EXTENDS Framing

\* A message whose fields all differ; n is the length of its strings.
Msg(kind, sid, n) ==
    LET fields == ClientEncodes[kind] IN
    [name \in {fields[i].name : i \in DOMAIN fields} |->
        LET i == CHOOSE j \in DOMAIN fields : fields[j].name = name
        IN  IF name = "sid" THEN sid
            ELSE IF fields[i].kind = "u32" THEN 10 + i
            ELSE IF name = "crpyt_key" THEN [j \in 1..n |-> 20 + i]
            ELSE [j \in 1..n |-> IF j = n THEN 0 ELSE 20 + i]]

Call(kind, sid, n) == [kind |-> kind, msg |-> Msg(kind, sid, n)]

\* every request the library sends, followed by a small one
EveryScript == {<<Call(k, 7, 2), Call("UPLAOD_FILE", 8, 1)>> :
                   k \in DOMAIN ClientEncodes \ {"CLEAN_CACHE"}}

\* three calls with a large answer between small ones
ThreeScript == {<<Call("UPLAOD_FILE", 7, 1), Call("GET_META", 8, 2), Call("SET_USER_FLAG", 9, 1)>>}

AllScripts == EveryScript \cup ThreeScript
===============================================================================
