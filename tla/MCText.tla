------------------------------- MODULE MCText --------------------------------
EXTENDS Conversions

RequestLine == <<"a", " ", "a", " ", "HTTP/1.1", LF>>
OldLine == <<LF, "a", " ", "a", " ", "HTTP/1.0", CR, LF>>

\* The kinds of text, each over the characters its function tells apart.
SmallInputs == [
    request  |-> [start |-> {<<>>}, max |-> 8, chars |-> {"a", " ", CR, LF, "ctl", "HTTP/1.1"}],
    headers  |-> [start |-> {RequestLine}, max |-> 12,
                  chars |-> {"con", "tent-length", ":", " ", "1", "-", CR, LF}],
    repeated |-> [start |-> {RequestLine \o ContentLength \o <<":", "0", LF>>}, max |-> 17,
                  chars |-> {"con", "tent-length", ":", " ", "1", LF}],
    connection |-> [start |-> {OldLine \o Connection \o <<":">>, RequestLine \o Connection \o <<":">>},
                  max |-> 15, chars |-> {"close", "keep-alive", " ", "a", CR, LF}],
    response |-> [start |-> {<<"HTTP/1.1", " ", "2", "0">>, <<"HTTP/1.0">>}, max |-> 10,
                  chars |-> {"a", " ", "0", CR, LF, ":"}],
    target   |-> [start |-> {<<>>}, max |-> 5, chars |-> {"a", "#", "?", "&", "="}],
    number   |-> [start |-> {<<>>}, max |-> 5, chars |-> {"-", "0", "1", "9", "a"}],
    list     |-> [start |-> {<<>>}, max |-> 5, chars |-> {"a", ",", ";", " ", "\n"}],
    bytes    |-> [start |-> {<<>>}, max |-> 3, chars |-> {0, 64, 65, 90, 91, 171, 193, 255}],
    macro    |-> [start |-> {<<>>}, max |-> 7, chars |-> {"{", "}", "a", "!"}],
    lower    |-> [start |-> {<<>>}, max |-> 22, chars |-> {"x"}]]
=============================================================================
