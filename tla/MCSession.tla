------------------------------ MODULE MCSession ------------------------------
EXTENDS ClientSession

AllPorts == {{"datalink"}, {"datalink", "http"}, {"datalink", "seedlink", "http"}}

\* Lines end in CR LF or in CR, or are followed by empty lines.
Endings == {<<"cr", "lf">>, <<"cr">>, <<"lf", "lf", "lf">>}
=============================================================================
