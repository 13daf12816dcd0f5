---------------------------- MODULE MCXmlParser -----------------------------
(* Texts of one to four commands in the styles clients use.                 *)
EXTENDS XmlParser

MCLetter == {"T", "a", "b", "c"}

\* <a b="x<'y" c='"'/>, written with entities
Quoted == <<"<", "a", " ", "b", "=", "\"">> \o Escape(<<"<", "'">>)
          \o <<"\"", " ", "c", "=", "'", " ", ">", "'", "/", ">">>
QuotedCmd == [tag |-> <<"a">>,
              attribute |-> << << <<"b">>, <<"<", "'">> >>,
                               << <<"c">>, <<" ", ">">> >> >>]

\* <b a c=1 >, a flag and a value without quotes
Plain == <<"<", "b", " ", "a", " ", "c", "=", "1", " ", ">">>
PlainCmd == [tag |-> <<"b">>,
             attribute |-> << << <<"a">>, Flag>>, << <<"c">>, <<"1">> >> >>]

\* <c  />
Short == <<"<", "c", " ", " ", "/", ">">>
ShortCmd == [tag |-> <<"c">>, attribute |-> <<>>]

\* <starttls>, which needs the end of the line
Tls == <<"<", "T", ">", "\r", "\n">>
TlsCmd == [tag |-> <<"T">>, attribute |-> <<>>]

\* <a b=11111111111111111111111111111>, longer than the buffer may grow
Long == <<"<", "a", " ", "b", "=">> \o [i \in 1..30 |-> "1"] \o <<">">>
LongCmd == [tag |-> <<"a">>,
            attribute |-> << << <<"b">>, [i \in 1..30 |-> "1"] >> >>]

Noise == <<" ", "<", "1", ">", "\r", "\n">>

MCInputs == {
    <<Short \o Long, <<ShortCmd, LongCmd>> >>,
    <<Quoted \o Noise \o Short, <<QuotedCmd, ShortCmd>> >>,
    <<Short \o Plain \o Quoted, <<ShortCmd, PlainCmd, QuotedCmd>> >>,
    <<Noise \o Plain \o Tls \o Short, <<PlainCmd, TlsCmd, ShortCmd>> >>,
    <<Short \o Short \o Noise \o Short \o Plain,
      <<ShortCmd, ShortCmd, ShortCmd, PlainCmd>> >>}
=============================================================================
