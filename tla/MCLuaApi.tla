-------------------------------- MODULE MCLuaApi --------------------------------
\* Two objects with the same key, so that both have an answer to one path.
EXTENDS LuaApi, MCCInterface

Shelf(n) == Obj(<<ka>>, <<Number(n, FALSE)>>)
LuaDocs == {Doc(Obj(<<<<"n">>, <<"u">>>>, <<Shelf(<<"1">>), Shelf(<<"9">>)>>))}
LuaPaths == {<<KeyOf(k)>> : k \in {<<"n">>, <<"u">>, ka}}
=============================================================================
