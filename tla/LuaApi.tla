-------------------------------- MODULE LuaApi --------------------------------
(***************************************************************************)
(* The explicit Lua API (lua/qjson.lua) over the C interface: Doc and      *)
(* Cursor objects.  There is one cur_box for the whole module, and the     *)
(* _cur of every Cursor is cur_box[0]: a reference into the box, not a     *)
(* copy of what is in it.  So slot is the box, and a Cursor object is only *)
(* known by the path it was opened at, which is what its user goes by.     *)
(* Strings are copied before a method returns (ffi.string).                *)
(***************************************************************************)
EXTENDS InterfaceSpec

VARIABLES
    objs,       \* the Cursor objects in use, as the paths they were opened at
    self,       \* the Cursor whose method was called last; None for one of Doc
    outcome     \* "value", "nil" or "raised"

luaVars == <<objs, self, outcome>>

LuaInit == Init /\ objs = {} /\ self = None /\ outcome = None

\* check_access: a missing value is nil, any other error is raised.
check_access ==
    outcome' = CASE ret'.rc = "ok" -> "value"
                 [] ret'.rc = "not_found" -> "nil"
                 [] OTHER -> "raised"

-----------------------------------------------------------------------------
Doc_get(p) ==
    /\ \/ qjson_get_str(p) \/ qjson_get_i64(p) \/ qjson_get_u64(p) \/ qjson_get_f64(p) \/ qjson_get_bool(p)
       \/ qjson_is_null(p) \/ qjson_typeof(p) \/ qjson_len(p)
    /\ check_access /\ self' = None /\ UNCHANGED objs

Doc_open(p) ==
    /\ qjson_open(p)
    /\ check_access /\ self' = None
    /\ objs' = objs \cup IF outcome' = "value" THEN {p} ELSE {}

\* The methods of Cursor o, of which C sees the cursor in the box.
Cursor_get(o, p) ==
    /\ \/ qjson_cursor_get_str(p) \/ qjson_cursor_get_i64(p) \/ qjson_cursor_get_u64(p)
       \/ qjson_cursor_get_f64(p) \/ qjson_cursor_get_bool(p) \/ qjson_cursor_typeof(p) \/ qjson_cursor_len(p)
    /\ check_access /\ self' = o /\ UNCHANGED objs

Cursor_open(o, p) ==
    /\ \/ qjson_cursor_open(p)
       \/ Len(p) = 1 /\ (qjson_cursor_field(p[1]) \/ qjson_cursor_index(p[1]))
    /\ check_access /\ self' = o
    /\ objs' = objs \cup IF outcome' = "value" THEN {Located(o, p)} ELSE {}

\* parse returns a Doc or raises; ffi.gc frees the document when no object needs it.
parse ==
    /\ \/ Parse
       \/ (SkipChunk \/ ScanChunk) /\ UNCHANGED <<docVars, clientVars>>
    /\ outcome' = IF phase' = "failed" THEN "raised" ELSE None
    /\ UNCHANGED <<objs, self>>
collect == qjson_free /\ objs' = {} /\ self' = None /\ outcome' = None

LuaNext ==
    \/ parse \/ collect
    \/ \E p \in Paths : Doc_get(p) \/ Doc_open(p)
    \/ \E o \in objs, p \in Paths : Cursor_get(o, p) \/ Cursor_open(o, p)

LuaSpec == LuaInit /\ [][LuaNext]_<<vars, luaVars>>

-----------------------------------------------------------------------------
\* A method of a Cursor answers for the value its object was opened at, whatever
\* other Cursors have been opened since (README.md:128-132, "avoid re-walking
\* shared prefix").
CursorKeepsValue ==
    Served /\ ret # None /\ self # None /\ ret.rc = "ok" =>
        \A v \in At(Located(self, ret.path)) :
            Exempt(v) \/ Expected(ret.fn, v) = Has(TRUE, ret.val)
=============================================================================
