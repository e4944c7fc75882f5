--------------------------- MODULE MCCallbackList ---------------------------
\* A small instance of CallbackList for TLC.
EXTENDS CallbackList, TLC

CONSTANTS a, b, c, s, t        \* callbacks and types of attributes

TypeOfEach == a :> s @@ b :> t @@ c :> AnyType

\* A callback may remove itself and others, as command_saved_callbacks_changed
\* does; and callbacks call the list, for types that may reach them again.
ItselfAndOthers == {<<a, a>>, <<a, b>>, <<b, c>>}
CallsOthers == {<<b, t>>, <<c, t>>}
=============================================================================
