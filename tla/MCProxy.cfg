SPECIFICATION Spec
CONSTANTS
    Flows = {f1, f2, f3}
    Kinds = {"messages_sse", "messages_json", "messages_error", "count_tokens", "count_error", "batches", "check_in", "check_in_sse", "other_host"}
    Cap = 1
SYMMETRY Symmetry
INVARIANTS EventsOfFlow OldestEvictedFirst NothingLeftBehind
CHECK_DEADLOCK FALSE
