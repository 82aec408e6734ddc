---------------------------- MODULE MCFrontendViews ----------------------------
EXTENDS FrontendViews, TLC
CONSTANTS c1, c2, o1, o2

Task(view, acts, times, losses) == [view |-> view, acts |-> acts, clicks |-> times, faults |-> losses]

\* What meets in one task: answers that race, an answer and what the user does
\* meanwhile, and a request that fails.
MCTasks ==
    {Task("chats", acts, times, losses) : <<acts, times, losses>> \in {
        <<{"no", "more", "turn", "meta"}, 4, 0>>,
        <<{"no", "retry", "filter", "select"}, 4, 1>>,
        <<{"no", "new", "go", "back", "turn"}, 3, 0>>,
        <<{"no", "new", "select", "turn"}, 3, 0>>,
        <<{"fresh", "link", "new", "go", "back"}, 3, 1>>,
        <<{"no", "dialog", "back", "select"}, 4, 1>>,
        <<{"no", "clear", "go", "new"}, 3, 1>>}}
    \cup {Task("documents", acts, times, losses) : <<acts, times, losses>> \in {
        <<{"load", "moredocuments", "search", "indexer"}, 4, 1>>,
        <<{"load", "open", "morechunks", "retrychunks"}, 5, 1>>,
        <<{"open", "load", "close"}, 3, 0>>,
        <<{"start", "stop", "indexer"}, 2, 0>>,
        <<{"stop", "visible", "indexer"}, 1, 0>>,
        <<{"stop", "load"}, 2, 1>>}}
    \cup {Task("settings", acts, times, losses) : <<acts, times, losses>> \in {
        <<{"type", "save", "exclude"}, 5, 2>>,
        <<{"type", "provider", "exclude"}, 4, 1>>,
        <<{"type", "provider", "save"}, 4, 0>>,
        <<{"type", "brief", "save"}, 4, 1>>,
        <<{"type", "retry", "save"}, 4, 2>>,
        <<{"long", "type", "save"}, 3, 1>>,
        <<{"type", "check"}, 2, 1>>,
        <<{"type", "start"}, 2, 1>>,
        <<{"start", "stop"}, 2, 0>>,
        <<{"stop", "refresh"}, 2, 0>>,
        <<{"section", "know"}, 3, 1>>,
        <<{"section", "chain"}, 2, 1>>,
        <<{"section", "health"}, 2, 0>>,
        <<{"url"}, 3, 0>>}}
    \cup {Task("panels", acts, times, losses) : <<acts, times, losses>> \in {
        <<{"users", "owner", "generation", "checkmodel"}, 5, 0>>,
        <<{"users", "owner", "generation", "create", "prepare"}, 5, 0>>,
        <<{"users", "owner", "generation", "create", "control"}, 5, 0>>,
        <<{"users", "owner", "generation", "control", "compare"}, 5, 0>>,
        <<{"users", "owner", "generation", "prepare"}, 4, 1>>,
        <<{"users", "owner", "generation", "create"}, 4, 1>>,
        <<{"delivery", "points", "connection"}, 3, 1>>}}
    \cup {Task("approval", acts, times, losses) : <<acts, times, losses>> \in {
        <<{"edit", "approve"}, 3, 0>>,
        <<{"edit", "approve", "cancel"}, 2, 1>>}}
    \cup {Task("admin", acts, times, losses) : <<acts, times, losses>> \in {
        <<{"type", "key", "remove", "save"}, 5, 0>>,
        <<{"key", "save", "stop"}, 4, 1>>,
        <<{"query", "test", "tools", "stop"}, 4, 1>>}}
    \cup {Task("metrics", acts, times, losses) : <<acts, times, losses>> \in {
        <<{"period", "price", "save"}, 3, 0>>,
        <<{"user", "refresh"}, 3, 0>>,
        <<{"period", "user", "csv"}, 2, 1>>,
        <<{"price", "save"}, 2, 1>>}}
    \cup {Task("filechat", acts, times, losses) : <<acts, times, losses>> \in {
        <<{"files", "question", "reload"}, 5, 1>>}}
    \cup {Task("runs", acts, times, losses) : <<acts, times, losses>> \in {
        <<{"act", "runs", "job"}, 2, 1>>,
        <<{"act", "tick", "leave"}, 3, 0>>}}
    \cup {Task("export", acts, times, losses) : <<acts, times, losses>> \in {
        <<{"all", "other"}, 2, 1>>,
        <<{"all", "options", "other"}, 3, 0>>,
        <<{"select", "tick", "turn", "open", "export"}, 4, 0>>}}
    \cup {Task("templates", acts, times, losses) : <<acts, times, losses>> \in {
        <<{"panel", "search", "type", "save"}, 4, 0>>,
        <<{"panel", "import", "remove"}, 3, 1>>,
        <<{"panel", "edit", "remove", "use"}, 3, 0>>,
        <<{"panel", "use", "send"}, 4, 1>>}}
    \cup {Task("prompts", acts, times, losses) : <<acts, times, losses>> \in {
        <<{"type", "send", "panel", "mark"}, 6, 0>>,
        <<{"type", "send", "panel", "search", "reuse"}, 5, 0>>}}

\* Tools with a form of each kind: fields shown for some types only, times
\* taken apart, a preview, and lists to choose from.
MCTools == {"create_share", "create_calendar_event", "create_file"}
MCCalendars == <<"c1", "c2">>

MCActs == UNION {t.acts : t \in MCTasks}

=============================================================================
