CONSTANTS
    Tasks = {t1, t2}
    Providers = {p1}
    Urls = {u1, u2}
    Scenarios = {{"overlap", "crash"}, {"crash"}, {"overlap", "write_error", "crash"}, {"overlap", "preempt", "disconnect"}, {"disconnect", "edit", "crash"}}
SPECIFICATION Spec
INVARIANTS TypeOK NoLostUpdate Published CatalogFresh CatalogSettled
